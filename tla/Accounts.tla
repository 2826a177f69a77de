------------------------------ MODULE Accounts ------------------------------
(***************************************************************************)
(* The user database in its dbm file and everyone who changes it: users    *)
(* who log in or fill in the web form, the administrator's web form, the   *)
(* command that sets a password, and rehash, which empties the database    *)
(* and reads it again from the text file.  Nobody locks anything: a record *)
(* is read, kept for minutes and stored whole; a store with userdbrhash is *)
(* two stores, the record under the name and again under the pager's id.   *)
(*                                                                         *)
(* Abstractions: a password or a set of hours is named for the session     *)
(* that chose it; each call of the dbm library is one step; a user's       *)
(* pager id does not change; the other fields go with the hours.           *)
(***************************************************************************)
EXTENDS Naturals, FiniteSets

CONSTANTS
    Names,        \* user names
    Numbers,      \* pager ids
    PagerOf,      \* PagerOf[n]: u.pageid of n
    InFile,       \* names in the text file rehash reads
    Sessions,     \* children of the server, and commands typed by root
    ReverseHash,  \* databases.userdbrhash
    Rehash,       \* the process that runs rehash
    Blank,        \* the empty name, pager id or password
    Given,        \* the password and the hours a user starts with
    NoRecord

ASSUME AccountsAssumption ==
    /\ PagerOf \in [Names -> Numbers]
    /\ InFile \subseteq Names
    /\ ReverseHash \in BOOLEAN
    /\ Names \cap Numbers = {} /\ Blank \notin Names \cup Numbers
    /\ Rehash \notin Sessions
    /\ Given \notin Sessions /\ Blank \notin Sessions \cup {Given}

Keys == Names \cup Numbers \cup {Blank}
Actors == Sessions \cup {Rehash}
Record == [pw : Sessions \cup {Given, Blank}, hours : Sessions \cup {Given}]

ASSUME RecordAssumption == NoRecord \notin Record

VARIABLES
    db,          \* the records of the dbm file
    pc,          \* pc[a]: what a does next
    job,         \* what a session does in the end, what rehash is busy with
    key,         \* u.name of the record a works on
    copy,        \* the record as a has it
    left,        \* keys the loop of rehash has yet to visit
    cache,       \* names and passwords of rehash
    \* History, read by the properties only
    stale,       \* actors whose copy somebody has overwritten in the database
    current,     \* current[n]: what the changes made to n so far add up to
    clobbered,   \* names stored by an actor with a stale copy
    split,       \* pager ids whose record may differ from the user's
    vanished,    \* a record went away between u_exists() and getuser()
    during       \* keys somebody wrote while rehash was running

rehash  == <<left, cache>>
history == <<stale, current, clobbered, split, vanished, during>>
vars    == <<db, pc, job, key, copy, rehash, history>>

\* Where a holds a copy of the record of key[a], or has decided what to store.
Holding == {"editing", "adding", "restoring"}

Running == pc[Rehash] \notin {"idle", "over"}

TypeOK ==
    /\ db \in [Keys -> Record \cup {NoRecord}]
    /\ pc \in [Actors -> {"idle", "asked", "editing", "adding", "deleting", "alias", "caching",
                          "erase", "parse", "restore", "restoring", "over"}]
    /\ job \in [Actors -> {"none", "login", "web", "root", "add", "parse", "restore"}]
    /\ key \in [Actors -> Keys]
    /\ copy \in [Actors -> Record \cup {NoRecord}]
    /\ left \subseteq Keys
    /\ cache \in [Keys -> Record \cup {NoRecord}]
    /\ stale \subseteq Actors
    /\ current \in [Names -> Record \cup {NoRecord}]
    /\ clobbered \subseteq Names
    /\ split \subseteq Keys
    /\ vanished \in BOOLEAN
    /\ during \subseteq Keys

Whole == [pw |-> Given, hours |-> Given]

\* The key of the second store.
Alias(k) == IF k \in Names THEN PagerOf[k] ELSE k

Init ==
    /\ db = [k \in Keys |-> IF k \in InFile \/ (ReverseHash /\ \E n \in InFile : PagerOf[n] = k)
                            THEN Whole ELSE NoRecord]
    /\ pc = [a \in Actors |-> "idle"]
    /\ job = [a \in Actors |-> "none"]
    /\ key = [a \in Actors |-> Blank]
    /\ copy = [a \in Actors |-> NoRecord]
    /\ left = {}
    /\ cache = [k \in Keys |-> NoRecord]
    /\ stale = {}
    /\ current = [n \in Names |-> db[n]]
    /\ clobbered = {} /\ split = {}
    /\ vanished = FALSE
    /\ during = {}

Goto(a, where) == pc' = [pc EXCEPT ![a] = where]

\* Where a goes, with the record it works on; a process that ends forgets it.
Goes(a, where, k, record) ==
    /\ Goto(a, where)
    /\ job' = [job EXCEPT ![a] = IF where = "over" THEN "none" ELSE @]
    /\ key' = [key EXCEPT ![a] = IF where = "over" THEN Blank ELSE k]
    /\ copy' = [copy EXCEPT ![a] = IF where = "over" THEN NoRecord ELSE record]

\* The history of a change of the records ks by a.
Changed(a, ks) ==
    /\ stale' = (stale \ {a}) \cup {o \in Actors \ {a} : pc[o] \in Holding /\ key[o] \in ks}
    /\ during' = IF Running /\ a # Rehash THEN during \cup ks ELSE during

\* One of the records ks was seen and is about to be read.
Looked(ks) ==
    \/ \E a \in Actors : pc[a] = "asked" /\ key[a] \in ks
    \/ job[Rehash] = "restore" /\ left \cap ks # {}

\* Pager ids a store under the name or id k may leave different from the name:
\* a session found the user by the pager id, or another actor is between its stores.
Parted(a, k) ==
    {x \in Numbers : /\ x = Alias(k)
                     /\ \/ k \in Numbers /\ a # Rehash
                        \/ \E o \in Actors \ {a} : pc[o] = "alias" /\ Alias(key[o]) = x}

-----------------------------------------------------------------------------
(* dbm_storeuser *)

\* What an actor does after its store.
After(a) ==
    IF a = Rehash THEN job[a] ELSE "over"

\* The store under the name k.
Store(a, k, record) ==
    /\ db' = [db EXCEPT ![k] = record]
    /\ Goes(a, IF ReverseHash THEN "alias" ELSE After(a), k, record)
    /\ split' = split \cup Parted(a, k)
    /\ Changed(a, {k})

\* Mutant of StoreAlias: the record is stored under the name again.
StoreAliasAgain(a) ==
    /\ pc[a] = "alias"
    /\ Goes(a, After(a), Blank, NoRecord)
    /\ db' = [db EXCEPT ![key[a]] = copy[a]]
    /\ Changed(a, {key[a]})
    /\ UNCHANGED <<rehash, current, clobbered, split, vanished>>

\* The store under the pager id.
StoreAlias(a) ==
    /\ pc[a] = "alias"
    /\ Goes(a, After(a), Blank, NoRecord)
    /\ db' = [db EXCEPT ![Alias(key[a])] = copy[a]]
    /\ Changed(a, {Alias(key[a])})
    /\ UNCHANGED <<rehash, current, clobbered, split, vanished>>

-----------------------------------------------------------------------------
(* A user, or root for a user: p_login, _http_moduser, changepasswd *)

\* _http_auth_require: the web form asks for the password first.
Authentic(k) == db[k] # NoRecord /\ db[k].pw # Blank

\* Mutant of Ask: nobody looks whether there is such a user.
AskUnchecked(s, what, k) ==
    /\ pc[s] = "idle"
    /\ what = "web" => Authentic(k)
    /\ Goto(s, "asked")
    /\ job' = [job EXCEPT ![s] = what]
    /\ key' = [key EXCEPT ![s] = k]
    /\ UNCHANGED <<db, copy, rehash, history>>

\* u_exists()
Ask(s, what, k) ==
    /\ pc[s] = "idle"
    /\ db[k] # NoRecord
    /\ what = "web" => Authentic(k)
    /\ Goto(s, "asked")
    /\ job' = [job EXCEPT ![s] = what]
    /\ key' = [key EXCEPT ![s] = k]
    /\ UNCHANGED <<db, copy, rehash, history>>

\* getuser(): a record that is gone by now is all zeroes, name and pager id too.
\* p_login turns a user without a password away.
Fetch(s) ==
    /\ pc[s] = "asked"
    /\ Goes(s, IF job[s] = "login" /\ ~Authentic(key[s]) THEN "over" ELSE "editing",
            IF db[key[s]] = NoRecord THEN Blank ELSE key[s], db[key[s]])
    /\ UNCHANGED <<db, rehash, history>>

\* What s may change: the web form sends the hours always, root has no form.
Choices(s) ==
    CASE job[s] = "login" -> (SUBSET {"pw", "hours"}) \ {{}}
      [] job[s] = "web" -> {{"hours"}, {"pw", "hours"}}
      [] job[s] = "root" -> {{"pw"}}
      [] OTHER -> {}

\* The record with the fields that s chose anew.
Edited(record, s, fields) ==
    LET r == IF record = NoRecord THEN [pw |-> Blank, hours |-> Given] ELSE record
    IN  [pw    |-> IF "pw" \in fields THEN s ELSE r.pw,
         hours |-> IF "hours" \in fields THEN s ELSE r.hours]

\* Mutant of Save: fields that were not changed are stored as the user was given them.
SaveAnew(s) ==
    /\ pc[s] = "editing"
    /\ \E fields \in Choices(s) :
          /\ Store(s, key[s], Edited(Whole, s, fields))
          /\ current' = [n \in Names |-> IF n = key[s] /\ current[n] # NoRecord
                                         THEN Edited(current[n], s, fields) ELSE current[n]]
    /\ clobbered' = IF s \in stale THEN clobbered \cup ({key[s]} \cap Names) ELSE clobbered
    /\ UNCHANGED <<rehash, vanished>>

\* The whole record is stored, as it was read but for what s changed.
Save(s) ==
    /\ pc[s] = "editing"
    /\ \E fields \in Choices(s) :
          /\ Store(s, key[s], Edited(copy[s], s, fields))
          /\ current' = [n \in Names |-> IF n = key[s] /\ current[n] # NoRecord
                                         THEN Edited(current[n], s, fields) ELSE current[n]]
    /\ clobbered' = IF s \in stale THEN clobbered \cup ({key[s]} \cap Names) ELSE clobbered
    /\ UNCHANGED <<rehash, vanished>>

\* No change, a short or a different password, a wrong one, alarm(childlifetime),
\* or the client is gone: also between the two stores.
Leave(s) ==
    /\ pc[s] \notin {"idle", "over"}
    /\ Goes(s, "over", Blank, NoRecord)
    /\ split' = IF pc[s] = "alias" THEN split \cup {Alias(key[s])} ELSE split
    /\ stale' = stale \ {s}
    /\ UNCHANGED <<db, rehash, current, clobbered, vanished, during>>

-----------------------------------------------------------------------------
(* The administrator: _http_doadduser, _http_dodeluser *)

\* u_exists() says no.
AskNew(s, n) ==
    /\ pc[s] = "idle" /\ db[n] = NoRecord
    /\ Goto(s, "adding")
    /\ job' = [job EXCEPT ![s] = "add"]
    /\ key' = [key EXCEPT ![s] = n]
    /\ UNCHANGED <<db, copy, rehash, history>>

Add(s) ==
    /\ pc[s] = "adding"
    /\ LET record == [pw |-> s, hours |-> s] IN
          /\ Store(s, key[s], record)
          /\ current' = [current EXCEPT ![key[s]] = record]
    /\ UNCHANGED <<rehash, clobbered, vanished>>

AskDelete(s, k) ==
    /\ pc[s] = "idle" /\ db[k] # NoRecord
    /\ Goto(s, "deleting")
    /\ key' = [key EXCEPT ![s] = k]
    /\ UNCHANGED <<db, job, copy, rehash, history>>

\* dbm_deleteuser: the record of the pager id stays.
Delete(s) ==
    /\ pc[s] = "deleting"
    /\ Goes(s, "over", Blank, NoRecord)
    /\ db' = [db EXCEPT ![key[s]] = NoRecord]
    /\ current' = [n \in Names |-> IF n = key[s] THEN NoRecord ELSE current[n]]
    /\ Changed(s, {key[s]})
    /\ vanished' = (vanished \/ Looked({key[s]}))
    /\ UNCHANGED <<rehash, clobbered, split>>

-----------------------------------------------------------------------------
(* rehash_main *)

Present == {k \in Keys : db[k] # NoRecord}

\* listusers("*")
StartRehash ==
    /\ pc[Rehash] = "idle"
    /\ Goto(Rehash, "caching")
    /\ left' = Present
    /\ UNCHANGED <<db, job, key, copy, cache, history>>

\* getuser() for each name: a password of its own for each key.
CachePassword(k) ==
    /\ pc[Rehash] = "caching" /\ k \in left
    /\ left' = left \ {k}
    /\ cache' = [cache EXCEPT ![k] = IF db[k] = NoRecord THEN [pw |-> Blank, hours |-> Given]
                                     ELSE db[k]]
    /\ UNCHANGED <<db, pc, job, key, copy, history>>

\* eraseuserdb
Erase ==
    /\ pc[Rehash] = "caching" /\ left = {}
    /\ Goto(Rehash, "parse")
    /\ job' = [job EXCEPT ![Rehash] = "parse"]
    /\ db' = [k \in Keys |-> NoRecord]
    /\ left' = InFile
    /\ Changed(Rehash, Keys)
    /\ vanished' = (vanished \/ Looked(Keys))
    /\ UNCHANGED <<key, copy, cache, current, clobbered, split>>

\* parseusers: the text file has no passwords.
Parse(n) ==
    /\ pc[Rehash] = "parse" /\ n \in left
    /\ left' = left \ {n}
    /\ Store(Rehash, n, [pw |-> Blank, hours |-> Given])
    /\ UNCHANGED <<cache, current, clobbered, vanished>>

\* listusers("*") again
StartRestore ==
    /\ pc[Rehash] = "parse" /\ left = {}
    /\ Goto(Rehash, "restore")
    /\ job' = [job EXCEPT ![Rehash] = "restore"]
    /\ left' = {k \in Present : cache[k] # NoRecord}
    /\ UNCHANGED <<db, key, copy, cache, history>>

\* getuser() once more, and the password put back.
Restore(k) ==
    /\ pc[Rehash] = "restore" /\ k \in left
    /\ left' = left \ {k}
    /\ Goto(Rehash, "restoring")
    /\ key' = [key EXCEPT ![Rehash] = IF db[k] = NoRecord THEN Blank ELSE k]
    /\ copy' = [copy EXCEPT ![Rehash] =
                   [pw |-> cache[k].pw, hours |-> IF db[k] = NoRecord THEN Given ELSE db[k].hours]]
    /\ UNCHANGED <<db, job, cache, history>>

StoreRestored ==
    /\ pc[Rehash] = "restoring"
    /\ Store(Rehash, key[Rehash], copy[Rehash])
    /\ UNCHANGED <<rehash, current, clobbered, vanished>>

\* What rehash makes of the user n if nobody interferes.
Rehashed(n) ==
    IF n \notin InFile THEN NoRecord
    ELSE [pw |-> IF cache[n] = NoRecord THEN Blank ELSE cache[n].pw, hours |-> Given]

EndRehash ==
    /\ pc[Rehash] = "restore" /\ left = {}
    /\ Goes(Rehash, "over", Blank, NoRecord)
    /\ cache' = [k \in Keys |-> NoRecord] /\ left' = {}
    /\ during' = {}
    /\ current' = [n \in Names |-> Rehashed(n)]
    /\ clobbered' = clobbered \cup (during \cap Names)
    /\ split' = split \cup {Alias(k) : k \in during}
                      \cup {x \in Numbers : cache[x] # NoRecord
                               /\ \E n \in Names : PagerOf[n] = x /\ cache[n] = NoRecord}
    /\ UNCHANGED <<db, stale, vanished>>

\* It dies: the passwords were in its memory only.
KillRehash ==
    /\ Running
    /\ Goes(Rehash, "over", Blank, NoRecord)
    /\ cache' = [k \in Keys |-> NoRecord] /\ left' = {}
    /\ during' = {}
    /\ clobbered' = Names
    /\ split' = split \cup Numbers
    /\ UNCHANGED <<db, stale, current, vanished>>

-----------------------------------------------------------------------------
SessionStep(s) ==
    \/ \E k \in Keys, what \in {"login", "web", "root"} : Ask(s, what, k)
    \/ Fetch(s) \/ Save(s) \/ Leave(s)
    \/ \E n \in Names : AskNew(s, n)
    \/ \E k \in Keys : AskDelete(s, k)
    \/ Add(s) \/ Delete(s)

RehashStep ==
    \/ StartRehash \/ Erase \/ StartRestore \/ StoreRestored \/ EndRehash \/ KillRehash
    \/ \E k \in Keys : CachePassword(k) \/ Restore(k)
    \/ \E n \in Names : Parse(n)

Next ==
    \/ \E s \in Sessions : SessionStep(s)
    \/ RehashStep
    \/ \E a \in Actors : StoreAlias(a)

Spec == Init /\ [][Next]_vars
-----------------------------------------------------------------------------
(* Properties *)

(* While rehash is not at work, a user has the password and the hours that the *)
(* changes made so far add up to, and is there unless deleted or not in the    *)
(* file of the last rehash: a change is undone, and a deleted user comes back, *)
(* only where an actor stored a record it had read before somebody else wrote  *)
(* it, or rehash was interrupted or not alone.                                 *)
ChangesStick ==
    \A n \in Names : ~Running /\ n \notin clobbered => db[n] = current[n]

(* "Do a hash of numbers for users, too, so you can page by number"            *)
(* (sample/pageserv.conf): the record found under a pager id is that of the    *)
(* user, unless it was changed through the pager id, or two actors were        *)
(* between their two stores at once, or one of them was killed there.          *)
AliasAgrees ==
    \A n \in Names :
        LET x == PagerOf[n] IN
          /\ ReverseHash /\ ~Running /\ x \notin split
          /\ db[n] # NoRecord /\ db[x] # NoRecord
          /\ \A a \in Actors : pc[a] = "alias" => Alias(key[a]) # x
          /\ \A m \in Names \ {n} : PagerOf[m] # x
          => db[x] = db[n]

(* No record is stored under the empty name, unless a user was deleted, or     *)
(* rehash emptied the database, between u_exists() and getuser().              *)
NobodyIsNameless == ~vanished => db[Blank] = NoRecord
=============================================================================
