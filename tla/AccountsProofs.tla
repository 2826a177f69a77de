--------------------------- MODULE AccountsProofs ---------------------------
(***************************************************************************)
(* What is left of the records of a user when nobody locks them, for any   *)
(* users, pager ids and sessions.  Between rehash and the sessions there   *)
(* is no protocol, so each invariant says who holds a copy of which record *)
(* and what the copy may still be taken for, and, while rehash is at work, *)
(* what it will have made of a record that nobody else touches.            *)
(***************************************************************************)
EXTENDS Accounts, TLAPS

\* The record of a user read from the text file, without a password, and the
\* one rehash makes of it with the password it had kept.
Plain    == [pw |-> Blank, hours |-> Given]
Again(k) == [pw |-> cache[k].pw, hours |-> Given]

(* Where the processes may be, and what rehash has in hand there. *)
Control ==
    /\ \A s \in Sessions :
          /\ pc[s] \in {"idle", "asked", "editing", "adding", "deleting", "alias", "over"}
          /\ pc[s] = "adding" => key[s] \in Names
    /\ \/ pc[Rehash] \in {"idle", "caching", "over"} /\ job[Rehash] = "none"
       \/ pc[Rehash] \in {"parse", "alias"} /\ job[Rehash] = "parse"
       \/ pc[Rehash] \in {"restore", "restoring", "alias"} /\ job[Rehash] = "restore"
    /\ ~Running => during = {}
    /\ pc[Rehash] = "idle" => cache = [k \in Keys |-> NoRecord]
    /\ job[Rehash] = "parse" => left \subseteq InFile
    /\ job[Rehash] = "restore" => \A k \in left : cache[k] # NoRecord

(* Who is about to store has a record to store. *)
Held ==
    /\ \A a \in Actors : pc[a] \in {"alias", "restoring"} => copy[a] # NoRecord
    /\ \A s \in Sessions : pc[s] = "editing" /\ key[s] # Blank => copy[s] # NoRecord

(* Nobody works on the record of nobody, as long as no record goes away        *)
(* between u_exists() and getuser().                                           *)
Found ==
    ~vanished =>
        /\ db[Blank] = NoRecord
        /\ \A a \in Actors : pc[a] = "asked" => db[key[a]] # NoRecord
        /\ \A a \in Actors : pc[a] \in {"editing", "adding", "alias", "restoring"}
                                => key[a] # Blank
        /\ job[Rehash] = "restore" => \A k \in left : db[k] # NoRecord

(* The copy of a session is the record, unless somebody wrote it since. *)
Fresh ==
    \A s \in Sessions :
        pc[s] = "editing" /\ key[s] # Blank /\ s \notin stale => copy[s] = db[key[s]]

(* While rehash reads the file, a user whom nobody else writes is there with   *)
(* the hours of the file as soon as the line is read.                          *)
Parsed ==
    job[Rehash] = "parse" =>
        \A n \in Names \ during :
            db[n] = IF n \in InFile \ left THEN Plain ELSE NoRecord

(* While it restores passwords, such a user has the password if it is not to   *)
(* be restored any more.                                                       *)
Restored ==
    job[Rehash] = "restore" =>
        \A n \in Names \ during :
            /\ n \notin InFile => /\ db[n] = NoRecord /\ n \notin left
                                  /\ ~(pc[Rehash] = "restoring" /\ key[Rehash] = n)
            /\ n \in InFile =>
                  db[n] = IF \/ cache[n] = NoRecord \/ n \in left
                             \/ pc[Rehash] = "restoring" /\ key[Rehash] = n
                          THEN Plain ELSE Again(n)
            /\ pc[Rehash] = "restoring" /\ key[Rehash] = n
                  => copy[Rehash] = Again(n) /\ cache[n] # NoRecord /\ n \notin left

StickInv == TypeOK /\ Control /\ Held /\ Found /\ Fresh /\ Parsed /\ Restored /\ ChangesStick

-----------------------------------------------------------------------------
(* The second record *)

\* a is between its store under the name and its store under the id x.
At(a, x) == pc[a] = "alias" /\ Alias(key[a]) = x

\* Nobody else has the pager of n.
Alone(n) == \A m \in Names \ {n} : PagerOf[m] # PagerOf[n]

\* Users whose two records should agree, and of them those rehash has alone.
Paired == {n \in Names : Alone(n) /\ PagerOf[n] \notin split}
Quiet  == {n \in Paired \cap InFile : n \notin during /\ PagerOf[n] \notin during}

(* Between two stores there is one actor for each pager id, which found the    *)
(* user by the name and has the record that it stored under it.                *)
Between ==
    /\ \A x \in Numbers \ split : \A a, b \in Actors : At(a, x) /\ At(b, x) => a = b
    /\ \A x \in Numbers \ split : \A s \in Sessions : At(s, x) => key[s] \in Names
    /\ \A n \in Paired : \A s \in Sessions :
          At(s, PagerOf[n]) => copy[s] = db[n] \/ db[n] = NoRecord

(* Without rehash the two records agree, but for the actor between its stores. *)
Agreed ==
    job[Rehash] = "none" =>
        \A n \in Paired :
            LET x == PagerOf[n] IN
              \/ \E s \in Sessions : At(s, x)
              \/ db[n] = NoRecord \/ db[x] = NoRecord \/ db[x] = db[n]

(* What rehash keeps is the record, unless somebody wrote it since. *)
Kept ==
    pc[Rehash] = "caching" =>
        \A k \in Keys \ during : /\ cache[k] # NoRecord => cache[k] = db[k]
                                 /\ k \in left => db[k] # NoRecord

(* The two passwords that rehash keeps for a user are the same, unless a       *)
(* session is between its two stores, and that one shows when the user's line  *)
(* is read.                                                                    *)
KeptTwice ==
    job[Rehash] # "none" =>
        \A n \in Quiet :
            LET x    == PagerOf[n]
                late == \E s \in Sessions : At(s, x)
            IN  /\ late => job[Rehash] = "parse" /\ n \in left
                /\ cache[n] # NoRecord /\ cache[x] # NoRecord /\ ~late
                      => cache[n].pw = cache[x].pw

(* What rehash stores while it reads the file is the record of the file, under *)
(* the name first and then under the pager id.                                 *)
ParsedTwice ==
    job[Rehash] = "parse" =>
        /\ pc[Rehash] = "alias" => key[Rehash] \in Names /\ copy[Rehash] = Plain
        /\ \A n \in Quiet :
              n \notin left /\ ~(pc[Rehash] = "alias" /\ key[Rehash] = n)
                 => db[PagerOf[n]] = Plain

(* While it restores passwords, the record under the pager id is that of the   *)
(* file, with either of the two passwords or none, and has the one it kept for *)
(* the name once that is restored.                                             *)
RestoredTwice ==
    job[Rehash] = "restore" =>
        \A n \in Quiet :
            LET x == PagerOf[n] IN
              /\ db[x] = Plain \/ \E k \in {n, x} : cache[k] # NoRecord /\ db[x] = Again(k)
              /\ pc[Rehash] \in {"restoring", "alias"} /\ key[Rehash] \in {n, x}
                    => copy[Rehash] = Again(key[Rehash]) /\ cache[key[Rehash]] # NoRecord
              /\ /\ cache[n] # NoRecord /\ n \notin left
                 /\ ~(pc[Rehash] \in {"restoring", "alias"} /\ key[Rehash] = n)
                 => db[x] = Again(n)

AliasInv ==
    ReverseHash => /\ Between /\ Agreed /\ Kept
                   /\ KeptTwice /\ ParsedTwice /\ RestoredTwice

-----------------------------------------------------------------------------
(* Keys, records and processes *)

PCs == {"idle", "asked", "editing", "adding", "deleting", "alias", "caching", "erase", "parse",
        "restore", "restoring", "over"}

LEMMA Actor ==
    /\ Sessions \subseteq Actors /\ Rehash \in Actors /\ Rehash \notin Sessions
    /\ \A a \in Actors : a = Rehash \/ a \in Sessions
  BY AccountsAssumption DEF AccountsAssumption, Actors

LEMMA Key ==
    /\ Names \subseteq Keys /\ Numbers \subseteq Keys /\ Blank \in Keys
    /\ Blank \notin Names /\ Blank \notin Numbers /\ InFile \subseteq Names
    /\ \A n \in Names : n \notin Numbers /\ PagerOf[n] \in Numbers /\ PagerOf[n] \notin Names
    /\ \A k \in Keys : /\ Alias(k) \in Keys /\ Alias(k) \notin Names
                       /\ k \in Names => Alias(k) = PagerOf[k]
                       /\ k \notin Names => Alias(k) = k
                       /\ k # Blank => Alias(k) # Blank
  BY AccountsAssumption DEF AccountsAssumption, Keys, Alias

LEMMA Fields ==
    /\ Plain \in Record /\ Whole \in Record /\ NoRecord \notin Record
    /\ Plain.pw = Blank /\ Plain.hours = Given
    /\ \A r \in Record : r.pw \in Sessions \cup {Given, Blank} /\ r.hours \in Sessions \cup {Given}
    /\ \A p \in Sessions \cup {Given, Blank}, h \in Sessions \cup {Given} :
          [pw |-> p, hours |-> h] \in Record
  BY RecordAssumption DEF Plain, Whole, Record

LEMMA EditedType ==
    ASSUME NEW s \in Sessions, NEW record \in Record \cup {NoRecord}, NEW fields
    PROVE  Edited(record, s, fields) \in Record
  <1> DEFINE r == IF record = NoRecord THEN Plain ELSE record
  <1>1. r \in Record
    BY Fields
  <1>2. Edited(record, s, fields) = [pw    |-> IF "pw" \in fields THEN s ELSE r.pw,
                                     hours |-> IF "hours" \in fields THEN s ELSE r.hours]
    BY DEF Edited, Plain
  <1> HIDE DEF r
  <1> QED BY <1>1, <1>2, Fields

LEMMA GoesTypes ==
    ASSUME TypeOK, NEW a \in Actors, NEW where \in PCs, NEW k \in Keys,
           NEW record \in Record \cup {NoRecord}, Goes(a, where, k, record)
    PROVE  /\ pc' \in [Actors -> PCs]
           /\ job' \in [Actors -> {"none", "login", "web", "root", "add", "parse", "restore"}]
           /\ key' \in [Actors -> Keys]
           /\ copy' \in [Actors -> Record \cup {NoRecord}]
           /\ pc'[a] = where
           /\ where = "over" => job'[a] = "none" /\ key'[a] = Blank /\ copy'[a] = NoRecord
           /\ where # "over" => job'[a] = job[a] /\ key'[a] = k /\ copy'[a] = record
           /\ \A o \in Actors \ {a} : /\ pc'[o] = pc[o] /\ job'[o] = job[o]
                                      /\ key'[o] = key[o] /\ copy'[o] = copy[o]
  <1>1. /\ pc \in [Actors -> PCs]
        /\ job \in [Actors -> {"none", "login", "web", "root", "add", "parse", "restore"}]
        /\ key \in [Actors -> Keys]
        /\ copy \in [Actors -> Record \cup {NoRecord}]
    BY DEF TypeOK, PCs
  <1>2. Blank \in Keys
    BY Key
  <1>3. pc' \in [Actors -> PCs] /\ pc'[a] = where /\ \A o \in Actors \ {a} : pc'[o] = pc[o]
    BY <1>1 DEF Goes, Goto
  <1>4. /\ job' \in [Actors -> {"none", "login", "web", "root", "add", "parse", "restore"}]
        /\ where = "over" => job'[a] = "none"
        /\ where # "over" => job'[a] = job[a]
        /\ \A o \in Actors \ {a} : job'[o] = job[o]
    BY <1>1 DEF Goes
  <1>5. /\ key' \in [Actors -> Keys]
        /\ where = "over" => key'[a] = Blank
        /\ where # "over" => key'[a] = k
        /\ \A o \in Actors \ {a} : key'[o] = key[o]
    BY <1>1, <1>2 DEF Goes
  <1>6. /\ copy' \in [Actors -> Record \cup {NoRecord}]
        /\ where = "over" => copy'[a] = NoRecord
        /\ where # "over" => copy'[a] = record
        /\ \A o \in Actors \ {a} : copy'[o] = copy[o]
    BY <1>1 DEF Goes
  <1> QED BY <1>3, <1>4, <1>5, <1>6

LEMMA ChangedTypes ==
    ASSUME TypeOK, NEW a \in Actors, NEW ks \in SUBSET Keys, Changed(a, ks)
    PROVE  /\ stale' \subseteq Actors /\ during' \subseteq Keys
           /\ during \subseteq during'
           /\ Running /\ a # Rehash => ks \subseteq during'
           /\ ~(Running /\ a # Rehash) => during' = during
           /\ \A o \in Actors \ {a} : o \in stale' <=> o \in stale \/ (pc[o] \in Holding /\ key[o] \in ks)
  BY DEF TypeOK, Changed

-----------------------------------------------------------------------------
(* What each action writes *)

\* a stores one record, under the key it works on.
LEMMA StoreTypes ==
    ASSUME TypeOK, NEW a \in Actors, NEW k \in Keys, NEW record \in Record,
           Store(a, k, record), After(a) \in PCs
    PROVE  /\ db' \in [Keys -> Record \cup {NoRecord}] /\ db' = [db EXCEPT ![k] = record]
           /\ Goes(a, IF ReverseHash THEN "alias" ELSE After(a), k, record)
           /\ split' \subseteq Keys /\ split' = split \cup Parted(a, k)
           /\ Changed(a, {k})
  <1>1. Numbers \subseteq Keys
    BY Key
  <1>2. Parted(a, k) \subseteq Keys
    BY <1>1 DEF Parted
  <1> QED BY <1>2 DEF Store, TypeOK

LEMMA Types == TypeOK /\ Control /\ Held /\ [Next]_vars => TypeOK'
  <1> SUFFICES ASSUME TypeOK, Control, Held, [Next]_vars PROVE TypeOK'
    OBVIOUS
  <1> USE Actor
  <1>0. /\ db \in [Keys -> Record \cup {NoRecord}]
        /\ pc \in [Actors -> PCs]
        /\ job \in [Actors -> {"none", "login", "web", "root", "add", "parse", "restore"}]
        /\ key \in [Actors -> Keys]
        /\ copy \in [Actors -> Record \cup {NoRecord}]
        /\ left \subseteq Keys /\ cache \in [Keys -> Record \cup {NoRecord}]
        /\ current \in [Names -> Record \cup {NoRecord}]
        /\ clobbered \subseteq Names /\ split \subseteq Keys /\ during \subseteq Keys
        /\ stale \subseteq Actors
    BY DEF TypeOK, PCs
  <1>1. CASE UNCHANGED vars
    BY <1>1 DEF TypeOK, vars, rehash, history
  <1>2. ASSUME NEW s \in Sessions, NEW k \in Keys, NEW what \in {"login", "web", "root"},
               Ask(s, what, k)
        PROVE  TypeOK'
    BY <1>0, <1>2 DEF Ask, Goto, TypeOK, PCs, rehash, history
  <1>3. ASSUME NEW s \in Sessions, Fetch(s) PROVE TypeOK'
    <2>1. /\ (IF job[s] = "login" /\ ~Authentic(key[s]) THEN "over" ELSE "editing") \in PCs
          /\ (IF db[key[s]] = NoRecord THEN Blank ELSE key[s]) \in Keys
          /\ db[key[s]] \in Record \cup {NoRecord}
      BY <1>0, Key DEF PCs
    <2> QED BY <1>0, <1>3, <2>1, GoesTypes DEF Fetch, TypeOK, PCs, rehash, history
  <1>4. ASSUME NEW s \in Sessions, Save(s) PROVE TypeOK'
    <2>1. PICK fields \in Choices(s) :
            /\ Store(s, key[s], Edited(copy[s], s, fields))
            /\ current' = [n \in Names |-> IF n = key[s] /\ current[n] # NoRecord
                                           THEN Edited(current[n], s, fields) ELSE current[n]]
      BY <1>4 DEF Save
    <2>2. Edited(copy[s], s, fields) \in Record
      BY <1>0, EditedType
    <2>3. current' \in [Names -> Record \cup {NoRecord}]
      BY <1>0, <2>1, EditedType
    <2>4. key[s] \in Keys /\ After(s) \in PCs
      BY <1>0 DEF After, PCs
    <2>5. clobbered' \subseteq Names /\ UNCHANGED <<left, cache, vanished>>
      BY <1>0, <1>4 DEF Save, rehash
    <2>6. /\ db' \in [Keys -> Record \cup {NoRecord}]
          /\ Goes(s, IF ReverseHash THEN "alias" ELSE After(s), key[s], Edited(copy[s], s, fields))
          /\ split' \subseteq Keys /\ Changed(s, {key[s]})
      BY <2>1, <2>2, <2>4, StoreTypes
    <2> QED BY <1>0, <2>2, <2>3, <2>4, <2>5, <2>6, GoesTypes, ChangedTypes DEF TypeOK, PCs
  <1>5. ASSUME NEW s \in Sessions, Leave(s) PROVE TypeOK'
    <2>1. split' \subseteq Keys /\ stale' \subseteq Actors
      BY <1>0, <1>5, Key DEF Leave
    <2> QED BY <1>0, <1>5, <2>1, Key, GoesTypes DEF Leave, TypeOK, PCs, rehash
  <1>6. ASSUME NEW s \in Sessions, NEW n \in Names, AskNew(s, n) PROVE TypeOK'
    BY <1>0, <1>6, Key DEF AskNew, Goto, TypeOK, PCs, rehash, history
  <1>7. ASSUME NEW s \in Sessions, Add(s) PROVE TypeOK'
    <2> DEFINE record == [pw |-> s, hours |-> s]
    <2>1. record \in Record
      BY Fields
    <2>2. key[s] \in Keys /\ After(s) \in PCs
      BY <1>0 DEF After, PCs
    <2>3. /\ Store(s, key[s], record) /\ current' = [current EXCEPT ![key[s]] = record]
          /\ UNCHANGED <<left, cache, clobbered, vanished>>
      BY <1>7 DEF Add, rehash
    <2>4. current' \in [Names -> Record \cup {NoRecord}]
      BY <1>0, <2>1, <2>3
    <2> HIDE DEF record
    <2>5. /\ db' \in [Keys -> Record \cup {NoRecord}]
          /\ Goes(s, IF ReverseHash THEN "alias" ELSE After(s), key[s], record)
          /\ split' \subseteq Keys /\ Changed(s, {key[s]})
      BY <2>1, <2>2, <2>3, StoreTypes
    <2>6. /\ pc' \in [Actors -> PCs]
          /\ job' \in [Actors -> {"none", "login", "web", "root", "add", "parse", "restore"}]
          /\ key' \in [Actors -> Keys]
          /\ copy' \in [Actors -> Record \cup {NoRecord}]
      BY <2>1, <2>2, <2>5, GoesTypes DEF PCs
    <2>7. stale' \subseteq Actors /\ during' \subseteq Keys
      BY <2>2, <2>5, ChangedTypes
    <2> QED BY <1>0, <2>3, <2>4, <2>5, <2>6, <2>7 DEF TypeOK, PCs
  <1>8. ASSUME NEW s \in Sessions, NEW k \in Keys, AskDelete(s, k) PROVE TypeOK'
    BY <1>0, <1>8 DEF AskDelete, Goto, TypeOK, PCs, rehash, history
  <1>9. ASSUME NEW s \in Sessions, Delete(s) PROVE TypeOK'
    <2>1. /\ db' \in [Keys -> Record \cup {NoRecord}]
          /\ current' \in [Names -> Record \cup {NoRecord}]
          /\ vanished' \in BOOLEAN
          /\ Goes(s, "over", Blank, NoRecord) /\ Changed(s, {key[s]})
          /\ UNCHANGED <<left, cache, clobbered, split>>
      BY <1>0, <1>9 DEF Delete, rehash
    <2>2. key[s] \in Keys
      BY <1>0
    <2>3. /\ pc' \in [Actors -> PCs]
          /\ job' \in [Actors -> {"none", "login", "web", "root", "add", "parse", "restore"}]
          /\ key' \in [Actors -> Keys]
          /\ copy' \in [Actors -> Record \cup {NoRecord}]
      BY <2>1, Key, GoesTypes DEF PCs
    <2>4. stale' \subseteq Actors /\ during' \subseteq Keys
      BY <2>1, <2>2, ChangedTypes
    <2> QED BY <1>0, <2>1, <2>3, <2>4 DEF TypeOK, PCs
  <1>10. CASE StartRehash
    BY <1>0, <1>10 DEF StartRehash, Goto, Present, TypeOK, PCs, history
  <1>11. ASSUME NEW k \in Keys, CachePassword(k) PROVE TypeOK'
    <2>1. [pw |-> Blank, hours |-> Given] \in Record
      BY Fields
    <2> QED BY <1>0, <1>11, <2>1 DEF CachePassword, TypeOK, PCs, history
  <1>12. CASE Erase
    <2>1. /\ db' \in [Keys -> Record \cup {NoRecord}] /\ left' \subseteq Keys
          /\ pc' \in [Actors -> PCs] /\ vanished' \in BOOLEAN
          /\ job' \in [Actors -> {"none", "login", "web", "root", "add", "parse", "restore"}]
      BY <1>0, <1>12, Key DEF Erase, Goto, PCs
    <2> QED BY <1>0, <1>12, <2>1, ChangedTypes DEF Erase, TypeOK, PCs
  <1>13. ASSUME NEW n \in Names, Parse(n) PROVE TypeOK'
    <2>1. Plain \in Record /\ n \in Keys
      BY Fields, Key
    <2>2. Store(Rehash, n, Plain) /\ After(Rehash) = "parse"
      BY <1>13 DEF Parse, Plain, After, Control
    <2>3. /\ db' \in [Keys -> Record \cup {NoRecord}]
          /\ Goes(Rehash, IF ReverseHash THEN "alias" ELSE "parse", n, Plain)
          /\ split' \subseteq Keys /\ Changed(Rehash, {n})
      BY <2>1, <2>2, StoreTypes DEF PCs
    <2> QED BY <1>0, <1>13, <2>1, <2>3, GoesTypes, ChangedTypes DEF Parse, TypeOK, PCs
  <1>14. CASE StartRestore
    BY <1>0, <1>14 DEF StartRestore, Goto, Present, TypeOK, PCs, history
  <1>15. ASSUME NEW k \in Keys, Restore(k) PROVE TypeOK'
    <2>1. cache[k] \in Record
      BY <1>0, <1>15 DEF Restore, Control
    <2>2. [pw |-> cache[k].pw, hours |-> IF db[k] = NoRecord THEN Given ELSE db[k].hours] \in Record
      BY <1>0, <2>1, Fields
    <2> QED BY <1>0, <1>15, <2>2, Key DEF Restore, Goto, TypeOK, PCs, history
  <1>16. CASE StoreRestored
    <2>1. copy[Rehash] \in Record /\ key[Rehash] \in Keys /\ After(Rehash) = "restore"
      BY <1>0, <1>16 DEF StoreRestored, Held, Control, After
    <2>2. /\ db' \in [Keys -> Record \cup {NoRecord}]
          /\ Goes(Rehash, IF ReverseHash THEN "alias" ELSE "restore", key[Rehash], copy[Rehash])
          /\ split' \subseteq Keys /\ Changed(Rehash, {key[Rehash]})
      BY <1>16, <2>1, StoreTypes DEF StoreRestored, PCs
    <2>3. /\ pc' \in [Actors -> PCs]
          /\ job' \in [Actors -> {"none", "login", "web", "root", "add", "parse", "restore"}]
          /\ key' \in [Actors -> Keys]
          /\ copy' \in [Actors -> Record \cup {NoRecord}]
      BY <2>1, <2>2, GoesTypes DEF PCs
    <2>4. stale' \subseteq Actors /\ during' \subseteq Keys
      BY <2>1, <2>2, ChangedTypes
    <2> QED BY <1>0, <1>16, <2>2, <2>3, <2>4 DEF StoreRestored, TypeOK, PCs, rehash
  <1>17. CASE EndRehash
    <2>1. /\ cache' \in [Keys -> Record \cup {NoRecord}] /\ left' \subseteq Keys
          /\ during' \subseteq Keys /\ clobbered' \subseteq Names
      BY <1>0, <1>17 DEF EndRehash
    <2>2. current' \in [Names -> Record \cup {NoRecord}]
      <3>1. \A n \in Names : Rehashed(n) \in Record \cup {NoRecord}
        BY <1>0, Key, Fields DEF Rehashed
      <3> QED BY <1>17, <3>1 DEF EndRehash
    <2>3. split' \subseteq Keys
      BY <1>0, <1>17, Key DEF EndRehash
    <2> QED BY <1>0, <1>17, <2>1, <2>2, <2>3, Key, GoesTypes DEF EndRehash, TypeOK, PCs
  <1>18. CASE KillRehash
    <2>1. /\ cache' \in [Keys -> Record \cup {NoRecord}] /\ left' \subseteq Keys
          /\ during' \subseteq Keys /\ clobbered' \subseteq Names /\ split' \subseteq Keys
      BY <1>0, <1>18, Key DEF KillRehash
    <2> QED BY <1>0, <1>18, <2>1, Key, GoesTypes DEF KillRehash, TypeOK, PCs
  <1>19. ASSUME NEW a \in Actors, StoreAlias(a) PROVE TypeOK'
    <2>1. Alias(key[a]) \in Keys /\ After(a) \in PCs
      BY <1>0, <1>19, Key DEF StoreAlias, After, PCs, Control
    <2>2. /\ pc' \in [Actors -> PCs]
          /\ job' \in [Actors -> {"none", "login", "web", "root", "add", "parse", "restore"}]
          /\ key' \in [Actors -> Keys]
          /\ copy' \in [Actors -> Record \cup {NoRecord}]
      BY <1>19, <2>1, Key, GoesTypes DEF StoreAlias
    <2>3. stale' \subseteq Actors /\ during' \subseteq Keys
      BY <1>19, <2>1, ChangedTypes DEF StoreAlias
    <2>4. db' \in [Keys -> Record \cup {NoRecord}]
      BY <1>0, <1>19 DEF StoreAlias
    <2> QED BY <1>0, <1>19, <2>2, <2>3, <2>4 DEF StoreAlias, TypeOK, PCs, rehash
  <1> QED
    BY <1>1, <1>2, <1>3, <1>4, <1>5, <1>6, <1>7, <1>8, <1>9, <1>10, <1>11, <1>12, <1>13, <1>14,
       <1>15, <1>16, <1>17, <1>18, <1>19 DEF Next, SessionStep, RehashStep

-----------------------------------------------------------------------------
(* The actions once more, one value at a time *)

\* Only a moves.
Others(a) ==
    \A o \in Actors \ {a} : /\ pc'[o] = pc[o] /\ job'[o] = job[o]
                            /\ key'[o] = key[o] /\ copy'[o] = copy[o]

\* Only a moves, and the record of k becomes r.
Writes(a, k, r) ==
    /\ db'[k] = r /\ \A q \in Keys \ {k} : db'[q] = db[q]
    /\ during \subseteq during'
    /\ Running /\ a # Rehash => k \in during'
    /\ a = Rehash \/ ~Running => during' = during
    /\ \A o \in Actors \ {a} : o \in stale' <=> o \in stale \/ (pc[o] \in Holding /\ key[o] = k)
    /\ Others(a)

\* Where the store of r under k leaves a.
Stored(a, k, r) ==
    /\ Writes(a, k, r)
    /\ split' = split \cup Parted(a, k)
    /\ IF ReverseHash THEN pc'[a] = "alias" /\ key'[a] = k /\ copy'[a] = r /\ job'[a] = job[a]
       ELSE pc'[a] = After(a) /\ (After(a) # "over" => job'[a] = job[a])

database == <<db, left, cache, current, clobbered, vanished, during>>

LEMMA WritesEffect ==
    ASSUME TypeOK, NEW a \in Actors, NEW k \in Keys, NEW r \in Record \cup {NoRecord},
           db' = [db EXCEPT ![k] = r], Others(a), Changed(a, {k})
    PROVE  Writes(a, k, r)
  <1>1. db'[k] = r /\ \A q \in Keys \ {k} : db'[q] = db[q]
    BY DEF TypeOK
  <1>2. /\ during \subseteq during'
        /\ Running /\ a # Rehash => k \in during'
        /\ a = Rehash \/ ~Running => during' = during
        /\ \A o \in Actors \ {a} : o \in stale' <=> o \in stale \/ (pc[o] \in Holding /\ key[o] = k)
    BY DEF Changed, TypeOK
  <1> QED BY <1>1, <1>2 DEF Writes

LEMMA StoredEffect ==
    ASSUME TypeOK, NEW a \in Actors, NEW k \in Keys, NEW r \in Record,
           Store(a, k, r), After(a) \in PCs
    PROVE  Stored(a, k, r)
  <1>1. /\ db' = [db EXCEPT ![k] = r]
        /\ Goes(a, IF ReverseHash THEN "alias" ELSE After(a), k, r)
        /\ split' = split \cup Parted(a, k)
        /\ Changed(a, {k})
    BY DEF Store
  <1>2. (IF ReverseHash THEN "alias" ELSE After(a)) \in PCs
    BY DEF PCs
  <1>3. Others(a)
    BY <1>1, <1>2, GoesTypes DEF Others
  <1>4. Writes(a, k, r)
    BY <1>1, <1>3, WritesEffect
  <1>5. CASE ReverseHash
    <2>1. Goes(a, "alias", k, r)
      BY <1>1, <1>5
    <2>2. pc'[a] = "alias" /\ key'[a] = k /\ copy'[a] = r /\ job'[a] = job[a]
      BY <2>1, GoesTypes DEF PCs
    <2> QED BY <1>1, <1>4, <1>5, <2>2 DEF Stored
  <1>6. CASE ~ReverseHash
    <2>1. Goes(a, After(a), k, r)
      BY <1>1, <1>6
    <2>2. pc'[a] = After(a) /\ (After(a) # "over" => job'[a] = job[a])
      BY <2>1, GoesTypes
    <2> QED BY <1>1, <1>4, <1>6, <2>2 DEF Stored
  <1> QED BY <1>5, <1>6

LEMMA AskEffect ==
    ASSUME TypeOK, NEW s \in Sessions, NEW k \in Keys, NEW what, Ask(s, what, k)
    PROVE  /\ Others(s) /\ UNCHANGED <<database, stale, split>>
           /\ pc[s] = "idle" /\ pc'[s] = "asked" /\ key'[s] = k /\ db[k] # NoRecord
  BY Actor DEF Ask, Goto, TypeOK, Others, database, rehash, history

LEMMA FetchEffect ==
    ASSUME TypeOK, NEW s \in Sessions, Fetch(s)
    PROVE  /\ Others(s) /\ UNCHANGED <<database, stale, split>> /\ pc[s] = "asked"
           /\ \/ pc'[s] = "over"
              \/ /\ pc'[s] = "editing" /\ copy'[s] = db[key[s]]
                 /\ key'[s] = IF db[key[s]] = NoRecord THEN Blank ELSE key[s]
  <1>0. key[s] \in Keys /\ db[key[s]] \in Record \cup {NoRecord} /\ s \in Actors
    BY Actor DEF TypeOK
  <1> DEFINE where == IF job[s] = "login" /\ ~Authentic(key[s]) THEN "over" ELSE "editing"
             k     == IF db[key[s]] = NoRecord THEN Blank ELSE key[s]
  <1>1. where \in {"over", "editing"} /\ where \in PCs /\ k \in Keys
    BY <1>0, Key DEF PCs
  <1>2. Goes(s, where, k, db[key[s]]) /\ pc[s] = "asked"
    BY DEF Fetch
  <1>3. UNCHANGED <<database, stale, split>>
    BY DEF Fetch, database, rehash, history
  <1> HIDE DEF where
  <1>4. /\ Others(s) /\ pc'[s] = where
        /\ where # "over" => key'[s] = k /\ copy'[s] = db[key[s]]
    BY <1>0, <1>1, <1>2, GoesTypes DEF Others
  <1> QED BY <1>1, <1>2, <1>3, <1>4

LEMMA SaveEffect ==
    ASSUME TypeOK, NEW s \in Sessions, Save(s)
    PROVE  \E r \in Record :
              /\ Stored(s, key[s], r)
              /\ pc[s] = "editing" /\ After(s) = "over" /\ key[s] \in Keys
              /\ UNCHANGED <<left, cache, vanished>>
              /\ clobbered \subseteq clobbered'
              /\ s \in stale /\ key[s] \in Names => key[s] \in clobbered'
              /\ key[s] \in Names /\ copy[s] = current[key[s]] /\ copy[s] # NoRecord
                    => current'[key[s]] = r
              /\ \A n \in Names \ {key[s]} : current'[n] = current[n]
  <1>0. key[s] \in Keys /\ copy[s] \in Record \cup {NoRecord} /\ s \in Actors
    BY Actor DEF TypeOK
  <1>1. PICK fields \in Choices(s) :
          /\ Store(s, key[s], Edited(copy[s], s, fields))
          /\ current' = [n \in Names |-> IF n = key[s] /\ current[n] # NoRecord
                                         THEN Edited(current[n], s, fields) ELSE current[n]]
    BY DEF Save
  <1> DEFINE r == Edited(copy[s], s, fields)
  <1>2. r \in Record
    BY <1>0, EditedType
  <1>3. After(s) = "over" /\ After(s) \in PCs
    BY Actor DEF After, PCs
  <1>4. Stored(s, key[s], r)
    BY <1>0, <1>1, <1>2, <1>3, StoredEffect
  <1>5. /\ key[s] \in Names /\ copy[s] = current[key[s]] /\ copy[s] # NoRecord
              => current'[key[s]] = r
        /\ \A n \in Names \ {key[s]} : current'[n] = current[n]
    BY <1>1
  <1>6. /\ pc[s] = "editing" /\ UNCHANGED <<left, cache, vanished>>
        /\ clobbered \subseteq clobbered'
        /\ s \in stale /\ key[s] \in Names => key[s] \in clobbered'
    BY DEF Save, rehash
  <1> HIDE DEF r
  <1> QED BY <1>0, <1>2, <1>3, <1>4, <1>5, <1>6

LEMMA AddEffect ==
    ASSUME TypeOK, Control, NEW s \in Sessions, Add(s)
    PROVE  \E r \in Record :
              /\ Stored(s, key[s], r)
              /\ pc[s] = "adding" /\ After(s) = "over" /\ key[s] \in Names
              /\ UNCHANGED <<left, cache, vanished, clobbered>>
              /\ current'[key[s]] = r
              /\ \A n \in Names \ {key[s]} : current'[n] = current[n]
  <1>0. pc[s] = "adding" /\ key[s] \in Names /\ key[s] \in Keys /\ s \in Actors
    BY Actor, Key DEF TypeOK, Control, Add
  <1> DEFINE r == [pw |-> s, hours |-> s]
  <1>1. Store(s, key[s], r) /\ current' = [current EXCEPT ![key[s]] = r]
    BY DEF Add
  <1>2. r \in Record
    BY Fields
  <1>3. After(s) = "over" /\ After(s) \in PCs
    BY Actor DEF After, PCs
  <1> HIDE DEF r
  <1>4. Stored(s, key[s], r)
    BY <1>0, <1>1, <1>2, <1>3, StoredEffect
  <1>5. current'[key[s]] = r /\ \A n \in Names \ {key[s]} : current'[n] = current[n]
    BY <1>0, <1>1 DEF TypeOK
  <1>6. UNCHANGED <<left, cache, vanished, clobbered>>
    BY DEF Add, rehash
  <1> QED BY <1>0, <1>2, <1>3, <1>4, <1>5, <1>6

LEMMA LeaveEffect ==
    ASSUME TypeOK, NEW s \in Sessions, Leave(s)
    PROVE  /\ Others(s) /\ UNCHANGED database /\ pc'[s] = "over"
           /\ \A o \in Actors \ {s} : o \in stale' <=> o \in stale
           /\ split \subseteq split' /\ (pc[s] = "alias" => Alias(key[s]) \in split')
  <1>1. Goes(s, "over", Blank, NoRecord) /\ s \in Actors /\ Blank \in Keys /\ "over" \in PCs
    BY Actor, Key DEF Leave, PCs
  <1>2. Others(s) /\ pc'[s] = "over"
    BY <1>1, GoesTypes DEF Others
  <1> QED BY <1>2 DEF Leave, database, rehash

LEMMA AskNewEffect ==
    ASSUME TypeOK, NEW s \in Sessions, NEW n \in Names, AskNew(s, n)
    PROVE  /\ Others(s) /\ UNCHANGED <<database, stale, split>>
           /\ pc'[s] = "adding" /\ key'[s] = n
  BY Actor, Key DEF AskNew, Goto, TypeOK, Others, database, rehash, history

LEMMA AskDeleteEffect ==
    ASSUME TypeOK, NEW s \in Sessions, NEW k \in Keys, AskDelete(s, k)
    PROVE  /\ Others(s) /\ UNCHANGED <<database, stale, split>>
           /\ pc'[s] = "deleting" /\ key'[s] = k
  BY Actor DEF AskDelete, Goto, TypeOK, Others, database, rehash, history

LEMMA DeleteEffect ==
    ASSUME TypeOK, NEW s \in Sessions, Delete(s)
    PROVE  /\ Writes(s, key[s], NoRecord) /\ key[s] \in Keys
           /\ pc[s] = "deleting" /\ pc'[s] = "over"
           /\ UNCHANGED <<left, cache, clobbered, split>>
           /\ key[s] \in Names => current'[key[s]] = NoRecord
           /\ \A n \in Names \ {key[s]} : current'[n] = current[n]
           /\ vanished' = (vanished \/ Looked({key[s]}))
  <1>1. /\ Goes(s, "over", Blank, NoRecord) /\ s \in Actors /\ Blank \in Keys /\ "over" \in PCs
        /\ key[s] \in Keys
    BY Actor, Key DEF Delete, PCs, TypeOK
  <1>2. Others(s) /\ pc'[s] = "over"
    BY <1>1, GoesTypes DEF Others
  <1>3. Writes(s, key[s], NoRecord)
    BY <1>1, <1>2, WritesEffect DEF Delete
  <1>4. /\ key[s] \in Names => current'[key[s]] = NoRecord
        /\ \A n \in Names \ {key[s]} : current'[n] = current[n]
    BY DEF Delete
  <1> QED BY <1>1, <1>2, <1>3, <1>4 DEF Delete, rehash

LEMMA StoreAliasEffect ==
    ASSUME TypeOK, Control, Held, NEW a \in Actors, StoreAlias(a)
    PROVE  /\ Writes(a, Alias(key[a]), copy[a]) /\ copy[a] \in Record
           /\ key[a] \in Keys /\ Alias(key[a]) \in Keys
           /\ pc[a] = "alias" /\ pc'[a] = After(a)
           /\ a = Rehash => pc'[a] = job[a] /\ job'[a] = job[a]
           /\ a # Rehash => pc'[a] = "over"
           /\ UNCHANGED <<left, cache, current, clobbered, split, vanished>>
  <1>1. /\ Goes(a, After(a), Blank, NoRecord) /\ Blank \in Keys
        /\ key[a] \in Keys /\ pc[a] = "alias" /\ copy[a] \in Record
    BY Key DEF StoreAlias, TypeOK, Held
  <1>2. /\ a = Rehash => After(a) = job[a] /\ job[a] \in {"parse", "restore"}
        /\ a # Rehash => After(a) = "over"
    BY <1>1 DEF After, Control
  <1>3. After(a) \in PCs
    BY <1>2 DEF PCs
  <1>4. /\ Others(a) /\ pc'[a] = After(a)
        /\ After(a) # "over" => job'[a] = job[a]
    BY <1>1, <1>3, GoesTypes DEF Others
  <1>5. Alias(key[a]) \in Keys
    BY <1>1, Key
  <1>6. Writes(a, Alias(key[a]), copy[a])
    BY <1>1, <1>4, <1>5, WritesEffect DEF StoreAlias
  <1> QED BY <1>1, <1>2, <1>4, <1>5, <1>6 DEF StoreAlias, rehash

LEMMA StartRehashEffect ==
    ASSUME TypeOK, StartRehash
    PROVE  /\ Others(Rehash) /\ UNCHANGED <<db, cache, current, clobbered, vanished, during, stale, split>>
           /\ pc[Rehash] = "idle" /\ pc'[Rehash] = "caching" /\ UNCHANGED job
           /\ left' = Present
  BY Actor DEF StartRehash, Goto, TypeOK, Others, history

LEMMA CacheEffect ==
    ASSUME TypeOK, NEW k \in Keys, CachePassword(k)
    PROVE  /\ UNCHANGED <<db, pc, job, key, copy, current, clobbered, vanished, during, stale, split>>
           /\ pc[Rehash] = "caching" /\ k \in left /\ left' = left \ {k}
           /\ db[k] # NoRecord => cache'[k] = db[k]
           /\ \A q \in Keys \ {k} : cache'[q] = cache[q]
  BY Actor DEF CachePassword, TypeOK, history

LEMMA EraseEffect ==
    ASSUME TypeOK, Erase
    PROVE  /\ Others(Rehash) /\ UNCHANGED <<cache, current, clobbered, split>>
           /\ pc[Rehash] = "caching" /\ pc'[Rehash] = "parse" /\ job'[Rehash] = "parse"
           /\ left = {} /\ left' = InFile
           /\ \A k \in Keys : db'[k] = NoRecord
           /\ during' = during
           /\ \A o \in Actors \ {Rehash} :
                 o \in stale' <=> o \in stale \/ (pc[o] \in Holding /\ key[o] \in Keys)
           /\ vanished' = (vanished \/ Looked(Keys))
  <1>1. /\ Others(Rehash) /\ pc[Rehash] = "caching" /\ pc'[Rehash] = "parse"
        /\ job'[Rehash] = "parse"
    BY Actor DEF Erase, Goto, TypeOK, Others
  <1> QED BY <1>1, Actor DEF Erase, Changed, TypeOK

LEMMA ParseEffect ==
    ASSUME TypeOK, Control, NEW n \in Names, Parse(n)
    PROVE  /\ Stored(Rehash, n, Plain) /\ After(Rehash) = "parse"
           /\ pc[Rehash] = "parse" /\ job[Rehash] = "parse" /\ job'[Rehash] = "parse"
           /\ n \in left /\ n \in InFile /\ left' = left \ {n}
           /\ UNCHANGED <<cache, current, clobbered, vanished>>
  <1>1. /\ pc[Rehash] = "parse" /\ job[Rehash] = "parse" /\ n \in left /\ left' = left \ {n}
        /\ UNCHANGED <<cache, current, clobbered, vanished>>
        /\ Store(Rehash, n, Plain)
    BY DEF Parse, Control, Plain
  <1>2. After(Rehash) = "parse" /\ After(Rehash) \in PCs /\ n \in Keys /\ n \in InFile
    BY <1>1, Key DEF After, PCs, Control
  <1>3. Stored(Rehash, n, Plain)
    BY <1>1, <1>2, Actor, Fields, StoredEffect
  <1> QED BY <1>1, <1>2, <1>3 DEF Stored

LEMMA StartRestoreEffect ==
    ASSUME TypeOK, StartRestore
    PROVE  /\ Others(Rehash)
           /\ UNCHANGED <<db, key, copy, cache, current, clobbered, vanished, during, stale, split>>
           /\ pc[Rehash] = "parse" /\ left = {}
           /\ pc'[Rehash] = "restore" /\ job'[Rehash] = "restore"
           /\ left' = {k \in Present : cache[k] # NoRecord}
  BY Actor DEF StartRestore, Goto, TypeOK, Others, history

LEMMA RestoreEffect ==
    ASSUME TypeOK, Control, NEW k \in Keys, Restore(k)
    PROVE  /\ Others(Rehash)
           /\ UNCHANGED <<db, job, cache, current, clobbered, vanished, during, stale, split>>
           /\ pc[Rehash] = "restore" /\ job[Rehash] = "restore"
           /\ k \in left /\ left' = left \ {k} /\ cache[k] \in Record
           /\ pc'[Rehash] = "restoring"
           /\ key'[Rehash] = IF db[k] = NoRecord THEN Blank ELSE k
           /\ copy'[Rehash] = [pw |-> cache[k].pw,
                               hours |-> IF db[k] = NoRecord THEN Given ELSE db[k].hours]
           /\ copy'[Rehash] \in Record
  <1>1. /\ Others(Rehash) /\ pc[Rehash] = "restore" /\ pc'[Rehash] = "restoring"
        /\ key'[Rehash] = IF db[k] = NoRecord THEN Blank ELSE k
        /\ copy'[Rehash] = [pw |-> cache[k].pw,
                            hours |-> IF db[k] = NoRecord THEN Given ELSE db[k].hours]
    BY Actor DEF Restore, Goto, TypeOK, Others
  <1>2. /\ UNCHANGED <<db, job, cache, current, clobbered, vanished, during, stale, split>>
        /\ k \in left /\ left' = left \ {k}
    BY DEF Restore, history
  <1>3. job[Rehash] = "restore" /\ cache[k] \in Record
    BY <1>1, <1>2 DEF Control, TypeOK
  <1>4. copy'[Rehash] \in Record
    <2>1. db[k] \in Record \cup {NoRecord}
      BY DEF TypeOK
    <2>2. (IF db[k] = NoRecord THEN Given ELSE db[k].hours) \in Sessions \cup {Given}
      BY <2>1, Fields
    <2>3. cache[k].pw \in Sessions \cup {Given, Blank}
      BY <1>3, Fields
    <2> QED BY <1>1, <2>2, <2>3, Fields
  <1> QED BY <1>1, <1>2, <1>3, <1>4

LEMMA StoreRestoredEffect ==
    ASSUME TypeOK, Control, Held, StoreRestored
    PROVE  /\ Stored(Rehash, key[Rehash], copy[Rehash]) /\ After(Rehash) = "restore"
           /\ key[Rehash] \in Keys /\ copy[Rehash] \in Record
           /\ pc[Rehash] = "restoring" /\ job[Rehash] = "restore" /\ job'[Rehash] = "restore"
           /\ UNCHANGED <<left, cache, current, clobbered, vanished>>
  <1>1. /\ pc[Rehash] = "restoring" /\ job[Rehash] = "restore"
        /\ Store(Rehash, key[Rehash], copy[Rehash])
        /\ UNCHANGED <<left, cache, current, clobbered, vanished>>
    BY DEF StoreRestored, Control, rehash
  <1>2. key[Rehash] \in Keys /\ copy[Rehash] \in Record
    BY <1>1, Actor DEF TypeOK, Held
  <1>3. After(Rehash) = "restore" /\ After(Rehash) \in PCs
    BY <1>1 DEF After, PCs
  <1>4. Stored(Rehash, key[Rehash], copy[Rehash])
    BY <1>1, <1>2, <1>3, Actor, StoredEffect
  <1> QED BY <1>1, <1>2, <1>3, <1>4 DEF Stored

LEMMA OverEffect ==
    ASSUME TypeOK, EndRehash \/ KillRehash
    PROVE  /\ Others(Rehash) /\ UNCHANGED <<db, stale, vanished>>
           /\ pc'[Rehash] = "over" /\ job'[Rehash] = "none"
           /\ left' = {} /\ during' = {}
           /\ cache' = [k \in Keys |-> NoRecord]
  <1>1. Goes(Rehash, "over", Blank, NoRecord) /\ Blank \in Keys /\ "over" \in PCs
    BY Key DEF EndRehash, KillRehash, PCs
  <1>2. Others(Rehash) /\ pc'[Rehash] = "over" /\ job'[Rehash] = "none"
    BY <1>1, Actor, GoesTypes DEF Others
  <1> QED BY <1>2 DEF EndRehash, KillRehash

-----------------------------------------------------------------------------
(* Control and the copies *)

LEMMA ControlStep == TypeOK /\ Control /\ Held /\ [Next]_vars => Control'
  <1> SUFFICES ASSUME TypeOK, Control, Held, [Next]_vars PROVE Control'
    OBVIOUS
  <1> USE Actor
  <1> DEFINE Sober(s) == /\ pc[s] \in {"idle", "asked", "editing", "adding", "deleting", "alias",
                                       "over"}
                         /\ pc[s] = "adding" => key[s] \in Names
  <1>0. /\ \A s \in Sessions : Sober(s)
        /\ \/ pc[Rehash] \in {"idle", "caching", "over"} /\ job[Rehash] = "none"
           \/ pc[Rehash] \in {"parse", "alias"} /\ job[Rehash] = "parse"
           \/ pc[Rehash] \in {"restore", "restoring", "alias"} /\ job[Rehash] = "restore"
        /\ ~Running => during = {}
        /\ pc[Rehash] = "idle" => cache = [k \in Keys |-> NoRecord]
        /\ job[Rehash] = "parse" => left \subseteq InFile
        /\ job[Rehash] = "restore" => \A k \in left : cache[k] # NoRecord
    BY DEF Control
  \* A session moves.
  <1>1. ASSUME NEW s \in Sessions, Others(s), Sober(s)', UNCHANGED <<left, cache>>,
               ~Running => during' = during
        PROVE  Control'
    <2>1. \A o \in Sessions : Sober(o)'
      BY <1>0, <1>1 DEF Others
    <2>2. pc'[Rehash] = pc[Rehash] /\ job'[Rehash] = job[Rehash]
      BY <1>1 DEF Others
    <2> QED BY <1>0, <1>1, <2>1, <2>2 DEF Control, Running
  \* rehash moves.
  <1>2. ASSUME Others(Rehash),
               \/ pc'[Rehash] \in {"idle", "caching", "over"} /\ job'[Rehash] = "none"
               \/ pc'[Rehash] \in {"parse", "alias"} /\ job'[Rehash] = "parse"
               \/ pc'[Rehash] \in {"restore", "restoring", "alias"} /\ job'[Rehash] = "restore",
               pc'[Rehash] = "over" => during' = {},
               pc'[Rehash] # "idle",
               job'[Rehash] = "parse" => left' \subseteq InFile,
               job'[Rehash] = "restore" => \A k \in left' : cache'[k] # NoRecord
        PROVE  Control'
    <2>1. \A o \in Sessions : Sober(o)'
      BY <1>0, <1>2 DEF Others
    <2> QED BY <1>2, <2>1 DEF Control, Running
  <1>3. CASE UNCHANGED vars
    BY <1>3 DEF vars, rehash, history, Control, Running
  <1>4. ASSUME NEW s \in Sessions, SessionStep(s) PROVE Control'
    <2>1. ASSUME NEW k \in Keys, NEW what, Ask(s, what, k) PROVE Control'
      BY <2>1, <1>1, AskEffect DEF database
    <2>2. CASE Fetch(s)
      BY <2>2, <1>1, FetchEffect DEF database
    <2>3. CASE Save(s)
      <3>1. PICK r \in Record : Stored(s, key[s], r) /\ After(s) = "over" /\ UNCHANGED <<left, cache>>
        BY <2>3, SaveEffect
      <3> QED BY <3>1, <1>1 DEF Stored, Writes
    <2>4. CASE Leave(s)
      BY <2>4, <1>1, LeaveEffect DEF database
    <2>5. ASSUME NEW n \in Names, AskNew(s, n) PROVE Control'
      BY <2>5, <1>1, AskNewEffect DEF database
    <2>6. ASSUME NEW k \in Keys, AskDelete(s, k) PROVE Control'
      BY <2>6, <1>1, AskDeleteEffect DEF database
    <2>7. CASE Add(s)
      <3>1. PICK r \in Record : Stored(s, key[s], r) /\ After(s) = "over" /\ UNCHANGED <<left, cache>>
        BY <2>7, AddEffect
      <3> QED BY <3>1, <1>1 DEF Stored, Writes
    <2>8. CASE Delete(s)
      BY <2>8, <1>1, DeleteEffect DEF Writes
    <2> QED BY <1>4, <2>1, <2>2, <2>3, <2>4, <2>5, <2>6, <2>7, <2>8 DEF SessionStep
  <1>5. ASSUME NEW a \in Actors, StoreAlias(a) PROVE Control'
    <2>1. CASE a \in Sessions
      BY <1>5, <2>1, <1>1, StoreAliasEffect DEF Writes
    <2>2. CASE a = Rehash
      BY <1>5, <2>2, <1>0, <1>2, StoreAliasEffect DEF Writes
    <2> QED BY <2>1, <2>2
  <1>6. CASE RehashStep
    <2>1. CASE StartRehash
      BY <2>1, <1>0, <1>2, StartRehashEffect
    <2>2. ASSUME NEW k \in Keys, CachePassword(k) PROVE Control'
      BY <2>2, <1>0, <1>2, CacheEffect DEF Others
    <2>3. CASE Erase
      BY <2>3, <1>2, EraseEffect
    <2>4. ASSUME NEW n \in Names, Parse(n) PROVE Control'
      BY <2>4, <1>0, <1>2, ParseEffect DEF Stored, Writes
    <2>5. CASE StartRestore
      BY <2>5, <1>2, StartRestoreEffect
    <2>6. ASSUME NEW k \in Keys, Restore(k) PROVE Control'
      BY <2>6, <1>0, <1>2, RestoreEffect
    <2>7. CASE StoreRestored
      BY <2>7, <1>0, <1>2, StoreRestoredEffect DEF Stored, Writes
    <2>8. CASE EndRehash \/ KillRehash
      BY <2>8, <1>2, OverEffect
    <2> QED BY <1>6, <2>1, <2>2, <2>3, <2>4, <2>5, <2>6, <2>7, <2>8 DEF RehashStep
  <1> QED BY <1>3, <1>4, <1>5, <1>6 DEF Next

LEMMA HeldStep == TypeOK /\ Control /\ Held /\ [Next]_vars => Held'
  <1> SUFFICES ASSUME TypeOK, Control, Held, [Next]_vars PROVE Held'
    OBVIOUS
  <1> USE Actor
  \* Whoever moves has a record when it goes to where it stores one.
  <1>1. ASSUME NEW a \in Actors, Others(a),
               pc'[a] \in {"alias", "restoring"} => copy'[a] # NoRecord,
               pc'[a] = "editing" => key'[a] = Blank \/ copy'[a] # NoRecord
        PROVE  Held'
    BY <1>1 DEF Others, Held
  <1>2. CASE UNCHANGED vars
    BY <1>2 DEF vars, Held
  <1>3. ASSUME NEW s \in Sessions, SessionStep(s) PROVE Held'
    <2>1. ASSUME NEW k \in Keys, NEW what, Ask(s, what, k) PROVE Held'
      BY <2>1, <1>1, AskEffect
    <2>2. CASE Fetch(s)
      BY <2>2, <1>1, FetchEffect
    <2>3. CASE Save(s)
      <3>1. PICK r \in Record : Stored(s, key[s], r) /\ After(s) = "over"
        BY <2>3, SaveEffect
      <3> QED BY <3>1, <1>1, Fields DEF Stored, Writes
    <2>4. CASE Leave(s)
      BY <2>4, <1>1, LeaveEffect
    <2>5. ASSUME NEW n \in Names, AskNew(s, n) PROVE Held'
      BY <2>5, <1>1, AskNewEffect
    <2>6. ASSUME NEW k \in Keys, AskDelete(s, k) PROVE Held'
      BY <2>6, <1>1, AskDeleteEffect
    <2>7. CASE Add(s)
      <3>1. PICK r \in Record : Stored(s, key[s], r) /\ After(s) = "over"
        BY <2>7, AddEffect
      <3> QED BY <3>1, <1>1, Fields DEF Stored, Writes
    <2>8. CASE Delete(s)
      BY <2>8, <1>1, DeleteEffect DEF Writes
    <2> QED BY <1>3, <2>1, <2>2, <2>3, <2>4, <2>5, <2>6, <2>7, <2>8 DEF SessionStep
  <1>4. ASSUME NEW a \in Actors, StoreAlias(a) PROVE Held'
    <2>1. CASE a \in Sessions
      BY <1>4, <2>1, <1>1, StoreAliasEffect DEF Writes
    <2>2. CASE a = Rehash
      <3>1. pc'[Rehash] \in {"parse", "restore"} /\ Others(Rehash)
        BY <1>4, <2>2, StoreAliasEffect DEF Writes, Control
      <3> QED BY <3>1, <1>1
    <2> QED BY <2>1, <2>2
  <1>5. CASE RehashStep
    <2>1. CASE StartRehash
      BY <2>1, <1>1, StartRehashEffect
    <2>2. ASSUME NEW k \in Keys, CachePassword(k) PROVE Held'
      BY <2>2, CacheEffect DEF Held
    <2>3. CASE Erase
      BY <2>3, <1>1, EraseEffect
    <2>4. ASSUME NEW n \in Names, Parse(n) PROVE Held'
      BY <2>4, <1>1, ParseEffect, Fields DEF Stored, Writes
    <2>5. CASE StartRestore
      BY <2>5, <1>1, StartRestoreEffect
    <2>6. ASSUME NEW k \in Keys, Restore(k) PROVE Held'
      BY <2>6, <1>1, RestoreEffect, Fields
    <2>7. CASE StoreRestored
      BY <2>7, <1>1, StoreRestoredEffect, Fields DEF Stored, Writes
    <2>8. CASE EndRehash \/ KillRehash
      BY <2>8, <1>1, OverEffect
    <2> QED BY <1>5, <2>1, <2>2, <2>3, <2>4, <2>5, <2>6, <2>7, <2>8 DEF RehashStep
  <1> QED BY <1>2, <1>3, <1>4, <1>5 DEF Next

-----------------------------------------------------------------------------
(* What becomes of a change *)

\* All that is said of the records under the names.
Ledger == Found /\ Fresh /\ Parsed /\ Restored /\ ChangesStick

\* rehash is not disturbed by a session that writes nothing, nor is a record.
LEMMA QuietSession ==
    ASSUME Ledger, NEW s \in Sessions, Others(s), UNCHANGED database
    PROVE  Parsed' /\ Restored' /\ ChangesStick'
  <1>1. /\ pc'[Rehash] = pc[Rehash] /\ job'[Rehash] = job[Rehash]
        /\ key'[Rehash] = key[Rehash] /\ copy'[Rehash] = copy[Rehash]
    BY Actor DEF Others
  <1>2. Parsed'
    BY <1>1 DEF Ledger, Parsed, database
  <1>3. Restored'
    BY <1>1 DEF Ledger, Restored, Again, database
  <1>4. ChangesStick'
    BY <1>1 DEF Ledger, ChangesStick, Running, database
  <1> QED BY <1>2, <1>3, <1>4

\* Nor by one that writes: what it writes is no longer rehash's.
LEMMA BusySession ==
    ASSUME TypeOK, Control, Ledger, NEW s \in Sessions, NEW k \in Keys, NEW r, Writes(s, k, r),
           UNCHANGED <<left, cache>>
    PROVE  Parsed' /\ Restored'
  <1>1. /\ pc'[Rehash] = pc[Rehash] /\ job'[Rehash] = job[Rehash]
        /\ key'[Rehash] = key[Rehash] /\ copy'[Rehash] = copy[Rehash]
    BY Actor DEF Others, Writes
  <1>2. job[Rehash] # "none" => \A n \in Names \ during' : n \notin during /\ db'[n] = db[n]
    <2>1. ASSUME job[Rehash] # "none" PROVE Running
      BY <2>1 DEF Control, Running
    <2> QED BY <2>1, Actor, Key DEF Writes
  <1>3. Parsed'
    BY <1>1, <1>2 DEF Ledger, Parsed
  <1>4. Restored'
    BY <1>1, <1>2 DEF Ledger, Restored, Again
  <1> QED BY <1>3, <1>4

\* Whoever writes a record marks the copies of it.
LEMMA FreshAfterWrite ==
    ASSUME TypeOK, Control, Ledger, NEW a \in Actors, NEW k \in Keys, NEW r, Writes(a, k, r),
           pc'[a] # "editing"
    PROVE  Fresh'
  <1> SUFFICES ASSUME NEW s \in Sessions, pc'[s] = "editing", key'[s] # Blank, s \notin stale'
               PROVE  copy'[s] = db'[key'[s]]
    BY DEF Fresh
  <1>1. s # a /\ s \in Actors
    BY Actor
  <1>2. pc[s] = "editing" /\ key'[s] = key[s] /\ copy'[s] = copy[s] /\ key[s] \in Keys
    BY <1>1 DEF Writes, Others, TypeOK
  <1>3. s \notin stale /\ key[s] # k
    BY <1>1, <1>2 DEF Writes, Holding
  <1> QED BY <1>2, <1>3 DEF Ledger, Fresh, Writes

\* A store or a deletion keeps what was found, if it writes a record, not
\* under the empty name, or notes what it takes away.
LEMMA FoundAfterWrite ==
    ASSUME TypeOK, Control, Ledger, NEW a \in Actors, NEW k \in Keys, NEW r \in Record,
           Writes(a, k, r), ~vanished => k # Blank, vanished' = vanished, left' \subseteq left,
           job'[Rehash] = "restore" => job[Rehash] = "restore",
           pc'[a] \notin {"asked", "editing", "adding", "restoring"},
           pc'[a] = "alias" => key'[a] = k
    PROVE  Found'
  <1> SUFFICES ASSUME ~vanished PROVE Found'
    BY DEF Found
  <1>1. k # Blank /\ Blank \in Keys /\ \A q \in Keys : db[q] # NoRecord => db'[q] # NoRecord
    BY Key, Fields DEF Writes
  <1>2. db'[Blank] = NoRecord
    BY <1>1 DEF Ledger, Found, Writes
  <1>3. \A o \in Actors : pc'[o] = "asked" => db'[key'[o]] # NoRecord
    BY <1>1 DEF Ledger, Found, Writes, Others, TypeOK
  <1>4. \A o \in Actors : pc'[o] \in {"editing", "adding", "alias", "restoring"} => key'[o] # Blank
    BY <1>1 DEF Ledger, Found, Writes, Others
  <1>5. job'[Rehash] = "restore" => \A q \in left' : db'[q] # NoRecord
    BY <1>1 DEF Ledger, Found, TypeOK
  <1> QED BY <1>2, <1>3, <1>4, <1>5 DEF Found

\* A session that writes nothing.
LEMMA AskLedger ==
    ASSUME TypeOK, Control, Held, Ledger, NEW s \in Sessions,
           \/ \E k \in Keys, what \in {"login", "web", "root"} : Ask(s, what, k)
           \/ \E n \in Names : AskNew(s, n)
           \/ \E k \in Keys : AskDelete(s, k)
           \/ Fetch(s) \/ Leave(s)
    PROVE  Ledger'
  <1> USE Actor
  <1>1. Others(s) /\ UNCHANGED database /\ \A o \in Actors \ {s} : o \in stale' <=> o \in stale
    <2>1. CASE Fetch(s)
      BY <2>1, FetchEffect
    <2>2. CASE Leave(s)
      BY <2>2, LeaveEffect
    <2> QED BY <2>1, <2>2, AskEffect, AskNewEffect, AskDeleteEffect
  <1>2. Parsed' /\ Restored' /\ ChangesStick'
    BY <1>1, QuietSession
  <1>3. \/ pc'[s] = "asked" /\ key'[s] \in Keys /\ db[key'[s]] # NoRecord
        \/ pc'[s] = "adding" /\ key'[s] \in Names
        \/ pc'[s] \in {"deleting", "over"}
        \/ /\ pc[s] = "asked" /\ pc'[s] = "editing" /\ copy'[s] = db[key[s]]
           /\ key'[s] = IF db[key[s]] = NoRecord THEN Blank ELSE key[s]
    BY AskEffect, AskNewEffect, AskDeleteEffect, FetchEffect, LeaveEffect
  <1>4. Fresh'
    BY <1>1, <1>3 DEF Ledger, Fresh, Others, database
  <1>5. Found'
    <2> SUFFICES ASSUME ~vanished PROVE Found'
      BY <1>1 DEF Found, database
    <2>1. pc'[s] = "asked" => db[key'[s]] # NoRecord
      BY <1>3
    <2>2. pc'[s] \in {"editing", "adding", "alias", "restoring"} => key'[s] # Blank
      BY <1>3, Key DEF Ledger, Found
    <2>3. job'[Rehash] = job[Rehash]
      BY <1>1 DEF Others
    <2> QED BY <1>1, <2>1, <2>2, <2>3 DEF Ledger, Found, Others, database
  <1> QED BY <1>2, <1>4, <1>5 DEF Ledger

\* The whole record, with what the session had read of it.
LEMMA SaveLedger ==
    ASSUME TypeOK, Control, Held, Ledger, NEW s \in Sessions, Save(s)
    PROVE  Ledger'
  <1> USE Actor
  <1>1. PICK r \in Record :
              /\ Stored(s, key[s], r)
              /\ pc[s] = "editing" /\ After(s) = "over" /\ key[s] \in Keys
              /\ UNCHANGED <<left, cache, vanished>>
              /\ clobbered \subseteq clobbered'
              /\ s \in stale /\ key[s] \in Names => key[s] \in clobbered'
              /\ key[s] \in Names /\ copy[s] = current[key[s]] /\ copy[s] # NoRecord
                    => current'[key[s]] = r
              /\ \A n \in Names \ {key[s]} : current'[n] = current[n]
    BY SaveEffect
  <1>2. Writes(s, key[s], r) /\ Others(s)
    BY <1>1 DEF Stored, Writes
  <1>3. Parsed' /\ Restored'
    BY <1>1, <1>2, BusySession
  <1>4. pc'[s] \in {"alias", "over"} /\ (pc'[s] = "alias" => key'[s] = key[s])
    BY <1>1 DEF Stored
  <1>5. Fresh'
    BY <1>1, <1>2, <1>4, FreshAfterWrite
  <1>6. Found'
    <2>1. ~vanished => key[s] # Blank
      BY <1>1 DEF Ledger, Found
    <2>2. job'[Rehash] = job[Rehash]
      BY <1>2 DEF Others
    <2> QED BY <1>1, <1>2, <1>4, <2>1, <2>2, FoundAfterWrite
  <1>7. ChangesStick'
    <2> SUFFICES ASSUME NEW n \in Names, ~Running', n \notin clobbered'
                 PROVE  db'[n] = current'[n]
      BY DEF ChangesStick
    <2>1. ~Running /\ n \notin clobbered /\ db[n] = current[n]
      BY <1>1, <1>2 DEF Others, Running, Ledger, ChangesStick
    <2>2. CASE n # key[s]
      BY <1>1, <1>2, <2>1, <2>2, Key DEF Writes
    <2>3. CASE n = key[s]
      <3>1. s \notin stale /\ key[s] # Blank
        BY <1>1, <2>3, Key
      <3>2. copy[s] = db[n] /\ copy[s] # NoRecord
        BY <1>1, <2>3, <3>1 DEF Ledger, Fresh, Held
      <3> QED BY <1>1, <1>2, <2>1, <2>3, <3>2 DEF Writes
    <2> QED BY <2>2, <2>3
  <1> QED BY <1>3, <1>5, <1>6, <1>7 DEF Ledger

LEMMA AddLedger ==
    ASSUME TypeOK, Control, Held, Ledger, NEW s \in Sessions, Add(s)
    PROVE  Ledger'
  <1> USE Actor
  <1>1. PICK r \in Record :
              /\ Stored(s, key[s], r)
              /\ pc[s] = "adding" /\ After(s) = "over" /\ key[s] \in Names
              /\ UNCHANGED <<left, cache, vanished, clobbered>>
              /\ current'[key[s]] = r
              /\ \A n \in Names \ {key[s]} : current'[n] = current[n]
    BY AddEffect
  <1>2. Writes(s, key[s], r) /\ Others(s) /\ key[s] \in Keys /\ key[s] # Blank
    BY <1>1, Key DEF Stored, Writes
  <1>3. Parsed' /\ Restored'
    BY <1>1, <1>2, BusySession
  <1>4. pc'[s] \in {"alias", "over"} /\ (pc'[s] = "alias" => key'[s] = key[s])
    BY <1>1 DEF Stored
  <1>5. Fresh'
    BY <1>1, <1>2, <1>4, FreshAfterWrite
  <1>6. Found'
    <2>1. job'[Rehash] = job[Rehash]
      BY <1>2 DEF Others
    <2> QED BY <1>1, <1>2, <1>4, <2>1, FoundAfterWrite
  <1>7. ChangesStick'
    BY <1>1, <1>2, Key DEF Writes, Others, Running, Ledger, ChangesStick
  <1> QED BY <1>3, <1>5, <1>6, <1>7 DEF Ledger

\* A deletion that nobody notices is one that takes nobody's record away.
LEMMA DeleteLedger ==
    ASSUME TypeOK, Control, Held, Ledger, NEW s \in Sessions, Delete(s)
    PROVE  Ledger'
  <1> USE Actor
  <1>1. /\ Writes(s, key[s], NoRecord) /\ key[s] \in Keys
        /\ pc[s] = "deleting" /\ pc'[s] = "over"
        /\ UNCHANGED <<left, cache, clobbered, split>>
        /\ key[s] \in Names => current'[key[s]] = NoRecord
        /\ \A n \in Names \ {key[s]} : current'[n] = current[n]
        /\ vanished' = (vanished \/ Looked({key[s]}))
    BY DeleteEffect
  <1>2. Others(s)
    BY <1>1 DEF Writes
  <1>3. Parsed' /\ Restored'
    BY <1>1, BusySession
  <1>4. Fresh'
    BY <1>1, FreshAfterWrite
  <1>5. ChangesStick'
    BY <1>1, <1>2, Key DEF Writes, Others, Running, Ledger, ChangesStick
  <1>6. Found'
    <2> SUFFICES ASSUME ~vanished' PROVE Found'
      BY DEF Found
    <2>1. ~vanished /\ ~Looked({key[s]})
      BY <1>1
    <2>2. \A q \in Keys : db[q] = NoRecord => db'[q] = NoRecord
      BY <1>1 DEF Writes
    <2>3. db'[Blank] = NoRecord
      BY <2>1, <2>2, Key DEF Ledger, Found
    <2>4. \A o \in Actors : pc'[o] = "asked" => db'[key'[o]] # NoRecord
      <3> SUFFICES ASSUME NEW o \in Actors, pc'[o] = "asked" PROVE db'[key'[o]] # NoRecord
        OBVIOUS
      <3>1. o # s /\ pc[o] = "asked" /\ key'[o] = key[o] /\ key[o] \in Keys
        BY <1>1, <1>2 DEF Others, TypeOK
      <3>2. key[o] # key[s]
        BY <2>1, <3>1 DEF Looked
      <3> QED BY <1>1, <2>1, <3>1, <3>2 DEF Ledger, Found, Writes
    <2>5. \A o \in Actors : pc'[o] \in {"editing", "adding", "alias", "restoring"}
                               => key'[o] # Blank
      BY <1>1, <1>2, <2>1 DEF Ledger, Found, Others
    <2>6. job'[Rehash] = "restore" => \A q \in left' : db'[q] # NoRecord
      <3>1. job'[Rehash] = job[Rehash]
        BY <1>2 DEF Others
      <3>2. job[Rehash] = "restore" => key[s] \notin left
        BY <2>1 DEF Looked
      <3> QED BY <1>1, <2>1, <3>1, <3>2 DEF Ledger, Found, Writes, TypeOK
    <2> QED BY <2>3, <2>4, <2>5, <2>6 DEF Found
  <1> QED BY <1>3, <1>4, <1>5, <1>6 DEF Ledger

\* The second store writes no name.
LEMMA AliasLedger ==
    ASSUME TypeOK, Control, Held, Ledger, NEW a \in Actors, StoreAlias(a)
    PROVE  Ledger'
  <1> USE Actor
  <1> DEFINE k == Alias(key[a])
  <1>1. /\ Writes(a, k, copy[a]) /\ copy[a] \in Record /\ key[a] \in Keys /\ k \in Keys
        /\ pc[a] = "alias" /\ pc'[a] = After(a)
        /\ a = Rehash => pc'[a] = job[a] /\ job'[a] = job[a]
        /\ a # Rehash => pc'[a] = "over"
        /\ UNCHANGED <<left, cache, current, clobbered, split, vanished>>
    BY StoreAliasEffect
  <1>2. Others(a) /\ k \notin Names
    BY <1>1, Key DEF Writes
  <1>3. \A n \in Names : db'[n] = db[n]
    BY <1>1, <1>2, Key DEF Writes
  <1>4. a = Rehash => pc'[a] \in {"parse", "restore"}
    BY <1>1 DEF Control
  <1>5. job'[Rehash] = job[Rehash] /\ (Running' <=> Running) /\ during \subseteq during'
    BY <1>1, <1>2, <1>4 DEF Others, Running, Writes
  <1>6. Parsed' /\ Restored'
    <2>1. CASE a \in Sessions
      BY <1>1, <2>1, BusySession
    <2>2. CASE a = Rehash
      BY <1>1, <1>3, <1>4, <1>5, <2>2 DEF Ledger, Parsed, Restored, Again
    <2> QED BY <2>1, <2>2
  <1>7. Fresh'
    BY <1>1, <1>4, FreshAfterWrite
  <1>8. Found'
    <2>1. ~vanished => k # Blank
      BY <1>1, Key DEF Ledger, Found
    <2> QED BY <1>1, <1>4, <1>5, <2>1, FoundAfterWrite
  <1>9. ChangesStick'
    BY <1>1, <1>3, <1>5 DEF Ledger, ChangesStick
  <1> QED BY <1>6, <1>7, <1>8, <1>9 DEF Ledger

\* Before rehash has emptied the database, and after it has ended.
LEMMA CachingLedger ==
    ASSUME TypeOK, Control, Held, Ledger, StartRehash \/ \E k \in Keys : CachePassword(k)
    PROVE  Ledger'
  <1> USE Actor
  <1>1. /\ Others(Rehash) /\ UNCHANGED <<db, current, clobbered, vanished, during, stale, job>>
        /\ pc[Rehash] \in {"idle", "caching"} /\ pc'[Rehash] = "caching"
    BY StartRehashEffect, CacheEffect DEF Others
  <1>2. job[Rehash] = "none" /\ Running'
    BY <1>1 DEF Control, Running
  <1>3. Parsed' /\ Restored' /\ ChangesStick'
    BY <1>1, <1>2 DEF Parsed, Restored, ChangesStick
  <1>4. Fresh' /\ Found'
    BY <1>1, <1>2 DEF Ledger, Fresh, Found, Others
  <1> QED BY <1>3, <1>4 DEF Ledger

LEMMA EraseLedger ==
    ASSUME TypeOK, Control, Held, Ledger, Erase
    PROVE  Ledger'
  <1> USE Actor
  <1>1. /\ Others(Rehash)
        /\ pc'[Rehash] = "parse" /\ job'[Rehash] = "parse" /\ left' = InFile
        /\ \A k \in Keys : db'[k] = NoRecord
        /\ \A o \in Actors \ {Rehash} :
              o \in stale' <=> o \in stale \/ (pc[o] \in Holding /\ key[o] \in Keys)
        /\ vanished' = (vanished \/ Looked(Keys))
    BY EraseEffect
  <1>2. Parsed' /\ Restored' /\ ChangesStick'
    BY <1>1, Key DEF Parsed, Restored, ChangesStick, Running
  <1>3. Fresh'
    BY <1>1 DEF Fresh, Others, Holding, TypeOK
  <1>4. Found'
    <2> SUFFICES ASSUME ~vanished' PROVE Found'
      BY DEF Found
    <2>1. ~vanished /\ \A a \in Actors : pc[a] # "asked"
      BY <1>1 DEF Looked, TypeOK
    <2>2. \A a \in Actors : pc'[a] # "asked"
      BY <1>1, <2>1 DEF Others
    <2>3. \A a \in Actors : pc'[a] \in {"editing", "adding", "alias", "restoring"}
                               => key'[a] # Blank
      BY <1>1, <2>1 DEF Ledger, Found, Others
    <2> QED BY <1>1, <2>2, <2>3, Key DEF Found
  <1> QED BY <1>2, <1>3, <1>4 DEF Ledger

LEMMA ParseLedger ==
    ASSUME TypeOK, Control, Held, Ledger, NEW n \in Names, Parse(n)
    PROVE  Ledger'
  <1> USE Actor
  <1>1. /\ Stored(Rehash, n, Plain) /\ After(Rehash) = "parse"
        /\ pc[Rehash] = "parse" /\ job[Rehash] = "parse" /\ job'[Rehash] = "parse"
        /\ n \in left /\ n \in InFile /\ left' = left \ {n}
        /\ UNCHANGED <<cache, current, clobbered, vanished>>
    BY ParseEffect
  <1>2. Writes(Rehash, n, Plain) /\ Others(Rehash) /\ n \in Keys /\ n # Blank
    BY <1>1, Key DEF Stored, Writes
  <1>3. pc'[Rehash] \in {"alias", "parse"} /\ (pc'[Rehash] = "alias" => key'[Rehash] = n)
    BY <1>1 DEF Stored
  <1>4. Parsed'
    <2> SUFFICES ASSUME NEW m \in Names \ during
                 PROVE  db'[m] = IF m \in InFile \ left' THEN Plain ELSE NoRecord
      BY <1>2 DEF Parsed, Writes
    <2>1. db[m] = IF m \in InFile \ left THEN Plain ELSE NoRecord
      BY <1>1 DEF Ledger, Parsed
    <2> QED BY <1>1, <1>2, <2>1, Key DEF Writes
  <1>5. Restored' /\ ChangesStick'
    BY <1>1, <1>3 DEF Restored, ChangesStick, Running
  <1>6. Fresh'
    BY <1>2, <1>3, FreshAfterWrite
  <1>7. Found'
    BY <1>1, <1>2, <1>3, Fields, FoundAfterWrite
  <1> QED BY <1>4, <1>5, <1>6, <1>7 DEF Ledger

LEMMA StartRestoreLedger ==
    ASSUME TypeOK, Control, Held, Ledger, StartRestore
    PROVE  Ledger'
  <1> USE Actor
  <1>1. /\ Others(Rehash)
        /\ UNCHANGED <<db, key, copy, cache, current, clobbered, vanished, during, stale>>
        /\ pc[Rehash] = "parse" /\ left = {}
        /\ pc'[Rehash] = "restore" /\ job'[Rehash] = "restore"
        /\ left' = {k \in Present : cache[k] # NoRecord}
    BY StartRestoreEffect
  <1>2. job[Rehash] = "parse"
    BY <1>1 DEF Control
  <1>3. Restored'
    <2> SUFFICES ASSUME NEW n \in Names \ during
                 PROVE  /\ n \notin InFile => db[n] = NoRecord /\ n \notin left'
                        /\ n \in InFile => db[n] = Plain /\ (cache[n] = NoRecord \/ n \in left')
      BY <1>1 DEF Restored
    <2>1. db[n] = IF n \in InFile THEN Plain ELSE NoRecord
      BY <1>1, <1>2 DEF Ledger, Parsed
    <2> QED BY <1>1, <2>1, Key, Fields DEF Present
  <1>4. Parsed' /\ ChangesStick'
    BY <1>1 DEF Parsed, ChangesStick, Running
  <1>5. Fresh'
    BY <1>1 DEF Ledger, Fresh, Others
  <1>6. Found'
    BY <1>1 DEF Ledger, Found, Others, Present
  <1> QED BY <1>3, <1>4, <1>5, <1>6 DEF Ledger

\* rehash finds the record of the file, and gives it the password.
LEMMA RestoreLedger ==
    ASSUME TypeOK, Control, Held, Ledger, NEW k \in Keys, Restore(k)
    PROVE  Ledger'
  <1> USE Actor
  <1>1. /\ Others(Rehash)
        /\ UNCHANGED <<db, job, cache, current, clobbered, vanished, during, stale>>
        /\ pc[Rehash] = "restore" /\ job[Rehash] = "restore"
        /\ k \in left /\ left' = left \ {k} /\ cache[k] \in Record
        /\ pc'[Rehash] = "restoring"
        /\ key'[Rehash] = IF db[k] = NoRecord THEN Blank ELSE k
        /\ copy'[Rehash] = [pw |-> cache[k].pw,
                            hours |-> IF db[k] = NoRecord THEN Given ELSE db[k].hours]
    BY RestoreEffect
  <1>2. Restored'
    <2>0. ASSUME NEW n \in Names
          PROVE  /\ n # Blank /\ Again(n)' = Again(n)
                 /\ key'[Rehash] = n => n = k /\ db[k] # NoRecord
      BY <1>1, Key DEF Again
    <2> SUFFICES ASSUME NEW n \in Names, n \notin during
                 PROVE  /\ n \notin InFile => /\ db[n] = NoRecord /\ n \notin left'
                                              /\ key'[Rehash] # n
                        /\ n \in InFile =>
                              db[n] = IF \/ cache[n] = NoRecord \/ n \in left'
                                         \/ key'[Rehash] = n
                                      THEN Plain ELSE Again(n)
                        /\ key'[Rehash] = n => /\ copy'[Rehash] = Again(n)
                                               /\ cache[n] # NoRecord /\ n \notin left'
      BY <1>1, <2>0 DEF Restored
    <2>1. /\ n \notin InFile => db[n] = NoRecord /\ n \notin left
          /\ n \in InFile => db[n] = IF cache[n] = NoRecord \/ n \in left THEN Plain ELSE Again(n)
      BY <1>1 DEF Ledger, Restored
    <2>2. CASE n = k
      <3>1. n \in InFile /\ db[n] = Plain /\ cache[n] # NoRecord
        BY <1>1, <2>1, <2>2, Fields
      <3>2. key'[Rehash] = n /\ copy'[Rehash] = Again(n)
        BY <1>1, <2>2, <3>1, Fields DEF Again
      <3> QED BY <1>1, <2>2, <3>1, <3>2
    <2>3. CASE n # k
      BY <1>1, <2>0, <2>1, <2>3
    <2> QED BY <2>2, <2>3
  <1>3. Parsed' /\ ChangesStick'
    BY <1>1 DEF Parsed, ChangesStick, Running
  <1>4. Fresh'
    BY <1>1 DEF Ledger, Fresh, Others
  <1>5. Found'
    BY <1>1, Key DEF Ledger, Found, Others
  <1> QED BY <1>2, <1>3, <1>4, <1>5 DEF Ledger

LEMMA StoreRestoredLedger ==
    ASSUME TypeOK, Control, Held, Ledger, StoreRestored
    PROVE  Ledger'
  <1> USE Actor
  <1>1. /\ Stored(Rehash, key[Rehash], copy[Rehash]) /\ After(Rehash) = "restore"
        /\ key[Rehash] \in Keys /\ copy[Rehash] \in Record
        /\ pc[Rehash] = "restoring" /\ job[Rehash] = "restore" /\ job'[Rehash] = "restore"
        /\ UNCHANGED <<left, cache, current, clobbered, vanished>>
    BY StoreRestoredEffect
  <1>2. Writes(Rehash, key[Rehash], copy[Rehash]) /\ Others(Rehash) /\ during' = during
    BY <1>1 DEF Stored, Writes
  <1>3. /\ pc'[Rehash] \in {"alias", "restore"}
        /\ pc'[Rehash] = "alias" => key'[Rehash] = key[Rehash]
    BY <1>1 DEF Stored
  <1>4. Restored'
    <2> SUFFICES ASSUME NEW n \in Names, n \notin during
                 PROVE  /\ n \notin InFile => db'[n] = NoRecord /\ n \notin left
                        /\ n \in InFile => db'[n] = IF cache[n] = NoRecord \/ n \in left
                                                    THEN Plain ELSE Again(n)
      BY <1>1, <1>2, <1>3 DEF Restored, Again
    <2>1. /\ n \notin InFile => /\ db[n] = NoRecord /\ n \notin left /\ key[Rehash] # n
          /\ n \in InFile =>
                db[n] = IF cache[n] = NoRecord \/ n \in left \/ key[Rehash] = n
                        THEN Plain ELSE Again(n)
          /\ key[Rehash] = n => copy[Rehash] = Again(n) /\ cache[n] # NoRecord /\ n \notin left
      BY <1>1 DEF Ledger, Restored
    <2>2. CASE n = key[Rehash]
      BY <1>2, <2>1, <2>2 DEF Writes
    <2>3. CASE n # key[Rehash]
      BY <1>2, <2>1, <2>3, Key DEF Writes
    <2> QED BY <2>2, <2>3
  <1>5. Parsed' /\ ChangesStick'
    BY <1>1, <1>3 DEF Parsed, ChangesStick, Running
  <1>6. Fresh'
    BY <1>1, <1>2, <1>3, FreshAfterWrite
  <1>7. Found'
    <2>1. ~vanished => key[Rehash] # Blank
      BY <1>1 DEF Ledger, Found
    <2> QED BY <1>1, <1>2, <1>3, <2>1, FoundAfterWrite
  <1> QED BY <1>4, <1>5, <1>6, <1>7 DEF Ledger

\* What rehash has restored is what it was to restore, of users it had alone.
LEMMA OverLedger ==
    ASSUME TypeOK, Control, Held, Ledger, EndRehash \/ KillRehash
    PROVE  Ledger'
  <1> USE Actor
  <1>1. /\ Others(Rehash) /\ UNCHANGED <<db, stale, vanished>>
        /\ pc'[Rehash] = "over" /\ job'[Rehash] = "none"
    BY OverEffect
  <1>2. Parsed' /\ Restored'
    BY <1>1 DEF Parsed, Restored
  <1>3. Fresh' /\ Found'
    BY <1>1 DEF Ledger, Fresh, Found, Others
  <1>4. ChangesStick'
    <2>1. CASE KillRehash
      BY <2>1 DEF KillRehash, ChangesStick
    <2>2. CASE EndRehash
      <3> SUFFICES ASSUME NEW n \in Names, n \notin during PROVE db[n] = Rehashed(n)
        BY <1>1, <2>2 DEF EndRehash, ChangesStick
      <3>1. /\ n \notin InFile => db[n] = NoRecord
            /\ n \in InFile => db[n] = IF cache[n] = NoRecord THEN Plain ELSE Again(n)
        BY <2>2 DEF EndRehash, Control, Ledger, Restored
      <3> QED BY <3>1 DEF Rehashed, Plain, Again
    <2> QED BY <2>1, <2>2
  <1> QED BY <1>2, <1>3, <1>4 DEF Ledger

LEMMA LedgerStep == TypeOK /\ Control /\ Held /\ Ledger /\ [Next]_vars => Ledger'
  <1> SUFFICES ASSUME TypeOK, Control, Held, Ledger, [Next]_vars PROVE Ledger'
    OBVIOUS
  <1>1. CASE UNCHANGED vars
    BY <1>1 DEF vars, rehash, history, Ledger, Found, Fresh, Parsed, Restored, Again,
                ChangesStick, Running
  <1>2. ASSUME NEW s \in Sessions, SessionStep(s) PROVE Ledger'
    BY <1>2, AskLedger, SaveLedger, AddLedger, DeleteLedger DEF SessionStep
  <1>3. CASE RehashStep
    BY <1>3, CachingLedger, EraseLedger, ParseLedger, StartRestoreLedger, RestoreLedger,
       StoreRestoredLedger, OverLedger DEF RehashStep
  <1> QED BY <1>1, <1>2, <1>3, AliasLedger DEF Next

LEMMA StickInit == Init => StickInv
  <1> SUFFICES ASSUME Init PROVE StickInv
    OBVIOUS
  <1>1. db \in [Keys -> Record \cup {NoRecord}] /\ current \in [Names -> Record \cup {NoRecord}]
    BY Key, Fields DEF Init
  <1>2. TypeOK
    BY <1>1, Key DEF Init, TypeOK
  <1>3. Control /\ Held /\ Fresh /\ Parsed /\ Restored
    BY Actor DEF Init, Control, Held, Fresh, Parsed, Restored, Running
  <1>4. Found
    <2>1. db[Blank] = NoRecord
      <3>1. Blank \in Keys /\ Blank \notin InFile /\ \A n \in InFile : PagerOf[n] # Blank
        BY Key
      <3> QED BY <3>1 DEF Init
    <2> QED BY <2>1, Actor DEF Init, Found
  <1>5. ChangesStick
    BY DEF Init, ChangesStick
  <1> QED BY <1>2, <1>3, <1>4, <1>5 DEF StickInv

(* The record of a user, who holds a copy of it and what rehash is to make of  *)
(* it are right together.                                                      *)
THEOREM StickInvariant == Spec => []StickInv
  <1>1. StickInv /\ [Next]_vars => StickInv'
    BY Types, ControlStep, HeldStep, LedgerStep DEF StickInv, Ledger
  <1> QED BY <1>1, StickInit, PTL DEF Spec

(* The type invariant. *)
THEOREM AccountTypes == Spec => []TypeOK
  <1>1. StickInv => TypeOK
    BY DEF StickInv
  <1> QED BY <1>1, StickInvariant, PTL

(* dbm_storeuser and rehash_main: a change of a user's password or hours is    *)
(* undone only by an actor that stores a record it had read before somebody    *)
(* else wrote it, or by a rehash that was interrupted or not alone.            *)
THEOREM ChangesAreKept == Spec => []ChangesStick
  <1>1. StickInv => ChangesStick
    BY DEF StickInv
  <1> QED BY <1>1, StickInvariant, PTL

(* u_exists() and getuser(): nobody is stored under the empty name as long as  *)
(* no record goes away between the two calls.                                  *)
THEOREM NamelessOnlyByRace == Spec => []NobodyIsNameless
  <1>1. StickInv => NobodyIsNameless
    BY DEF StickInv, Found, NobodyIsNameless
  <1> QED BY <1>1, StickInvariant, PTL

-----------------------------------------------------------------------------
(* The two records of a user *)

\* The records as rehash leaves them, one by one.
Twice == Kept /\ KeptTwice /\ ParsedTwice /\ RestoredTwice

LEMMA PairedUser ==
    ASSUME NEW n \in Paired
    PROVE  /\ n \in Names /\ n \in Keys /\ Alone(n) /\ n # Blank
           /\ PagerOf[n] \in Numbers /\ PagerOf[n] \in Keys /\ PagerOf[n] \notin Names
           /\ PagerOf[n] # n /\ PagerOf[n] # Blank /\ PagerOf[n] \notin split
           /\ Alias(n) = PagerOf[n] /\ Alias(PagerOf[n]) = PagerOf[n]
  BY Key DEF Paired

LEMMA QuietUser ==
    ASSUME NEW n \in Quiet
    PROVE  n \in Paired /\ n \in InFile /\ n \notin during /\ PagerOf[n] \notin during
  BY DEF Quiet

\* Nobody else has the pager.
LEMMA SameAlias ==
    ASSUME NEW n \in Names, Alone(n), NEW k \in Keys, Alias(k) = PagerOf[n]
    PROVE  k = n \/ k = PagerOf[n]
  BY Key DEF Alone

LEMMA FewerPaired ==
    ASSUME split \subseteq split'
    PROVE  Paired' \subseteq Paired
  BY DEF Paired, Alone

LEMMA FewerQuiet ==
    ASSUME split \subseteq split', during \subseteq during'
    PROVE  Quiet' \subseteq Quiet /\ Paired' \subseteq Paired
  BY DEF Quiet, Paired, Alone

\* A step that ends no store under a name, or writes only NoRecord there.
LEMMA BetweenQuiet ==
    ASSUME TypeOK, Between, NEW a \in Actors, Others(a), pc'[a] # "alias", split \subseteq split',
           \A n \in Names : db'[n] = db[n] \/ db'[n] = NoRecord
    PROVE  Between'
  <1> USE Actor
  <1>1. \A o \in Actors : \A x : At(o, x)' => o # a /\ At(o, x)
    BY DEF At, Others
  <1>2. \A x \in Numbers \ split' : \A o, b \in Actors : At(o, x)' /\ At(b, x)' => o = b
    BY <1>1 DEF Between
  <1>3. \A x \in Numbers \ split' : \A s \in Sessions : At(s, x)' => key'[s] \in Names
    BY <1>1 DEF Between, Others
  <1>4. ASSUME NEW n \in Paired', NEW s \in Sessions, At(s, PagerOf[n])'
        PROVE  copy'[s] = db'[n] \/ db'[n] = NoRecord
    <2>1. n \in Paired
      BY FewerPaired
    <2>2. At(s, PagerOf[n]) /\ copy'[s] = copy[s]
      BY <1>1, <1>4 DEF Others
    <2> QED BY <2>1, <2>2, PairedUser DEF Between
  <1> QED BY <1>2, <1>3, <1>4 DEF Between

\* A store under a name or an id: whoever was there before parts the records.
LEMMA BetweenStore ==
    ASSUME ReverseHash, TypeOK, Between, NEW a \in Actors, NEW k \in Keys, NEW r \in Record,
           Stored(a, k, r)
    PROVE  Between'
  <1> USE Actor
  <1>1. /\ Writes(a, k, r) /\ Others(a) /\ split' = split \cup Parted(a, k)
        /\ pc'[a] = "alias" /\ key'[a] = k /\ copy'[a] = r
    BY DEF Stored, Writes
  <1>2. \A o \in Actors \ {a} : \A x : At(o, x)' <=> At(o, x)
    BY <1>1 DEF At, Others
  <1>3. \A x : At(a, x)' <=> x = Alias(k)
    BY <1>1 DEF At, Alias
  <1>4. \A x \in Numbers \ split' :
           x = Alias(k) => /\ \A o \in Actors \ {a} : ~At(o, x)
                           /\ k \in Numbers => a = Rehash
    BY <1>1 DEF Parted, At
  <1>5. \A x \in Numbers \ split' : \A o, b \in Actors : At(o, x)' /\ At(b, x)' => o = b
    BY <1>1, <1>2, <1>3, <1>4 DEF Between
  <1>6. \A x \in Numbers \ split' : \A s \in Sessions : At(s, x)' => key'[s] \in Names
    <2> SUFFICES ASSUME NEW x \in Numbers \ split', NEW s \in Sessions, At(s, x)'
                 PROVE  key'[s] \in Names
      OBVIOUS
    <2>1. CASE s = a
      BY <1>1, <1>3, <1>4, <2>1, Key DEF Keys
    <2>2. CASE s # a
      BY <1>1, <1>2, <2>2 DEF Between, Others
    <2> QED BY <2>1, <2>2
  <1>7. ASSUME NEW n \in Paired', NEW s \in Sessions, At(s, PagerOf[n])'
        PROVE  copy'[s] = db'[n] \/ db'[n] = NoRecord
    <2>1. n \in Paired /\ PagerOf[n] \in Numbers \ split' /\ n \in Keys /\ Alone(n) /\ n \in Names
      BY <1>1, FewerPaired, PairedUser DEF Paired
    <2>2. CASE s = a
      <3>1. k \in Names /\ Alias(k) = PagerOf[n]
        BY <1>1, <1>3, <1>6, <1>7, <2>1, <2>2
      <3>2. k = n
        BY <2>1, <3>1, SameAlias, Key
      <3> QED BY <1>1, <2>2, <3>2 DEF Writes
    <2>3. CASE s # a
      <3>1. At(s, PagerOf[n]) /\ copy'[s] = copy[s]
        BY <1>1, <1>2, <1>7, <2>3 DEF Others
      <3>2. k # n
        BY <1>4, <2>1, <2>3, <3>1, PairedUser
      <3> QED BY <1>1, <2>1, <3>1, <3>2 DEF Between, Writes
    <2> QED BY <2>2, <2>3
  <1> QED BY <1>5, <1>6, <1>7 DEF Between

\* A session, whatever it does, leaves alone what is still rehash's.
LEMMA TwiceSession ==
    ASSUME TypeOK, Control, Twice, NEW s \in Sessions, Others(s), UNCHANGED <<left, cache>>,
           split \subseteq split', during \subseteq during',
           Running => \A k \in Keys \ during' : db'[k] = db[k],
           Running => \A n \in Quiet' : At(s, PagerOf[n])' <=> At(s, PagerOf[n])
    PROVE  Twice'
  <1> USE Actor
  <1>1. /\ pc'[Rehash] = pc[Rehash] /\ job'[Rehash] = job[Rehash]
        /\ key'[Rehash] = key[Rehash] /\ copy'[Rehash] = copy[Rehash]
    BY DEF Others
  <1>2. job[Rehash] # "none" => Running
    BY DEF Control, Running
  <1>3. Quiet' \subseteq Quiet
    BY FewerQuiet
  <1>4. Running => \A n \in Quiet' : /\ db'[n] = db[n] /\ db'[PagerOf[n]] = db[PagerOf[n]]
                                     /\ n \in Names /\ PagerOf[n] # n
    BY <1>3, QuietUser, PairedUser DEF Quiet
  <1>5. Running => \A n \in Quiet' : (\E o \in Sessions : At(o, PagerOf[n])')
                                        <=> \E o \in Sessions : At(o, PagerOf[n])
    <2>1. \A o \in Sessions \ {s} : \A x : At(o, x)' <=> At(o, x)
      BY DEF At, Others
    <2> QED BY <2>1
  <1>6. Kept'
    <2>1. pc[Rehash] = "caching" => Running
      BY DEF Running
    <2> QED BY <1>1, <2>1 DEF Twice, Kept
  <1>7. KeptTwice'
    BY <1>1, <1>2, <1>3, <1>5 DEF Twice, KeptTwice
  <1>8. ParsedTwice'
    BY <1>1, <1>2, <1>3, <1>4 DEF Twice, ParsedTwice
  <1>9. RestoredTwice'
    BY <1>1, <1>2, <1>3, <1>4 DEF Twice, RestoredTwice, Again
  <1> QED BY <1>6, <1>7, <1>8, <1>9 DEF Twice

\* Everything said of the second records.
Twins == Between /\ Agreed /\ Twice

\* Without rehash, a session that stores or deletes nothing parts no records.
LEMMA AskTwins ==
    ASSUME StickInv, Twins, NEW s \in Sessions,
           \/ \E k \in Keys, what \in {"login", "web", "root"} : Ask(s, what, k)
           \/ \E n \in Names : AskNew(s, n)
           \/ \E k \in Keys : AskDelete(s, k)
           \/ Fetch(s) \/ Leave(s)
    PROVE  Twins'
  <1> USE Actor DEF StickInv
  <1>1. /\ Others(s) /\ UNCHANGED database /\ pc'[s] # "alias" /\ split \subseteq split'
        /\ pc[s] = "alias" => Alias(key[s]) \in split'
    <2>1. CASE Fetch(s)
      BY <2>1, FetchEffect
    <2>2. CASE Leave(s)
      BY <2>2, LeaveEffect
    <2>3. ASSUME NEW k \in Keys, NEW what, Ask(s, what, k)
          PROVE  /\ Others(s) /\ UNCHANGED database /\ pc'[s] # "alias" /\ split \subseteq split'
                 /\ pc[s] # "alias"
      BY <2>3, AskEffect
    <2>4. ASSUME NEW n \in Names, AskNew(s, n)
          PROVE  /\ Others(s) /\ UNCHANGED database /\ pc'[s] # "alias" /\ split \subseteq split'
                 /\ pc[s] # "alias"
      BY <2>4, AskNewEffect DEF AskNew
    <2>5. ASSUME NEW k \in Keys, AskDelete(s, k)
          PROVE  /\ Others(s) /\ UNCHANGED database /\ pc'[s] # "alias" /\ split \subseteq split'
                 /\ pc[s] # "alias"
      BY <2>5, AskDeleteEffect DEF AskDelete
    <2> QED BY <2>1, <2>2, <2>3, <2>4, <2>5
  <1>2. Between'
    BY <1>1, BetweenQuiet DEF Twins, database
  <1>3. \A x : x \notin split' => (At(s, x)' <=> At(s, x))
    BY <1>1 DEF At
  <1>4. \A o \in Sessions : \A x : x \notin split' => (At(o, x)' <=> At(o, x))
    BY <1>1, <1>3 DEF At, Others
  <1>5. Twice'
    BY <1>1, <1>3, TwiceSession, QuietUser, PairedUser DEF Twins, database, Quiet, Paired
  <1>6. Agreed'
    <2>1. Paired' \subseteq Paired /\ \A n \in Paired' : PagerOf[n] \notin split'
      BY <1>1, FewerPaired DEF Paired
    <2>2. job'[Rehash] = job[Rehash]
      BY <1>1 DEF Others
    <2> QED BY <1>1, <1>4, <2>1, <2>2 DEF Twins, Agreed, database
  <1> QED BY <1>2, <1>5, <1>6 DEF Twins

\* A store under a name is the first of two.
LEMMA StoreTwins ==
    ASSUME ReverseHash, StickInv, Twins, NEW s \in Sessions, Save(s) \/ Add(s)
    PROVE  Twins'
  <1> USE Actor DEF StickInv
  <1>1. PICK r \in Record : /\ Stored(s, key[s], r) /\ UNCHANGED <<left, cache>>
                            /\ pc[s] # "alias" /\ key[s] \in Keys
    BY SaveEffect, AddEffect, Key
  <1> DEFINE k == key[s]
  <1>2. /\ Writes(s, k, r) /\ Others(s) /\ split' = split \cup Parted(s, k)
        /\ pc'[s] = "alias" /\ key'[s] = k /\ during \subseteq during'
        /\ Running => k \in during'
    BY <1>1 DEF Stored, Writes
  <1>3. Between'
    BY <1>1, BetweenStore DEF Twins
  <1>4. \A x : At(s, x)' <=> x = Alias(k)
    BY <1>2 DEF At, Alias
  <1>5. \A x : ~At(s, x)
    BY <1>1 DEF At
  <1>6. split \subseteq split' /\ \A x \in Numbers \ split' : k # x
    BY <1>1, <1>2, Key DEF Parted
  <1>7. Twice'
    <2>1. Running => \A q \in Keys \ during' : db'[q] = db[q]
      BY <1>2 DEF Writes
    <2>2. Running => \A n \in Quiet' : At(s, PagerOf[n])' <=> At(s, PagerOf[n])
      <3> SUFFICES ASSUME Running, NEW n \in Quiet' PROVE PagerOf[n] # Alias(k)
        BY <1>4, <1>5
      <3>1. n \in Names /\ Alone(n) /\ n \notin during' /\ PagerOf[n] \notin during'
        BY <1>2, <1>6, FewerQuiet, QuietUser, PairedUser DEF Quiet
      <3> QED BY <1>1, <1>2, <3>1, SameAlias
    <2> QED BY <1>1, <1>2, <1>6, <2>1, <2>2, TwiceSession DEF Twins
  <1>8. Agreed'
    <2> SUFFICES ASSUME job'[Rehash] = "none", NEW n \in Paired',
                        ~\E o \in Sessions : At(o, PagerOf[n])'
                 PROVE  \/ db'[n] = NoRecord \/ db'[PagerOf[n]] = NoRecord
                        \/ db'[PagerOf[n]] = db'[n]
      BY DEF Agreed
    <2>1. n \in Paired /\ job[Rehash] = "none" /\ PagerOf[n] \notin split'
      BY <1>2, <1>6, FewerPaired DEF Others, Paired
    <2>2. ~\E o \in Sessions : At(o, PagerOf[n])
      BY <1>2, <1>5 DEF At, Others
    <2>3. n # k /\ PagerOf[n] # k
      BY <1>4, <1>6, <2>1, PairedUser
    <2>4. db'[n] = db[n] /\ db'[PagerOf[n]] = db[PagerOf[n]]
      BY <1>2, <2>1, <2>3, PairedUser DEF Writes
    <2> QED BY <2>1, <2>2, <2>4 DEF Twins, Agreed
  <1> QED BY <1>3, <1>7, <1>8 DEF Twins

LEMMA DeleteTwins ==
    ASSUME StickInv, Twins, NEW s \in Sessions, Delete(s)
    PROVE  Twins'
  <1> USE Actor DEF StickInv
  <1>1. /\ Writes(s, key[s], NoRecord) /\ key[s] \in Keys
        /\ pc[s] = "deleting" /\ pc'[s] = "over"
        /\ UNCHANGED <<left, cache, split>>
    BY DeleteEffect
  <1>2. Others(s)
    BY <1>1 DEF Writes
  <1>3. \A o \in Sessions : \A x : At(o, x)' <=> At(o, x)
    BY <1>1, <1>2 DEF At, Others
  <1>4. Between'
    BY <1>1, <1>2, Key, BetweenQuiet DEF Twins, Writes
  <1>5. Twice'
    BY <1>1, <1>2, <1>3, TwiceSession DEF Twins, Writes
  <1>6. Agreed'
    <2>1. Paired' \subseteq Paired /\ job'[Rehash] = job[Rehash]
      BY <1>1, <1>2, FewerPaired DEF Others
    <2>2. \A q \in Keys : db'[q] = db[q] \/ db'[q] = NoRecord
      BY <1>1 DEF Writes
    <2> QED BY <1>3, <2>1, <2>2, PairedUser DEF Twins, Agreed
  <1> QED BY <1>4, <1>5, <1>6 DEF Twins

\* The second store of a session makes the two records the same.
LEMMA SecondTwins ==
    ASSUME StickInv, Twins, NEW s \in Sessions, StoreAlias(s)
    PROVE  Twins'
  <1> USE Actor DEF StickInv
  <1> DEFINE k == Alias(key[s])
  <1>1. /\ Writes(s, k, copy[s]) /\ key[s] \in Keys /\ k \in Keys
        /\ pc[s] = "alias" /\ pc'[s] = "over"
        /\ UNCHANGED <<left, cache, split>>
    BY StoreAliasEffect
  <1>2. Others(s) /\ k \notin Names
    BY <1>1, Key DEF Writes
  <1>3. \A x : x # k => (At(s, x)' <=> At(s, x))
    BY <1>1 DEF At
  <1>4. Between'
    BY <1>1, <1>2, Key, BetweenQuiet DEF Twins, Writes
  <1>5. Twice'
    BY <1>1, <1>2, <1>3, TwiceSession DEF Twins, Writes, Quiet
  <1>6. Agreed'
    <2> SUFFICES ASSUME job'[Rehash] = "none", NEW n \in Paired',
                        ~\E o \in Sessions : At(o, PagerOf[n])'
                 PROVE  \/ db'[n] = NoRecord \/ db'[PagerOf[n]] = NoRecord
                        \/ db'[PagerOf[n]] = db'[n]
      BY DEF Agreed
    <2>1. n \in Paired /\ job[Rehash] = "none"
      BY <1>1, <1>2, FewerPaired DEF Others
    <2>2. db'[n] = db[n]
      BY <1>1, <1>2, <2>1, PairedUser DEF Writes
    <2>3. CASE PagerOf[n] = k
      <3>1. copy[s] = db[n] \/ db[n] = NoRecord
        BY <1>1, <2>1, <2>3 DEF Twins, Between, At
      <3> QED BY <1>1, <2>2, <2>3, <3>1 DEF Writes
    <2>4. CASE PagerOf[n] # k
      <3>1. ~\E o \in Sessions : At(o, PagerOf[n])
        BY <1>2, <1>3, <2>4 DEF At, Others
      <3>2. db'[PagerOf[n]] = db[PagerOf[n]]
        BY <1>1, <2>1, <2>4, PairedUser DEF Writes
      <3> QED BY <2>1, <2>2, <3>1, <3>2 DEF Twins, Agreed
    <2> QED BY <2>3, <2>4
  <1> QED BY <1>4, <1>5, <1>6 DEF Twins

\* rehash takes the passwords down as they are,
LEMMA CachingTwins ==
    ASSUME StickInv, Twins, StartRehash \/ \E k \in Keys : CachePassword(k)
    PROVE  Twins'
  <1> USE Actor DEF StickInv
  <1>1. /\ Others(Rehash) /\ UNCHANGED <<db, during, split, job>>
        /\ pc[Rehash] \in {"idle", "caching"} /\ pc'[Rehash] = "caching"
    BY StartRehashEffect, CacheEffect DEF Others
  <1>2. job[Rehash] = "none"
    BY <1>1 DEF Control
  <1>3. Between'
    BY <1>1, BetweenQuiet DEF Twins
  <1>4. Agreed'
    <2>1. Paired' \subseteq Paired
      BY <1>1, FewerPaired
    <2>2. \A o \in Sessions : \A x : At(o, x)' <=> At(o, x)
      BY <1>1 DEF At, Others
    <2> QED BY <1>1, <1>2, <2>1, <2>2 DEF Twins, Agreed
  <1>5. Kept'
    <2>1. CASE StartRehash
      <3>1. /\ UNCHANGED <<db, cache, during>> /\ pc[Rehash] = "idle" /\ left' = Present
        BY <2>1, StartRehashEffect
      <3> QED BY <3>1 DEF Control, Kept, Present
    <2>2. ASSUME NEW k \in Keys, CachePassword(k) PROVE Kept'
      <3>1. /\ UNCHANGED <<db, pc, during>>
            /\ pc[Rehash] = "caching" /\ k \in left /\ left' = left \ {k}
            /\ db[k] # NoRecord => cache'[k] = db[k]
            /\ \A q \in Keys \ {k} : cache'[q] = cache[q]
        BY <2>2, CacheEffect
      <3> QED BY <3>1 DEF Twins, Twice, Kept
    <2> QED BY <2>1, <2>2
  <1>6. KeptTwice' /\ ParsedTwice' /\ RestoredTwice'
    BY <1>1, <1>2 DEF KeptTwice, ParsedTwice, RestoredTwice
  <1> QED BY <1>3, <1>4, <1>5, <1>6 DEF Twins, Twice

\* empties the database,
LEMMA EraseTwins ==
    ASSUME StickInv, Twins, Erase
    PROVE  Twins'
  <1> USE Actor DEF StickInv
  <1>1. /\ Others(Rehash) /\ UNCHANGED <<cache, split>>
        /\ pc[Rehash] = "caching" /\ pc'[Rehash] = "parse" /\ job'[Rehash] = "parse"
        /\ left' = InFile /\ \A k \in Keys : db'[k] = NoRecord
        /\ during' = during
    BY EraseEffect
  <1>2. job[Rehash] = "none"
    BY <1>1 DEF Control
  <1>3. Between'
    BY <1>1, Key, BetweenQuiet DEF Twins
  <1>4. Quiet' \subseteq Quiet
    BY <1>1, FewerQuiet
  <1>5. KeptTwice'
    <2> SUFFICES ASSUME NEW n \in Quiet', cache[n] # NoRecord, cache[PagerOf[n]] # NoRecord,
                        ~\E s \in Sessions : At(s, PagerOf[n])'
                 PROVE  cache[n].pw = cache[PagerOf[n]].pw
      BY <1>1, <1>4, QuietUser DEF KeptTwice
    <2>1. n \in Quiet /\ n \in Paired /\ ~\E s \in Sessions : At(s, PagerOf[n])
      BY <1>1, <1>4, QuietUser DEF At, Others
    <2>2. /\ n \in Keys \ during /\ PagerOf[n] \in Keys \ during
      BY <2>1, QuietUser, PairedUser
    <2>3. cache[n] = db[n] /\ cache[PagerOf[n]] = db[PagerOf[n]]
      BY <1>1, <2>2 DEF Twins, Twice, Kept
    <2> QED BY <1>2, <2>1, <2>3 DEF Twins, Agreed
  <1>6. Agreed' /\ Kept' /\ RestoredTwice'
    BY <1>1 DEF Agreed, Kept, RestoredTwice
  <1>7. ParsedTwice'
    BY <1>1, <1>4, QuietUser DEF ParsedTwice
  <1> QED BY <1>3, <1>5, <1>6, <1>7 DEF Twins, Twice

\* stores the records of the file, and shows a session between its two stores,
LEMMA ParseTwins ==
    ASSUME ReverseHash, StickInv, Twins, NEW m \in Names, Parse(m)
    PROVE  Twins'
  <1> USE Actor DEF StickInv
  <1>1. /\ Stored(Rehash, m, Plain)
        /\ pc[Rehash] = "parse" /\ job[Rehash] = "parse" /\ job'[Rehash] = "parse"
        /\ m \in left /\ left' = left \ {m} /\ UNCHANGED cache
    BY ParseEffect
  <1>2. /\ Writes(Rehash, m, Plain) /\ Others(Rehash) /\ split' = split \cup Parted(Rehash, m)
        /\ pc'[Rehash] = "alias" /\ key'[Rehash] = m /\ copy'[Rehash] = Plain
        /\ during' = during /\ m \in Keys
    BY <1>1, Key DEF Stored, Writes
  <1>3. Between'
    BY <1>1, <1>2, BetweenStore, Fields DEF Twins
  <1>4. Quiet' \subseteq Quiet
    BY <1>2, FewerQuiet
  <1>5. \A s \in Sessions : \A x : At(s, x)' <=> At(s, x)
    BY <1>2 DEF At, Others
  <1>6. KeptTwice'
    <2> SUFFICES ASSUME NEW n \in Quiet'
                 PROVE  LET late == \E s \in Sessions : At(s, PagerOf[n])
                        IN  /\ late => n \in left'
                            /\ cache[n] # NoRecord /\ cache[PagerOf[n]] # NoRecord /\ ~late
                                  => cache[n].pw = cache[PagerOf[n]].pw
      BY <1>1, <1>5 DEF KeptTwice
    <2>1. m = n => ~\E s \in Sessions : At(s, PagerOf[n])
      <3>1. PagerOf[n] \notin split' /\ PagerOf[n] \in Numbers /\ Alias(n) = PagerOf[n]
        BY <1>4, QuietUser, PairedUser DEF Quiet, Paired
      <3> QED BY <1>2, <3>1 DEF Parted, At
    <2> QED BY <1>1, <1>4, <2>1 DEF Twins, Twice, KeptTwice
  <1>7. ParsedTwice'
    <2> SUFFICES ASSUME NEW n \in Quiet', n \notin left', m # n
                 PROVE  db'[PagerOf[n]] = Plain
      BY <1>1, <1>2 DEF ParsedTwice
    <2>1. n \in Quiet /\ PagerOf[n] \in Keys /\ PagerOf[n] # m
      BY <1>4, QuietUser, PairedUser
    <2>2. db[PagerOf[n]] = Plain
      BY <1>1, <2>1 DEF Twins, Twice, ParsedTwice
    <2> QED BY <1>2, <2>1, <2>2 DEF Writes
  <1>8. Agreed' /\ Kept' /\ RestoredTwice'
    BY <1>1, <1>2 DEF Agreed, Kept, RestoredTwice
  <1> QED BY <1>3, <1>6, <1>7, <1>8 DEF Twins, Twice

\* twice,
LEMMA RehashSecondTwins ==
    ASSUME StickInv, Twins, StoreAlias(Rehash)
    PROVE  Twins'
  <1> USE Actor DEF StickInv
  <1> DEFINE k == Alias(key[Rehash])
  <1>1. /\ Writes(Rehash, k, copy[Rehash]) /\ key[Rehash] \in Keys /\ k \in Keys
        /\ pc[Rehash] = "alias" /\ pc'[Rehash] = job[Rehash] /\ job'[Rehash] = job[Rehash]
        /\ UNCHANGED <<left, cache, split>>
    BY StoreAliasEffect
  <1>2. Others(Rehash) /\ k \notin Names /\ during' = during
    BY <1>1, Key DEF Writes
  <1>3. job[Rehash] \in {"parse", "restore"}
    BY <1>1 DEF Control
  <1>4. Between'
    BY <1>1, <1>2, <1>3, Key, BetweenQuiet DEF Twins, Writes
  <1>5. Quiet' \subseteq Quiet
    BY <1>1, <1>2, FewerQuiet
  <1>6. \A s \in Sessions : \A x : At(s, x)' <=> At(s, x)
    BY <1>2 DEF At, Others
  <1>7. KeptTwice'
    BY <1>1, <1>5, <1>6 DEF Twins, Twice, KeptTwice
  <1>8. \A n \in Quiet' : /\ n \in Quiet /\ n \in Names /\ Alone(n) /\ PagerOf[n] \in Keys
                          /\ Alias(n) = PagerOf[n] /\ Alias(PagerOf[n]) = PagerOf[n]
                          /\ k = PagerOf[n] => key[Rehash] \in {n, PagerOf[n]}
    BY <1>1, <1>5, QuietUser, PairedUser, SameAlias
  <1>9. ParsedTwice'
    <2> SUFFICES ASSUME job[Rehash] = "parse", NEW n \in Quiet', n \notin left
                 PROVE  db'[PagerOf[n]] = Plain
      BY <1>1 DEF ParsedTwice
    <2>1. copy[Rehash] = Plain
      BY <1>1 DEF Twins, Twice, ParsedTwice
    <2>2. CASE k = PagerOf[n]
      BY <1>1, <2>1, <2>2 DEF Writes
    <2>3. CASE k # PagerOf[n]
      <3>1. key[Rehash] # n
        BY <1>8, <2>3
      <3>2. db[PagerOf[n]] = Plain
        BY <1>8, <3>1 DEF Twins, Twice, ParsedTwice
      <3> QED BY <1>1, <1>8, <2>3, <3>2 DEF Writes
    <2> QED BY <2>2, <2>3
  <1>10. RestoredTwice'
    <2> SUFFICES ASSUME job[Rehash] = "restore", NEW n \in Quiet'
                 PROVE  LET x == PagerOf[n] IN
                          /\ \/ db'[x] = Plain
                             \/ \E q \in {n, x} : cache[q] # NoRecord /\ db'[x] = Again(q)
                          /\ cache[n] # NoRecord /\ n \notin left => db'[x] = Again(n)
      BY <1>1 DEF RestoredTwice, Again
    <2>1. CASE k = PagerOf[n]
      <3>1. key[Rehash] \in {n, PagerOf[n]} /\ db'[PagerOf[n]] = copy[Rehash]
        BY <1>1, <1>8, <2>1 DEF Writes
      <3>2. copy[Rehash] = Again(key[Rehash]) /\ cache[key[Rehash]] # NoRecord
        BY <1>1, <1>8, <3>1 DEF Twins, Twice, RestoredTwice
      <3>3. cache[n] # NoRecord => Again(key[Rehash]) = Again(n)
        BY <1>8, <3>1, <3>2 DEF Twins, Twice, KeptTwice, Again
      <3> QED BY <3>1, <3>2, <3>3
    <2>2. CASE k # PagerOf[n]
      <3>1. key[Rehash] # n /\ db'[PagerOf[n]] = db[PagerOf[n]]
        BY <1>1, <1>8, <2>2 DEF Writes
      <3> QED BY <1>8, <3>1 DEF Twins, Twice, RestoredTwice
    <2> QED BY <2>1, <2>2
  <1>11. Agreed' /\ Kept'
    BY <1>1, <1>3 DEF Agreed, Kept
  <1> QED BY <1>4, <1>7, <1>9, <1>10, <1>11 DEF Twins, Twice

\* and then puts the passwords back.
LEMMA StartRestoreTwins ==
    ASSUME StickInv, Twins, StartRestore
    PROVE  Twins'
  <1> USE Actor DEF StickInv
  <1>1. /\ Others(Rehash)
        /\ UNCHANGED <<db, key, copy, cache, during, split>>
        /\ pc[Rehash] = "parse" /\ left = {}
        /\ pc'[Rehash] = "restore" /\ job'[Rehash] = "restore"
        /\ left' = {k \in Present : cache[k] # NoRecord}
    BY StartRestoreEffect
  <1>2. job[Rehash] = "parse"
    BY <1>1 DEF Control
  <1>3. Between'
    BY <1>1, BetweenQuiet DEF Twins
  <1>4. Quiet' \subseteq Quiet
    BY <1>1, FewerQuiet
  <1>5. \A s \in Sessions : \A x : At(s, x)' <=> At(s, x)
    BY <1>1 DEF At, Others
  <1>6. KeptTwice'
    BY <1>1, <1>2, <1>4, <1>5 DEF Twins, Twice, KeptTwice
  <1>7. RestoredTwice'
    <2> SUFFICES ASSUME NEW n \in Quiet'
                 PROVE  db[PagerOf[n]] = Plain /\ (cache[n] # NoRecord => n \in left')
      BY <1>1 DEF RestoredTwice
    <2>1. n \in Quiet /\ n \in Keys /\ n \in Names \ during /\ n \in InFile
      BY <1>4, QuietUser, PairedUser
    <2>2. db[PagerOf[n]] = Plain
      BY <1>1, <1>2, <2>1 DEF Twins, Twice, ParsedTwice
    <2>3. db[n] = Plain /\ Plain # NoRecord
      BY <1>1, <1>2, <2>1, Fields DEF Parsed
    <2> QED BY <1>1, <2>1, <2>2, <2>3 DEF Present
  <1>8. Agreed' /\ Kept' /\ ParsedTwice'
    BY <1>1 DEF Agreed, Kept, ParsedTwice
  <1> QED BY <1>3, <1>6, <1>7, <1>8 DEF Twins, Twice

LEMMA RestoreTwins ==
    ASSUME StickInv, Twins, NEW k \in Keys, Restore(k)
    PROVE  Twins'
  <1> USE Actor DEF StickInv
  <1>1. /\ Others(Rehash)
        /\ UNCHANGED <<db, job, cache, during, split>>
        /\ pc[Rehash] = "restore" /\ job[Rehash] = "restore"
        /\ k \in left /\ left' = left \ {k} /\ cache[k] \in Record
        /\ pc'[Rehash] = "restoring"
        /\ key'[Rehash] = IF db[k] = NoRecord THEN Blank ELSE k
        /\ copy'[Rehash] = [pw |-> cache[k].pw,
                            hours |-> IF db[k] = NoRecord THEN Given ELSE db[k].hours]
    BY RestoreEffect
  <1>2. Between'
    BY <1>1, BetweenQuiet DEF Twins
  <1>3. Quiet' \subseteq Quiet
    BY <1>1, FewerQuiet
  <1>4. \A s \in Sessions : \A x : At(s, x)' <=> At(s, x)
    BY <1>1 DEF At, Others
  <1>5. KeptTwice'
    BY <1>1, <1>3, <1>4 DEF Twins, Twice, KeptTwice
  <1>6. RestoredTwice'
    <2> SUFFICES ASSUME NEW n \in Quiet'
                 PROVE  LET x == PagerOf[n] IN
                          /\ \/ db[x] = Plain
                             \/ \E q \in {n, x} : cache[q] # NoRecord /\ db[x] = Again(q)
                          /\ key'[Rehash] \in {n, x}
                                => copy'[Rehash] = Again(key'[Rehash])
                                   /\ cache[key'[Rehash]] # NoRecord
                          /\ cache[n] # NoRecord /\ n \notin left' /\ key'[Rehash] # n
                                => db[x] = Again(n)
      BY <1>1 DEF RestoredTwice, Again
    <2> DEFINE x == PagerOf[n]
    <2>1. /\ n \in Quiet /\ n \in Names \ during /\ n \in InFile
          /\ n # Blank /\ x # Blank /\ x # n
      BY <1>3, QuietUser, PairedUser
    <2>2. /\ \/ db[x] = Plain
             \/ \E q \in {n, x} : cache[q] # NoRecord /\ db[x] = Again(q)
          /\ cache[n] # NoRecord /\ n \notin left => db[x] = Again(n)
      BY <1>1, <2>1 DEF Twins, Twice, RestoredTwice
    <2>3. k = n => db[n] = Plain /\ Plain # NoRecord
      BY <1>1, <2>1, Fields DEF Restored
    <2>4. db[x].hours = Given
      BY <2>2, Fields DEF Again
    <2>5. key'[Rehash] \in {n, x} => copy'[Rehash] = Again(key'[Rehash])
                                     /\ cache[key'[Rehash]] # NoRecord
      <3> SUFFICES ASSUME key'[Rehash] \in {n, x}
                   PROVE  copy'[Rehash] = Again(key'[Rehash]) /\ cache[key'[Rehash]] # NoRecord
        OBVIOUS
      <3>1. key'[Rehash] = k /\ db[k] # NoRecord /\ k \in {n, x}
        BY <1>1, <2>1
      <3>2. db[k].hours = Given
        BY <2>3, <2>4, <3>1, Fields
      <3> QED BY <1>1, <3>1, <3>2, Fields DEF Again
    <2>6. cache[n] # NoRecord /\ n \notin left' /\ key'[Rehash] # n => db[x] = Again(n)
      BY <1>1, <2>2, <2>3
    <2> QED BY <2>2, <2>5, <2>6
  <1>7. Agreed' /\ Kept' /\ ParsedTwice'
    BY <1>1 DEF Agreed, Kept, ParsedTwice
  <1> QED BY <1>2, <1>5, <1>6, <1>7 DEF Twins, Twice

LEMMA StoreRestoredTwins ==
    ASSUME ReverseHash, StickInv, Twins, StoreRestored
    PROVE  Twins'
  <1> USE Actor DEF StickInv
  <1> DEFINE k == key[Rehash]
  <1>1. /\ Stored(Rehash, k, copy[Rehash]) /\ k \in Keys /\ copy[Rehash] \in Record
        /\ pc[Rehash] = "restoring" /\ job[Rehash] = "restore" /\ job'[Rehash] = "restore"
        /\ UNCHANGED <<left, cache>>
    BY StoreRestoredEffect
  <1>2. /\ Writes(Rehash, k, copy[Rehash]) /\ Others(Rehash) /\ split \subseteq split'
        /\ pc'[Rehash] = "alias" /\ key'[Rehash] = k /\ copy'[Rehash] = copy[Rehash]
        /\ during' = during
    BY <1>1 DEF Stored, Writes
  <1>3. Between'
    BY <1>1, BetweenStore DEF Twins
  <1>4. Quiet' \subseteq Quiet
    BY <1>2, FewerQuiet
  <1>5. \A s \in Sessions : \A x : At(s, x)' <=> At(s, x)
    BY <1>2 DEF At, Others
  <1>6. KeptTwice'
    BY <1>1, <1>4, <1>5 DEF Twins, Twice, KeptTwice
  <1>7. RestoredTwice'
    <2> SUFFICES ASSUME NEW n \in Quiet'
                 PROVE  LET x == PagerOf[n] IN
                          /\ \/ db'[x] = Plain
                             \/ \E q \in {n, x} : cache[q] # NoRecord /\ db'[x] = Again(q)
                          /\ k \in {n, x} => copy[Rehash] = Again(k) /\ cache[k] # NoRecord
                          /\ cache[n] # NoRecord /\ n \notin left /\ k # n => db'[x] = Again(n)
      BY <1>1, <1>2 DEF RestoredTwice, Again
    <2> DEFINE x == PagerOf[n]
    <2>1. n \in Quiet /\ x \in Keys
      BY <1>4, QuietUser, PairedUser
    <2>2. /\ \/ db[x] = Plain
             \/ \E q \in {n, x} : cache[q] # NoRecord /\ db[x] = Again(q)
          /\ k \in {n, x} => copy[Rehash] = Again(k) /\ cache[k] # NoRecord
          /\ cache[n] # NoRecord /\ n \notin left /\ k # n => db[x] = Again(n)
      BY <1>1, <2>1 DEF Twins, Twice, RestoredTwice
    <2>3. CASE k = x
      <3>1. db'[x] = Again(x) /\ cache[x] # NoRecord
        BY <1>2, <2>1, <2>2, <2>3 DEF Writes
      <3>2. cache[n] # NoRecord => Again(x) = Again(n)
        BY <1>1, <2>1, <3>1 DEF Twins, Twice, KeptTwice, Again
      <3> QED BY <2>2, <3>1, <3>2
    <2>4. CASE k # x
      <3>1. db'[x] = db[x]
        BY <1>2, <2>1, <2>4 DEF Writes
      <3> QED BY <2>2, <3>1
    <2> QED BY <2>3, <2>4
  <1>8. Agreed' /\ Kept' /\ ParsedTwice'
    BY <1>1, <1>2 DEF Agreed, Kept, ParsedTwice
  <1> QED BY <1>3, <1>6, <1>7, <1>8 DEF Twins, Twice

\* When it ends, the records of a user whom nobody else wrote are the same.
LEMMA OverTwins ==
    ASSUME StickInv, Twins, EndRehash \/ KillRehash
    PROVE  Twins'
  <1> USE Actor DEF StickInv
  <1>1. /\ Others(Rehash) /\ UNCHANGED db
        /\ pc'[Rehash] = "over" /\ job'[Rehash] = "none"
    BY OverEffect
  <1>2. split \subseteq split'
    BY DEF EndRehash, KillRehash
  <1>3. Between'
    BY <1>1, <1>2, BetweenQuiet DEF Twins
  <1>4. Agreed'
    <2> SUFFICES ASSUME NEW n \in Paired', db[n] # NoRecord
                 PROVE  db[PagerOf[n]] = db[n]
      BY <1>1 DEF Agreed
    <2> DEFINE x == PagerOf[n]
    <2>1. /\ n \in Paired /\ n \in Names /\ n \in Keys /\ x \in Numbers /\ x \in Keys
          /\ Alias(n) = x /\ Alias(x) = x /\ x \notin split'
      BY <1>2, FewerPaired, PairedUser DEF Paired
    <2>2. EndRehash
      BY <2>1 DEF KillRehash
    <2>3. /\ pc[Rehash] = "restore" /\ left = {} /\ job[Rehash] = "restore"
          /\ n \notin during /\ x \notin during
          /\ ~(cache[x] # NoRecord /\ cache[n] = NoRecord)
      BY <2>1, <2>2 DEF EndRehash, Control
    <2>4. n \in InFile /\ db[n] = IF cache[n] = NoRecord THEN Plain ELSE Again(n)
      BY <2>1, <2>3 DEF Restored
    <2>5. n \in Quiet
      BY <2>1, <2>3, <2>4 DEF Quiet
    <2>6. /\ db[x] = Plain \/ \E q \in {n, x} : cache[q] # NoRecord /\ db[x] = Again(q)
          /\ cache[n] # NoRecord => db[x] = Again(n)
      BY <2>3, <2>5 DEF Twins, Twice, RestoredTwice
    <2> QED BY <2>3, <2>4, <2>6
  <1>5. Kept' /\ KeptTwice' /\ ParsedTwice' /\ RestoredTwice'
    BY <1>1 DEF Kept, KeptTwice, ParsedTwice, RestoredTwice
  <1> QED BY <1>3, <1>4, <1>5 DEF Twins, Twice

LEMMA AliasStep == StickInv /\ AliasInv /\ [Next]_vars => AliasInv'
  <1> SUFFICES ASSUME StickInv, Twins, ReverseHash, [Next]_vars PROVE Twins'
    BY DEF AliasInv, Twins, Twice
  <1>1. CASE UNCHANGED vars
    BY <1>1 DEF vars, rehash, history, Twins, Twice, Between, Agreed, Kept, KeptTwice,
                ParsedTwice, RestoredTwice, Quiet, Paired, At, Again
  <1>2. ASSUME NEW s \in Sessions, SessionStep(s) PROVE Twins'
    BY <1>2, AskTwins, StoreTwins, DeleteTwins DEF SessionStep
  <1>3. CASE RehashStep
    BY <1>3, CachingTwins, EraseTwins, ParseTwins, StartRestoreTwins, RestoreTwins,
       StoreRestoredTwins, OverTwins DEF RehashStep
  <1>4. ASSUME NEW a \in Actors, StoreAlias(a) PROVE Twins'
    BY <1>4, Actor, SecondTwins, RehashSecondTwins
  <1> QED BY <1>1, <1>2, <1>3, <1>4 DEF Next

LEMMA AliasInit == Init => AliasInv
  <1> SUFFICES ASSUME Init, ReverseHash PROVE Twins
    BY DEF AliasInv, Twins, Twice
  <1>1. \A a \in Actors : \A x : ~At(a, x)
    BY DEF Init, At
  <1>2. Between
    BY <1>1, Actor DEF Between
  <1>3. Agreed
    <2> SUFFICES ASSUME NEW n \in Paired, db[n] # NoRecord PROVE db[PagerOf[n]] = db[n]
      BY DEF Agreed
    <2>1. n \in Keys /\ n \in Names /\ PagerOf[n] \in Keys /\ n \notin Numbers
      BY Key, PairedUser
    <2>2. n \in InFile
      BY <2>1, Key DEF Init
    <2> QED BY <2>1, <2>2 DEF Init
  <1>4. Kept /\ KeptTwice /\ ParsedTwice /\ RestoredTwice
    BY Actor DEF Init, Kept, KeptTwice, ParsedTwice, RestoredTwice
  <1> QED BY <1>2, <1>3, <1>4 DEF Twins, Twice

(* dbm_storeuser with userdbrhash: the record found under a pager id is that   *)
(* of the user, unless a session changed it through the pager id, two actors   *)
(* were between their two stores at once, or one of them was killed there.     *)
THEOREM PagerFindsItsUser == Spec => []AliasAgrees
  <1>1. Init => StickInv /\ AliasInv
    BY StickInit, AliasInit
  <1>2. StickInv /\ AliasInv /\ [Next]_vars => StickInv' /\ AliasInv'
    BY AliasStep, Types, ControlStep, HeldStep, LedgerStep DEF StickInv, Ledger
  <1>3. StickInv /\ AliasInv => AliasAgrees
    <2> SUFFICES ASSUME StickInv, AliasInv, NEW n \in Names, ReverseHash, ~Running,
                        PagerOf[n] \notin split,
                        db[n] # NoRecord, db[PagerOf[n]] # NoRecord,
                        \A a \in Actors : pc[a] = "alias" => Alias(key[a]) # PagerOf[n],
                        \A m \in Names \ {n} : PagerOf[m] # PagerOf[n]
                 PROVE  db[PagerOf[n]] = db[n]
      BY DEF AliasAgrees
    <2>1. n \in Paired
      BY DEF Paired, Alone
    <2>2. job[Rehash] = "none"
      BY DEF StickInv, Control, Running
    <2>3. ~\E s \in Sessions : At(s, PagerOf[n])
      BY Actor DEF At
    <2> QED BY <2>1, <2>2, <2>3 DEF AliasInv, Agreed
  <1> QED BY <1>1, <1>2, <1>3, PTL DEF Spec
=============================================================================
