----------------------------- MODULE PageQueue -----------------------------
(***************************************************************************)
(* The spool directory of pageserv and every process that touches it.      *)
(*                                                                         *)
(* A page is a file q<pid><name> written by the connection's child         *)
(* (storequeue).  Queue runners (runqueue, forked by the delivery daemon   *)
(* or started by hand) list a terminal's pages, put a lock file l... next  *)
(* to each, dial the terminal and transmit.  The delivery daemon and       *)
(* "pageserv -p" run readyqueue, which expires old pages.  SNPP users may  *)
(* DEQUE their pages and a "farkle" client takes the first page of all.    *)
(* Nothing but the file system is shared, and no step below is atomic      *)
(* with the next: the gaps are where the code can go wrong.                *)
(*                                                                         *)
(* Abstractions: a page's name, text and recipient are its identity; the   *)
(* clock is the phase of each page (held, ready, old), see PageTimes for   *)
(* the arithmetic; a process is its slot, and a pid that no running        *)
(* process has is "dead" (pids are not reused while a lock of theirs       *)
(* lies around).                                                           *)
(***************************************************************************)
EXTENDS Integers, Sequences, FiniteSets

CONSTANTS
    Pages,        \* the queue files that will ever be created
    Runners,      \* process slots that execute runqueue()
    Checkers,     \* processes that execute readyqueue(): deliveryd, pageserv -p
    Farklers,     \* protocol children that execute dofarkle()
    Held,         \* pages submitted with HOLDUntil, a time still to come
    Owned,        \* pages whose owner logs in over SNPP and may DEQUE them
    TermList,     \* conf.tdb.list(): the terminals in the order runqueue takes them
    Station,      \* Station[m]: the recipient's statid, maybe no known terminal
    Priority,     \* Priority[m]: PR_HIGH = 5 sorts before PR_NORMAL = 10
    Stamp,        \* Stamp[m]: the submission second written by storequeue
    Child,        \* Child[c]: the runner slot the checker forks, or NoChild
    LockCanFail,  \* may the fopen of q_lock fail?
    DiskMayFill,  \* may the fprintf and fclose of storequeue fail?
    MaxDeaths,    \* bound: runners that die without their signal handler
    NoPage, NoChild

Procs == Runners \cup Checkers \cup Farklers

ASSUME SlotAssumption ==
    /\ Runners \cap Checkers = {}
    /\ Runners \cap Farklers = {}
    /\ Checkers \cap Farklers = {}
    /\ Child \in [Checkers -> Runners \cup {NoChild}]
    /\ NoChild \notin Runners
    /\ Runners \cap {"free", "unwritten", "dead"} = {}

ASSUME DataAssumption ==
    /\ NoPage \notin Pages
    /\ Held \subseteq Pages
    /\ Owned \subseteq Pages
    /\ TermList \in Seq(STRING) /\ Len(TermList) > 0
    /\ Station \in [Pages -> STRING]
    /\ Priority \in [Pages -> Nat]
    /\ Stamp \in [Pages -> Nat]
    /\ LockCanFail \in BOOLEAN /\ DiskMayFill \in BOOLEAN
    /\ MaxDeaths \in Nat

VARIABLES
    file,      \* file[m]: the queue file
    accepted,  \* pages whose sender was told "Queued"
    lock,      \* lock[m]: the pid read from the lock file, if there is one
    writers,   \* writers[m]: runners that opened this lock file and did not close it
    age,       \* age[m]: what readytodeliver makes of the clock
    pc,        \* where each process is
    todo,      \* names a process still has to read from an open directory
    list,      \* the array of listqueue, what is left of it
    cur,       \* the page a runner is locking or has just transmitted
    res,       \* what s_tap_send returned for cur
    term,      \* index of the terminal a runner works on
    online,    \* is the runner inside a TAP session?
    first,     \* i == 0: no page of this list was transmitted yet
    mine,      \* cleanmylocks: did the last pid read equal our own?
    ready,     \* readyqueue: has a page been counted?
    asked,     \* pages a user's DEQUE has read and is about to remove
    \* History, read by the properties only
    fate,      \* why the queue file went away
    aired,     \* pages that went out over the line at least once
    acked,     \* pages the terminal acknowledged at least once
    cut,       \* ... and whose runner was stopped before it could dequeue them
    told,      \* pages whose owner was told "(page not sent)"
    clash,     \* pages whose lock was not taken cleanly or was stolen
    deaths,    \* runners that died without cleanmylocks
    torn       \* did a signal land inside q_lock?

disk  == <<file, accepted, lock, writers>>
run   == <<cur, res, term, online, first, mine>>
hist  == <<fate, aired, acked, cut, told, clash, deaths, torn>>
vars  == <<disk, age, pc, todo, list, run, ready, asked, hist>>

FileStates == {"absent", "partial", "full", "gone"}
Answers    == {"ack", "eof", "rs", "nak"}
NoAnswer   == "none"
Fates      == {"none", "delivered", "probably", "failed", "expired",
               "user", "farkled", "swept"}
RunnerPCs  == {"off", "list", "read", "lock", "lockwrite", "open", "init",
               "send", "settle", "hangup", "clean"}
OtherPCs   == {"off", "list", "check", "wait"}

TypeOK ==
    /\ file \in [Pages -> FileStates]
    /\ accepted \subseteq Pages
    /\ lock \in [Pages -> Runners \cup {"free", "unwritten", "dead"}]
    /\ writers \in [Pages -> SUBSET Runners]
    /\ age \in [Pages -> {"held", "ready", "old"}]
    /\ pc \in [Procs -> RunnerPCs \cup OtherPCs]
    /\ \A r \in Runners : pc[r] \in RunnerPCs
    /\ \A p \in Procs \ Runners : pc[p] \in OtherPCs
    /\ todo \in [Procs -> SUBSET Pages]
    /\ list \in [Procs -> SUBSET Pages]
    /\ cur \in [Runners -> Pages \cup {NoPage}]
    /\ \A r \in Runners : pc[r] \in {"read", "lock", "lockwrite", "settle"} => cur[r] \in Pages
    /\ res \in [Runners -> Answers \cup {NoAnswer}]
    /\ \A r \in Runners : pc[r] = "settle" => res[r] \in Answers
    /\ term \in [Runners -> 1..Len(TermList)]
    /\ online \in [Runners -> BOOLEAN]
    /\ first \in [Runners -> BOOLEAN]
    /\ mine \in [Runners -> BOOLEAN]
    /\ ready \in [Checkers -> BOOLEAN]
    /\ asked \subseteq Pages
    /\ fate \in [Pages -> Fates]
    /\ aired \subseteq Pages
    /\ acked \subseteq Pages
    /\ cut \subseteq Pages
    /\ told \subseteq Pages
    /\ clash \subseteq Pages
    /\ deaths \in Nat
    /\ torn \in BOOLEAN

Init ==
    /\ file = [m \in Pages |-> "absent"]
    /\ accepted = {}
    /\ lock = [m \in Pages |-> "free"]
    /\ writers = [m \in Pages |-> {}]
    /\ age = [m \in Pages |-> IF m \in Held THEN "held" ELSE "ready"]
    /\ pc = [p \in Procs |-> "off"]
    /\ todo = [p \in Procs |-> {}]
    /\ list = [p \in Procs |-> {}]
    /\ cur = [r \in Runners |-> NoPage]
    /\ res = [r \in Runners |-> NoAnswer]
    /\ term = [r \in Runners |-> 1]
    /\ online = [r \in Runners |-> FALSE]
    /\ first = [r \in Runners |-> FALSE]
    /\ mine = [r \in Runners |-> FALSE]
    /\ ready = [c \in Checkers |-> FALSE]
    /\ asked = {}
    /\ fate = [m \in Pages |-> "none"]
    /\ aired = {}
    /\ acked = {}
    /\ cut = {}
    /\ told = {}
    /\ clash = {}
    /\ deaths = 0
    /\ torn = FALSE

-----------------------------------------------------------------------------
(* Helpers *)

Present(m) == file[m] \in {"partial", "full"}
Spool      == {m \in Pages : Present(m)}

\* queuecompare: does m sort before n?
QueueCompare(m, n) ==
    IF Priority[m] # Priority[n] THEN Priority[m] < Priority[n]
                                 ELSE Stamp[m] < Stamp[n]

\* An element queuesort may put at the front of S.
Foremost(m, S) == m \in S /\ \A n \in S : ~QueueCompare(n, m)

Running(r) == pc[r] # "off"

\* p has the spool directory open in listqueue.
Scanning(p) == pc[p] \in {"list", "read", "lock", "lockwrite"}

\* unlink of the lock file: whoever still has it open writes to a deleted file.
Unlock(m) ==
    /\ lock' = [lock EXCEPT ![m] = "free"]
    /\ writers' = [writers EXCEPT ![m] = {}]

\* dequeue: unlink the queue file, then its lock, whoever holds it.
Dequeue(m, why) ==
    /\ file' = [file EXCEPT ![m] = "gone"]
    /\ fate' = [fate EXCEPT ![m] = IF Present(m) THEN why ELSE @]
    /\ Unlock(m)

\* opendir of the spool directory by p.
OpenSpool(p) == todo' = [todo EXCEPT ![p] = Spool]

\* What is left of runner r when its process is gone: locks with a dead pid.
LeaveLocks(r) ==
    /\ lock' = [m \in Pages |-> IF lock[m] = r THEN "dead" ELSE lock[m]]
    /\ writers' = [m \in Pages |-> writers[m] \ {r}]

\* The locals of the loop over one list are dead.
Forget(r) ==
    /\ list' = [list EXCEPT ![r] = {}]
    /\ cur' = [cur EXCEPT ![r] = NoPage]
    /\ res' = [res EXCEPT ![r] = NoAnswer]
    /\ first' = [first EXCEPT ![r] = FALSE]
    /\ online' = [online EXCEPT ![r] = FALSE]

\* Mutant of NextTerminal: runqueue returns without calling cleanmylocks.
NextTerminalUncleaned(r) ==
    /\ Forget(r)
    /\ pc' = [pc EXCEPT ![r] = IF term[r] < Len(TermList) THEN "list" ELSE "off"]
    /\ term' = [term EXCEPT ![r] = IF @ < Len(TermList) THEN @ + 1 ELSE @]
    /\ OpenSpool(r)
    /\ UNCHANGED mine

\* The runner moves on to the next terminal, or is through and cleans up.
NextTerminal(r) ==
    /\ Forget(r)
    /\ IF term[r] < Len(TermList)
         THEN /\ term' = [term EXCEPT ![r] = @ + 1]
              /\ pc' = [pc EXCEPT ![r] = "list"]
              /\ OpenSpool(r)
              /\ UNCHANGED mine
         ELSE /\ pc' = [pc EXCEPT ![r] = "clean"]
              /\ todo' = [todo EXCEPT ![r] = {m \in Pages : lock[m] # "free"}]
              /\ mine' = [mine EXCEPT ![r] = FALSE]
              /\ UNCHANGED term

\* The runner is stopped: has it just had an answer it did not act upon?
CutOff(r) ==
    cut' = IF pc[r] = "settle" /\ res[r] = "ack" THEN cut \cup {cur[r]} ELSE cut

\* Mutant of StartCleaning: only the pages still on the list are unlocked.
StartCleaningListed(r) ==
    /\ pc' = [pc EXCEPT ![r] = "clean"]
    /\ todo' = [todo EXCEPT ![r] = list[r]]
    /\ mine' = [mine EXCEPT ![r] = FALSE]
    /\ Forget(r)

\* The runner enters cleanmylocks.
StartCleaning(r) ==
    /\ pc' = [pc EXCEPT ![r] = "clean"]
    /\ todo' = [todo EXCEPT ![r] = {m \in Pages : lock[m] # "free"}]
    /\ mine' = [mine EXCEPT ![r] = FALSE]
    /\ Forget(r)

-----------------------------------------------------------------------------
(* storequeue: a connection's child stores a page *)

\* fopen: the name appears, empty.  A directory scan that is under way may or
\* may not return it.
StoreOpen(m) ==
    /\ file[m] = "absent"
    /\ file' = [file EXCEPT ![m] = "partial"]
    /\ \E late \in SUBSET {p \in Procs : Scanning(p)} :
          todo' = [p \in Procs |-> IF p \in late THEN todo[p] \cup {m} ELSE todo[p]]
    /\ UNCHANGED <<accepted, lock, writers, age, pc, list, run, ready, asked, hist>>

\* fclose writes the page, and the sender is told it is queued.  If a reader
\* swept the empty file in between, the text goes to a deleted file.  A child
\* that dies before this step leaves the file empty.
StoreClose(m) ==
    /\ m \notin accepted
    /\ file[m] = "partial" \/ fate[m] = "swept"
    /\ file' = [file EXCEPT ![m] = IF @ = "partial" THEN "full" ELSE @]
    /\ accepted' = accepted \cup {m}
    /\ UNCHANGED <<lock, writers, age, pc, todo, list, run, ready, asked, hist>>

\* The disk is full and the file stays empty.  Nobody looks at what fprintf and
\* fclose return: the sender is told it is queued all the same.
StoreUnwritten(m) ==
    /\ DiskMayFill
    /\ m \notin accepted /\ file[m] = "partial"
    /\ accepted' = accepted \cup {m}
    /\ UNCHANGED <<file, lock, writers, age, pc, todo, list, run, ready, asked, hist>>

\* Time passes for one page: its hold runs out, then its lifetime.
Tick(m) ==
    /\ file[m] # "absent" /\ age[m] # "old"
    /\ age' = [age EXCEPT ![m] = IF @ = "held" THEN "ready" ELSE "old"]
    /\ UNCHANGED <<disk, pc, todo, list, run, ready, asked, hist>>

-----------------------------------------------------------------------------
(* listqueue: one directory entry at a time, for a terminal or for "*" *)

\* readqueuefile finds an empty file and removes it as invalid.
ListSweep(p, m) ==
    /\ pc[p] = "list" /\ m \in todo[p] /\ file[m] = "partial"
    /\ todo' = [todo EXCEPT ![p] = @ \ {m}]
    /\ file' = [file EXCEPT ![m] = "gone"]
    /\ fate' = [fate EXCEPT ![m] = "swept"]
    /\ UNCHANGED <<accepted, lock, writers, age, pc, list, run, ready, asked,
                   aired, acked, cut, told, clash, deaths, torn>>

\* The entry is gone again, or the page is for another terminal.
ListSkip(p, m) ==
    /\ pc[p] = "list" /\ m \in todo[p] /\ file[m] # "partial"
    /\ ~Present(m) \/ (p \in Runners /\ Station[m] # TermList[term[p]])
    /\ todo' = [todo EXCEPT ![p] = @ \ {m}]
    /\ UNCHANGED <<disk, age, pc, list, run, ready, asked, hist>>

\* readqueuefile returns a copy.  What becomes of the file while gq_checkit
\* looks at the copy, the runner does not see.
ListRead(r, m) ==
    /\ pc[r] = "list" /\ m \in todo[r] /\ file[m] = "full"
    /\ Station[m] = TermList[term[r]]
    /\ todo' = [todo EXCEPT ![r] = @ \ {m}]
    /\ cur' = [cur EXCEPT ![r] = m]
    /\ pc' = [pc EXCEPT ![r] = "read"]
    /\ UNCHANGED <<disk, age, list, res, term, online, first, mine, ready, asked, hist>>

\* gq_checkit: the page is held, or somebody has locked it.
ListDecline(r) ==
    /\ pc[r] = "read"
    /\ age[cur[r]] = "held" \/ (age[cur[r]] = "ready" /\ lock[cur[r]] # "free")
    /\ cur' = [cur EXCEPT ![r] = NoPage]
    /\ pc' = [pc EXCEPT ![r] = "list"]
    /\ UNCHANGED <<disk, age, todo, list, res, term, online, first, mine, ready, asked, hist>>

\* readytodeliver, called before the lock is looked at, expires the page.
ListExpire(r) ==
    /\ pc[r] = "read" /\ age[cur[r]] = "old"
    /\ Dequeue(cur[r], "expired")
    /\ cur' = [cur EXCEPT ![r] = NoPage]
    /\ pc' = [pc EXCEPT ![r] = "list"]
    /\ UNCHANGED <<accepted, age, todo, list, res, term, online, first, mine, ready, asked,
                   aired, acked, cut, told, clash, deaths, torn>>

\* Mutant of ListPick: q_islocked is not asked.
ListPickUnchecked(r) ==
    /\ pc[r] = "read" /\ age[cur[r]] = "ready"
    /\ pc' = [pc EXCEPT ![r] = "lock"]
    /\ UNCHANGED <<disk, age, todo, list, run, ready, asked, hist>>

\* q_islocked says no: the runner will lock the page.
ListPick(r) ==
    /\ pc[r] = "read" /\ age[cur[r]] = "ready" /\ lock[cur[r]] = "free"
    /\ pc' = [pc EXCEPT ![r] = "lock"]
    /\ UNCHANGED <<disk, age, todo, list, run, ready, asked, hist>>

\* Mutant of ListTake: a file still empty is not recognised as invalid.
ListTakeEarly(p, m) ==
    /\ pc[p] = "list" /\ m \in todo[p] /\ Present(m)
    /\ todo' = [todo EXCEPT ![p] = @ \ {m}]
    /\ list' = [list EXCEPT ![p] = @ \cup {m}]
    /\ UNCHANGED <<disk, age, pc, run, ready, asked, hist>>

\* listqueue("*") takes every page, locked or held, and locks none.
ListTake(p, m) ==
    /\ pc[p] = "list" /\ m \in todo[p] /\ file[m] = "full"
    /\ todo' = [todo EXCEPT ![p] = @ \ {m}]
    /\ list' = [list EXCEPT ![p] = @ \cup {m}]
    /\ UNCHANGED <<disk, age, pc, run, ready, asked, hist>>

\* q_lock, fopen(.., "w"): the lock file exists from here on and is empty,
\* whatever it held before.  The lock is clean if it was still free and the
\* page still there.
LockOpen(r) ==
    /\ pc[r] = "lock"
    /\ lock' = [lock EXCEPT ![cur[r]] = "unwritten"]
    /\ writers' = [writers EXCEPT ![cur[r]] = @ \cup {r}]
    /\ clash' = IF lock[cur[r]] = "free" /\ file[cur[r]] = "full"
                  THEN clash ELSE clash \cup {cur[r]}
    /\ pc' = [pc EXCEPT ![r] = "lockwrite"]
    /\ UNCHANGED <<file, accepted, age, todo, list, run, ready, asked,
                   fate, aired, acked, cut, told, deaths, torn>>

\* q_lock, fclose: the pid reaches the file r opened, if it is still linked.
LockWrite(r) ==
    /\ pc[r] = "lockwrite"
    /\ lock' = [lock EXCEPT ![cur[r]] = IF r \in writers[cur[r]] THEN r ELSE @]
    /\ writers' = [writers EXCEPT ![cur[r]] = @ \ {r}]
    /\ list' = [list EXCEPT ![r] = @ \cup {cur[r]}]
    /\ cur' = [cur EXCEPT ![r] = NoPage]
    /\ pc' = [pc EXCEPT ![r] = "list"]
    /\ UNCHANGED <<file, accepted, age, todo, res, term, online, first, mine,
                   ready, asked, hist>>

\* q_lock returns -1 and listqueue does not look: the page is listed unlocked.
LockFail(r) ==
    /\ pc[r] = "lock" /\ LockCanFail
    /\ list' = [list EXCEPT ![r] = @ \cup {cur[r]}]
    /\ clash' = clash \cup {cur[r]}
    /\ cur' = [cur EXCEPT ![r] = NoPage]
    /\ pc' = [pc EXCEPT ![r] = "list"]
    /\ UNCHANGED <<disk, age, todo, res, term, online, first, mine, ready, asked,
                   fate, aired, acked, cut, told, deaths, torn>>

-----------------------------------------------------------------------------
(* runqueue *)

\* A runner starts: by hand; CheckFork starts deliveryd's child.
StartRunner(r) ==
    /\ pc[r] = "off" /\ \A c \in Checkers : Child[c] # r
    /\ pc' = [pc EXCEPT ![r] = "list"]
    /\ term' = [term EXCEPT ![r] = 1]
    /\ OpenSpool(r)
    /\ UNCHANGED <<disk, age, list, cur, res, online, first, mine, ready, asked, hist>>

\* The listing is complete and empty: the session ends, next terminal.
ListEmpty(r) ==
    /\ pc[r] = "list" /\ todo[r] = {} /\ list[r] = {}
    /\ NextTerminal(r)
    /\ UNCHANGED <<disk, age, ready, asked, hist>>

\* The listing is complete: dial, or go on sending if we are online already.
ListReady(r) ==
    /\ pc[r] = "list" /\ todo[r] = {} /\ list[r] # {}
    /\ pc' = [pc EXCEPT ![r] = IF online[r] THEN "send" ELSE "open"]
    /\ first' = [first EXCEPT ![r] = TRUE]
    /\ UNCHANGED <<disk, age, todo, list, cur, res, term, online, mine, ready, asked, hist>>

OpenTerm(r) ==
    /\ pc[r] = "open"
    /\ pc' = [pc EXCEPT ![r] = "init"]
    /\ UNCHANGED <<disk, age, todo, list, run, ready, asked, hist>>

\* "Failed to get a port": the listed pages stay locked until cleanmylocks.
OpenFail(r) ==
    /\ pc[r] = "open"
    /\ NextTerminal(r)
    /\ UNCHANGED <<disk, age, ready, asked, hist>>

TapInit(r) ==
    /\ pc[r] = "init"
    /\ pc' = [pc EXCEPT ![r] = "send"]
    /\ online' = [online EXCEPT ![r] = TRUE]
    /\ UNCHANGED <<disk, age, todo, list, cur, res, term, first, mine, ready, asked, hist>>

\* No TAP login: the break leaves the loop over all terminals.
TapInitFail(r) ==
    /\ pc[r] = "init"
    /\ StartCleaning(r)
    /\ UNCHANGED <<disk, age, term, ready, asked, hist>>

\* Mutant of Send: the page stays on the list.
SendKeepsList(r, m, answer) ==
    /\ pc[r] = "send" /\ Foremost(m, list[r])
    /\ cur' = [cur EXCEPT ![r] = m]
    /\ res' = [res EXCEPT ![r] = answer]
    /\ aired' = aired \cup {m}
    /\ acked' = IF answer = "ack" THEN acked \cup {m} ELSE acked
    /\ cut' = IF answer = "ack" THEN cut \ {m} ELSE cut
    /\ pc' = [pc EXCEPT ![r] = "settle"]
    /\ UNCHANGED <<disk, age, todo, list, term, online, first, mine, ready, asked,
                   fate, told, clash, deaths, torn>>

\* s_tap_send transmits the next page of the sorted list and reads the answer.
Send(r, m, answer) ==
    /\ pc[r] = "send" /\ Foremost(m, list[r])
    /\ list' = [list EXCEPT ![r] = @ \ {m}]
    /\ cur' = [cur EXCEPT ![r] = m]
    /\ res' = [res EXCEPT ![r] = answer]
    /\ aired' = aired \cup {m}
    /\ acked' = IF answer = "ack" THEN acked \cup {m} ELSE acked
    /\ cut' = IF answer = "ack" THEN cut \ {m} ELSE cut
    /\ pc' = [pc EXCEPT ![r] = "settle"]
    /\ UNCHANGED <<disk, age, todo, term, online, first, mine, ready, asked,
                   fate, told, clash, deaths, torn>>

\* Mutant of Settle: an acknowledged page is unlocked instead of dequeued.
SettleUnlocks(r) ==
    /\ pc[r] = "settle"
    /\ \/ res[r] = "ack" /\ Unlock(cur[r]) /\ UNCHANGED <<file, fate>>
       \/ res[r] = "eof" /\ first[r] /\ Dequeue(cur[r], "probably")
       \/ res[r] = "rs"  /\ Dequeue(cur[r], "failed")
    /\ pc' = [pc EXCEPT ![r] = IF res[r] = "eof" THEN "hangup" ELSE "send"]
    /\ first' = [first EXCEPT ![r] = FALSE]
    /\ cur' = [cur EXCEPT ![r] = NoPage]
    /\ res' = [res EXCEPT ![r] = NoAnswer]
    /\ UNCHANGED <<accepted, age, todo, list, term, online, mine, ready,
                   asked, aired, acked, cut, told, clash, deaths, torn>>

\* The page is off the queue: acknowledged, probably delivered (a lost line on
\* the first page of a list), or refused for good.
Settle(r) ==
    /\ pc[r] = "settle"
    /\ \/ res[r] = "ack" /\ Dequeue(cur[r], "delivered")
       \/ res[r] = "eof" /\ first[r] /\ Dequeue(cur[r], "probably")
       \/ res[r] = "rs"  /\ Dequeue(cur[r], "failed")
    /\ pc' = [pc EXCEPT ![r] = IF res[r] = "eof" THEN "hangup" ELSE "send"]
    /\ first' = [first EXCEPT ![r] = FALSE]
    /\ cur' = [cur EXCEPT ![r] = NoPage]
    /\ res' = [res EXCEPT ![r] = NoAnswer]
    /\ UNCHANGED <<accepted, age, todo, list, term, online, mine, ready,
                   asked, aired, acked, cut, told, clash, deaths, torn>>

\* "deferred, will keep trying until it expires": the lock is given back.
Defer(r) ==
    /\ pc[r] = "settle"
    /\ res[r] = "nak" \/ (res[r] = "eof" /\ ~first[r])
    /\ Unlock(cur[r])
    /\ pc' = [pc EXCEPT ![r] = IF res[r] = "eof" THEN "hangup" ELSE "send"]
    /\ first' = [first EXCEPT ![r] = FALSE]
    /\ cur' = [cur EXCEPT ![r] = NoPage]
    /\ res' = [res EXCEPT ![r] = NoAnswer]
    /\ UNCHANGED <<file, accepted, age, todo, list, term, online, mine,
                   ready, asked, hist>>

\* The list is through: list the same terminal again, still online.
Relist(r) ==
    /\ pc[r] = "send" /\ list[r] = {}
    /\ pc' = [pc EXCEPT ![r] = "list"]
    /\ OpenSpool(r)
    /\ UNCHANGED <<disk, age, list, run, ready, asked, hist>>

\* The line dropped.  The rest of the list is forgotten and stays locked; the
\* list is freed twice, which the C library may or may not survive (Die).
Hangup(r) ==
    /\ pc[r] = "hangup"
    /\ NextTerminal(r)
    /\ UNCHANGED <<disk, age, ready, asked, hist>>

\* Mutant of CleanLock: every lock is removed, whatever pid it holds.
CleanLockAny(r, m) ==
    /\ pc[r] = "clean" /\ m \in todo[r]
    /\ todo' = [todo EXCEPT ![r] = @ \ {m}]
    /\ Unlock(m)
    /\ clash' = IF writers[m] \ {r} # {} THEN clash \cup {m} ELSE clash
    /\ UNCHANGED <<file, accepted, age, pc, list, run, ready, asked, fate, aired, acked,
                   cut, told, deaths, torn>>

\* cleanmylocks: read one lock file, unlink it if the pid is ours.  On an
\* empty file fscanf leaves the pid of the previous one in place.
CleanLock(r, m) ==
    /\ pc[r] = "clean" /\ m \in todo[r]
    /\ todo' = [todo EXCEPT ![r] = @ \ {m}]
    /\ LET own == lock[m] = r \/ (lock[m] = "unwritten" /\ mine[r])
       IN  /\ IF own THEN Unlock(m) ELSE UNCHANGED <<lock, writers>>
           /\ clash' = IF own /\ writers[m] \ {r} # {} THEN clash \cup {m} ELSE clash
           /\ mine' = [mine EXCEPT ![r] = IF lock[m] = "free" THEN @ ELSE own]
    /\ UNCHANGED <<file, accepted, age, pc, list, cur, res, term, online, first, ready,
                   asked, fate, aired, acked, cut, told, deaths, torn>>

\* exit flushes stdio: a lock file the signal caught open gets its pid now.
Exit(r) ==
    /\ pc[r] = "clean" /\ todo[r] = {}
    /\ lock' = [m \in Pages |-> IF lock[m] = r \/ r \in writers[m] THEN "dead"
                                                                 ELSE lock[m]]
    /\ writers' = [m \in Pages |-> writers[m] \ {r}]
    /\ pc' = [pc EXCEPT ![r] = "off"]
    /\ mine' = [mine EXCEPT ![r] = FALSE]
    /\ UNCHANGED <<file, accepted, age, todo, list, cur, res, term, online, first,
                   ready, asked, hist>>

\* Mutant of Signal: the alarm is switched off once the terminal has answered.
SignalOffline(r) ==
    /\ Running(r) /\ pc[r] # "clean" /\ ~online[r]
    /\ StartCleaning(r)
    /\ torn' = (torn \/ pc[r] = "lockwrite")
    /\ CutOff(r)
    /\ UNCHANGED <<disk, age, term, ready, asked, fate, aired, acked, told, clash, deaths>>

\* SIGALRM after two minutes, or SIGINT, SIGQUIT, SIGTERM, SIGHUP: del_sigint.
Signal(r) ==
    /\ Running(r) /\ pc[r] # "clean"
    /\ StartCleaning(r)
    /\ torn' = (torn \/ pc[r] = "lockwrite")
    /\ CutOff(r)
    /\ UNCHANGED <<disk, age, term, ready, asked, fate, aired, acked, told, clash, deaths>>

\* The process is gone without its handler: SIGKILL, a reboot, or the abort of
\* the second free of the list.
Die(r) ==
    /\ Running(r) /\ deaths < MaxDeaths
    /\ deaths' = deaths + 1
    /\ CutOff(r)
    /\ LeaveLocks(r)
    /\ pc' = [pc EXCEPT ![r] = "off"]
    /\ todo' = [todo EXCEPT ![r] = {}]
    /\ Forget(r)
    /\ mine' = [mine EXCEPT ![r] = FALSE]
    /\ UNCHANGED <<file, accepted, age, term, ready, asked, fate, aired, acked, told, clash, torn>>

-----------------------------------------------------------------------------
(* readyqueue, as run by deliveryd_main and by pageserv -p *)

Wake(p) ==
    /\ p \in Checkers \cup Farklers /\ pc[p] = "off"
    /\ pc' = [pc EXCEPT ![p] = "list"]
    /\ OpenSpool(p)
    /\ UNCHANGED <<disk, age, list, run, ready, asked, hist>>

CheckStart(c) ==
    /\ pc[c] = "list" /\ todo[c] = {}
    /\ pc' = [pc EXCEPT ![c] = "check"]
    /\ ready' = [ready EXCEPT ![c] = FALSE]
    /\ UNCHANGED <<disk, age, todo, list, run, asked, hist>>

\* Mutant of CheckEntry: a locked page is left to whoever locked it.
CheckEntryUnlocked(c, m) ==
    /\ pc[c] = "check" /\ m \in list[c]
    /\ list' = [list EXCEPT ![c] = @ \ {m}]
    /\ IF age[m] = "old" /\ lock[m] = "free"
         THEN Dequeue(m, "expired") /\ UNCHANGED ready
         ELSE /\ ready' = [ready EXCEPT ![c] = @ \/ age[m] = "ready"]
              /\ UNCHANGED <<file, lock, writers, fate>>
    /\ UNCHANGED <<accepted, age, pc, todo, run, asked,
                   aired, acked, cut, told, clash, deaths, torn>>

\* readytodeliver on the copy listqueue made, whatever became of the file.
CheckEntry(c, m) ==
    /\ pc[c] = "check" /\ m \in list[c]
    /\ list' = [list EXCEPT ![c] = @ \ {m}]
    /\ IF age[m] = "old"
         THEN Dequeue(m, "expired") /\ UNCHANGED ready
         ELSE /\ ready' = [ready EXCEPT ![c] = @ \/ age[m] = "ready"]
              /\ UNCHANGED <<file, lock, writers, fate>>
    /\ UNCHANGED <<accepted, age, pc, todo, run, asked,
                   aired, acked, cut, told, clash, deaths, torn>>

\* Mutant of CheckFork: deliveryd does not wait for its child.
CheckForkAndForget(c) ==
    /\ pc[c] = "check" /\ list[c] = {} /\ ready[c]
    /\ Child[c] \in Runners /\ pc[Child[c]] = "off"
    /\ pc' = [pc EXCEPT ![c] = "off", ![Child[c]] = "list"]
    /\ term' = [term EXCEPT ![Child[c]] = 1]
    /\ OpenSpool(Child[c])
    /\ UNCHANGED <<disk, age, list, cur, res, online, first, mine, ready, asked, hist>>

\* deliveryd forks a runner for what is ready and waits for it.
CheckFork(c) ==
    /\ pc[c] = "check" /\ list[c] = {} /\ ready[c]
    /\ Child[c] \in Runners /\ pc[Child[c]] = "off"
    /\ pc' = [pc EXCEPT ![c] = "wait", ![Child[c]] = "list"]
    /\ term' = [term EXCEPT ![Child[c]] = 1]
    /\ OpenSpool(Child[c])
    /\ UNCHANGED <<disk, age, list, cur, res, online, first, mine, ready, asked, hist>>

\* Nothing is ready, the process is pageserv -p, or fork failed.
CheckEnd(c) ==
    /\ pc[c] = "check" /\ list[c] = {}
    /\ pc' = [pc EXCEPT ![c] = "off"]
    /\ UNCHANGED <<disk, age, todo, list, run, ready, asked, hist>>

CheckWait(c) ==
    /\ pc[c] = "wait" /\ pc[Child[c]] = "off"
    /\ pc' = [pc EXCEPT ![c] = "off"]
    /\ UNCHANGED <<disk, age, todo, list, run, ready, asked, hist>>

-----------------------------------------------------------------------------
(* Clients that take pages off the queue *)

\* dofarkle: the first page of all, locked, held or neither.
FarkleTake(p, m) ==
    /\ p \in Farklers /\ pc[p] = "list" /\ todo[p] = {} /\ Foremost(m, list[p])
    /\ Dequeue(m, "farkled")
    /\ list' = [list EXCEPT ![p] = {}]
    /\ pc' = [pc EXCEPT ![p] = "off"]
    /\ UNCHANGED <<accepted, age, todo, run, ready, asked,
                   aired, acked, cut, told, clash, deaths, torn>>

\* dofarkle on an empty list dequeues an unset name: no file has it.
FarkleNone(p) ==
    /\ p \in Farklers /\ pc[p] = "list" /\ todo[p] = {} /\ list[p] = {}
    /\ pc' = [pc EXCEPT ![p] = "off"]
    /\ UNCHANGED <<disk, age, todo, list, run, ready, asked, hist>>

\* snpp_delUserQ: read the file, check the owner ...
UserRead(m) ==
    /\ m \in Owned /\ file[m] = "full" /\ m \notin asked
    /\ asked' = asked \cup {m}
    /\ UNCHANGED <<disk, age, pc, todo, list, run, ready, hist>>

\* ... then mail "User requested dequeue (page not sent)" and dequeue.
UserDequeue(m) ==
    /\ m \in asked
    /\ asked' = asked \ {m}
    /\ told' = told \cup {m}
    /\ Dequeue(m, "user")
    /\ UNCHANGED <<accepted, age, pc, todo, list, run, ready,
                   aired, acked, cut, clash, deaths, torn>>

-----------------------------------------------------------------------------
Store(m) == StoreOpen(m) \/ StoreClose(m) \/ StoreUnwritten(m)

ListStep(p) == \E m \in Pages : ListSweep(p, m) \/ ListSkip(p, m)

RunnerStep(r) ==
    \/ ListStep(r)
    \/ \E m \in Pages : ListRead(r, m) \/ CleanLock(r, m)
    \/ ListDecline(r) \/ ListExpire(r) \/ ListPick(r)
    \/ \E m \in Pages, answer \in Answers : Send(r, m, answer)
    \/ LockOpen(r) \/ LockWrite(r) \/ LockFail(r)
    \/ ListEmpty(r) \/ ListReady(r) \/ OpenTerm(r) \/ OpenFail(r)
    \/ TapInit(r) \/ TapInitFail(r) \/ Settle(r) \/ Defer(r) \/ Relist(r)
    \/ Hangup(r) \/ Exit(r)

CheckerStep(c) ==
    \/ Wake(c) \/ ListStep(c) \/ CheckStart(c)
    \/ \E m \in Pages : ListTake(c, m) \/ CheckEntry(c, m)
    \/ CheckFork(c) \/ CheckEnd(c) \/ CheckWait(c)

FarklerStep(p) ==
    \/ Wake(p) \/ ListStep(p) \/ FarkleNone(p)
    \/ \E m \in Pages : ListTake(p, m) \/ FarkleTake(p, m)

UserStep(m) == UserRead(m) \/ UserDequeue(m)

Next ==
    \/ \E m \in Pages : Store(m) \/ Tick(m) \/ UserStep(m)
    \/ \E r \in Runners : StartRunner(r) \/ RunnerStep(r) \/ Signal(r) \/ Die(r)
    \/ \E c \in Checkers : CheckerStep(c)
    \/ \E p \in Farklers : FarklerStep(p)

Spec == Init /\ [][Next]_vars

\* Where a runner waits for the terminal.
Waiting(r) == pc[r] \in {"open", "init"} \/ (pc[r] = "send" /\ list[r] # {})

(* The clock runs, deliveryd and its runner are scheduled, and alarm(120)      *)
(* goes off.  Nothing is assumed about clients, terminals or the network: a    *)
(* terminal may stay silent for ever.                                          *)
Fairness ==
    /\ \A m \in Pages : WF_vars(Tick(m))
    /\ \A c \in Checkers : WF_vars(CheckerStep(c))
    /\ \A r \in Runners : WF_vars(~Waiting(r) /\ RunnerStep(r)) /\ WF_vars(Signal(r))

FairSpec == Spec /\ Fairness

-----------------------------------------------------------------------------
(* Properties *)

\* The pages runner r has in hand: listed and locked, being locked, or just
\* transmitted and not yet settled.
Grip(r) == list[r] \cup (IF pc[r] \in {"lockwrite", "settle"} THEN {cur[r]} ELSE {})

(* Two runners never work on one page, unless its lock was not taken cleanly:  *)
(* q_lock truncated a lock that another runner had just put there after both   *)
(* saw none, the page was dequeued between reading and locking it, the lock    *)
(* file could not be opened, or cleanmylocks mistook it for its own.           *)
OneRunnerPerPage ==
    \A m \in Pages \ clash : \A r, s \in Runners :
        m \in Grip(r) /\ m \in Grip(s) => r = s

(* While a page a runner has listed is still in the spool, its lock file       *)
(* carries that runner's pid, so that q_islocked keeps other listings off it   *)
(* and cleanmylocks finds it again.                                            *)
ListedIsLocked ==
    \A m \in Pages \ clash : \A r \in Runners :
        (m \in list[r] /\ file[m] = "full") => lock[m] = r

(* A page the terminal has acknowledged is never handed to a runner again,     *)
(* except when the runner that had the answer was stopped, by a signal or by   *)
(* alarm(120) as well as by a kill, between s_tap_send and dequeue.  Each such *)
(* stop excuses one repetition: Send takes the page out of cut.                *)
AckedOnce ==
    \A m \in Pages \ clash : \A r \in Runners :
        m \in list[r] /\ m \in acked => m \in cut

(* A runner that finishes, is signalled or runs into alarm(120) takes all its  *)
(* locks with it.  A lock with nobody behind it is left by a runner that died  *)
(* without its handler, or by a signal inside q_lock: cleanmylocks then sees   *)
(* an empty file and exit() writes the pid into it afterwards.                 *)
NoOrphanLock ==
    \A m \in Pages :
        (lock[m] = "dead" \/ (lock[m] = "unwritten" /\ writers[m] = {}))
            => deaths > 0 \/ torn

(* A lone deliveryd with its child never takes a lock over another one and     *)
(* never steals one: with one runner at a time listqueue's check-then-lock is  *)
(* safe.                                                                       *)
CleanLocking == clash = {}

(* A page is expired, and its owner mailed "Too old", only if no terminal      *)
(* acknowledged it, unless its runner was stopped with the answer in hand.     *)
(* Expiry is decided before the lock is looked at, so this rests on deliveryd  *)
(* waiting for its child.                                                      *)
ExpiredWasNotDelivered ==
    \A m \in Pages : fate[m] = "expired" /\ m \in acked => m \in cut

(* A page waits in the spool with a foreign lock on it only if a runner works  *)
(* on it or died on it: between two runs of a lone runner no page is locked    *)
(* away from the next run.                                                     *)
IdleSpoolIsUnlocked ==
    (deaths = 0 /\ ~torn /\ \A r \in Runners : ~Running(r))
        => \A m \in Pages : file[m] = "full" => lock[m] = "free"

(* What snpp_delUserQ mails to the owner, "page not sent", is not said of a     *)
(* page that a terminal has acknowledged.                                      *)
DequeuedWasNotSent == told \cap acked = {}

(* What the sender was told: "Queued".  The page waits in the spool or was     *)
(* taken off it by somebody who had read it.                                   *)
QueuedIsKept == \A m \in accepted : fate[m] # "swept"

(* Nobody takes a runner's lock away from it: a lock disappears when the page  *)
(* is dequeued or deferred, when its own runner cleans up, or when that        *)
(* process is gone, except on pages whose lock was not taken cleanly.          *)
LocksAreRespected ==
    [][\A m \in Pages \ clash' : \A r \in Runners :
          lock[m] = r /\ lock'[m] # r =>
             \/ file'[m] # "full"
             \/ pc[r] = "settle" /\ cur[r] = m /\ pc'[r] # "settle"
             \/ pc[r] = "clean" /\ m \in todo[r] \ todo'[r]
             \/ pc'[r] = "off"]_vars

(* Every page leaves the spool: delivered, refused or, when its terminal never *)
(* answers, is unknown or has left a dead runner's lock on it, expired.        *)
EveryPageLeaves == \A m \in Pages : Present(m) ~> ~Present(m)

(* No terminal can keep a runner for ever, whatever it answers and even if it  *)
(* answers nothing: the alarm ends the session and cleanmylocks ends.          *)
RunnersFinish == \A r \in Runners : Running(r) ~> ~Running(r)

(* The spool keeps the books of PageLedger: one departure per page, on grounds *)
(* that hold at that moment, whichever of the five kinds of process removes it *)
(* and whatever copy of the file it read before.                               *)
Ledger == INSTANCE PageLedger WITH
    status <- file, reason <- fate, sent <- aired, answered <- acked,
    overdue <- {m \in Pages : age[m] = "old"}

KeepsLedger == Ledger!LedgerSpec
=============================================================================
