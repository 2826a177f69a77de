--------------------------- MODULE PageQueueProofs ---------------------------
(* Proofs about PageQueue, for every set of pages, runners, checkers and     *)
(* clients, every terminal list and every assignment of pages to terminals.  *)
EXTENDS PageQueueInv, TLAPS

-----------------------------------------------------------------------------
(* Type correctness *)

LEMMA TermRange == Len(TermList) \in Nat /\ 1 \in 1..Len(TermList)
  BY DataAssumption DEF DataAssumption

LEMMA InitType == Init => TypeOK
  <1> SUFFICES ASSUME Init PROVE TypeOK
    OBVIOUS
  <1>1. term \in [Runners -> 1..Len(TermList)]
    BY TermRange DEF Init
  <1>2. /\ file \in [Pages -> FileStates]
        /\ lock \in [Pages -> Runners \cup {"free", "unwritten", "dead"}]
        /\ writers \in [Pages -> SUBSET Runners]
        /\ age \in [Pages -> {"held", "ready", "old"}]
        /\ fate \in [Pages -> Fates]
    BY DEF Init, FileStates, Fates
  <1>3. /\ pc \in [Procs -> RunnerPCs \cup OtherPCs]
        /\ \A r \in Runners : pc[r] \in RunnerPCs
        /\ \A p \in Procs \ Runners : pc[p] \in OtherPCs
        /\ \A r \in Runners : pc[r] = "off"
    BY DEF Init, RunnerPCs, OtherPCs, Procs
  <1>4. /\ todo \in [Procs -> SUBSET Pages]
        /\ list \in [Procs -> SUBSET Pages]
        /\ ready \in [Checkers -> BOOLEAN]
    BY DEF Init
  <1>5. /\ cur \in [Runners -> Pages \cup {NoPage}]
        /\ res \in [Runners -> Answers \cup {NoAnswer}]
        /\ online \in [Runners -> BOOLEAN]
        /\ first \in [Runners -> BOOLEAN]
        /\ mine \in [Runners -> BOOLEAN]
    BY DEF Init
  <1> QED BY <1>1, <1>2, <1>3, <1>4, <1>5 DEF Init, TypeOK

LEMMA DequeueType ==
  ASSUME TypeOK, NEW m \in Pages, NEW why \in Fates, Dequeue(m, why)
  PROVE  /\ file' \in [Pages -> FileStates]
         /\ lock' \in [Pages -> Runners \cup {"free", "unwritten", "dead"}]
         /\ writers' \in [Pages -> SUBSET Runners]
         /\ fate' \in [Pages -> Fates]
  BY DEF TypeOK, Dequeue, Unlock, FileStates

LEMMA NextTerminalType ==
  ASSUME TypeOK, NEW r \in Runners, NextTerminal(r)
  PROVE  /\ pc' \in [Procs -> RunnerPCs \cup OtherPCs]
         /\ \A s \in Runners : pc'[s] \in RunnerPCs
         /\ \A p \in Procs \ Runners : pc'[p] \in OtherPCs
         /\ \A s \in Runners :
               pc'[s] \in {"read", "lock", "lockwrite", "settle"} => cur'[s] \in Pages
         /\ \A s \in Runners : pc'[s] = "settle" => res'[s] \in Answers
         /\ todo' \in [Procs -> SUBSET Pages]
         /\ list' \in [Procs -> SUBSET Pages]
         /\ cur' \in [Runners -> Pages \cup {NoPage}]
         /\ res' \in [Runners -> Answers \cup {NoAnswer}]
         /\ term' \in [Runners -> 1..Len(TermList)]
         /\ online' \in [Runners -> BOOLEAN]
         /\ first' \in [Runners -> BOOLEAN]
         /\ mine' \in [Runners -> BOOLEAN]
  <1>0. r \in Procs /\ Len(TermList) \in Nat
    BY TermRange DEF Procs
  <1>1. /\ list' \in [Procs -> SUBSET Pages]
        /\ cur' \in [Runners -> Pages \cup {NoPage}]
        /\ \A s \in Runners \ {r} : cur'[s] = cur[s] /\ res'[s] = res[s]
        /\ res' \in [Runners -> Answers \cup {NoAnswer}]
        /\ online' \in [Runners -> BOOLEAN]
        /\ first' \in [Runners -> BOOLEAN]
    BY <1>0 DEF TypeOK, NextTerminal, Forget
  <1>2. PICK where \in {"list", "clean"} : pc' = [pc EXCEPT ![r] = where]
    BY DEF NextTerminal
  <1>3. /\ pc' \in [Procs -> RunnerPCs \cup OtherPCs]
        /\ \A s \in Runners : pc'[s] \in RunnerPCs
        /\ \A p \in Procs \ Runners : pc'[p] \in OtherPCs
        /\ \A s \in Runners \ {r} : pc'[s] = pc[s]
        /\ pc'[r] \in {"list", "clean"}
    BY <1>0, <1>2 DEF TypeOK, RunnerPCs
  <1>4. /\ \A s \in Runners :
              pc'[s] \in {"read", "lock", "lockwrite", "settle"} => cur'[s] \in Pages
        /\ \A s \in Runners : pc'[s] = "settle" => res'[s] \in Answers
    BY <1>1, <1>3 DEF TypeOK
  <1>5. /\ todo' \in [Procs -> SUBSET Pages]
        /\ mine' \in [Runners -> BOOLEAN]
    <2>1. /\ Spool \subseteq Pages
          /\ {m \in Pages : lock[m] # "free"} \subseteq Pages
      BY DEF Spool
    <2>2. \E S \in SUBSET Pages : todo' = [todo EXCEPT ![r] = S]
      <3>1. CASE term[r] < Len(TermList)
        BY <2>1, <3>1 DEF NextTerminal, OpenSpool
      <3>2. CASE ~(term[r] < Len(TermList))
        BY <2>1, <3>2 DEF NextTerminal
      <3> QED BY <3>1, <3>2
    <2>3. mine' = mine \/ mine' = [mine EXCEPT ![r] = FALSE]
      BY DEF NextTerminal
    <2>4. /\ todo \in [Procs -> SUBSET Pages]
          /\ mine \in [Runners -> BOOLEAN]
      BY DEF TypeOK
    <2>5. todo' \in [Procs -> SUBSET Pages]
      BY <1>0, <2>2, <2>4
    <2>6. mine' \in [Runners -> BOOLEAN]
      BY <2>3, <2>4
    <2> QED BY <2>5, <2>6
  <1>6. term' \in [Runners -> 1..Len(TermList)]
    <2>1. CASE term[r] < Len(TermList)
      BY <1>0, <2>1 DEF TypeOK, NextTerminal
    <2>2. CASE ~(term[r] < Len(TermList))
      BY <2>2 DEF TypeOK, NextTerminal
    <2> QED BY <2>1, <2>2
  <1> QED BY <1>1, <1>3, <1>4, <1>5, <1>6

LEMMA StoreType ==
  ASSUME TypeOK, NEW m \in Pages, Store(m) \/ Tick(m) \/ UserStep(m)
  PROVE  TypeOK'
  <1>1. CASE StoreOpen(m)
    BY <1>1 DEF TypeOK, StoreOpen, FileStates, run, hist
  <1>2. CASE StoreClose(m)
    BY <1>2 DEF TypeOK, StoreClose, FileStates, run, hist
  <1>6. CASE StoreUnwritten(m)
    BY <1>6 DEF TypeOK, StoreUnwritten, run, hist
  <1>3. CASE Tick(m)
    BY <1>3 DEF TypeOK, Tick, disk, run, hist
  <1>4. CASE UserRead(m)
    BY <1>4 DEF TypeOK, UserRead, disk, run, hist
  <1>5. CASE UserDequeue(m)
    BY <1>5 DEF TypeOK, UserDequeue, Dequeue, Unlock, FileStates, Fates, run, hist
  <1> QED BY <1>1, <1>2, <1>3, <1>4, <1>5, <1>6 DEF Store, UserStep

LEMMA RunnerType ==
  ASSUME TypeOK, NEW r \in Runners, StartRunner(r) \/ RunnerStep(r) \/ Signal(r) \/ Die(r)
  PROVE  TypeOK'
  <1>0. r \in Procs
    BY DEF Procs
  <1>1. CASE \E m \in Pages : ListSweep(r, m)
    BY <1>1, <1>0 DEF TypeOK, ListSweep, run, FileStates, Fates
  <1>2. CASE \E m \in Pages : ListSkip(r, m)
    BY <1>2, <1>0 DEF TypeOK, ListSkip, disk, run, hist
  <1>24. CASE \E m \in Pages : ListRead(r, m)
    BY <1>24, <1>0 DEF TypeOK, ListRead, disk, hist, RunnerPCs, OtherPCs
  <1>25. CASE ListDecline(r)
    BY <1>25, <1>0 DEF TypeOK, ListDecline, disk, hist, RunnerPCs, OtherPCs
  <1>3. CASE ListExpire(r)
    <2>1. Dequeue(cur[r], "expired") /\ "expired" \in Fates /\ cur[r] \in Pages
      BY <1>3, <1>0 DEF TypeOK, ListExpire, Fates
    <2> QED BY <1>3, <1>0, <2>1, DequeueType
            DEF TypeOK, ListExpire, RunnerPCs, OtherPCs
  <1>4. CASE ListPick(r)
    BY <1>4, <1>0 DEF TypeOK, ListPick, disk, run, hist, RunnerPCs, OtherPCs
  <1>5. CASE \E m \in Pages : CleanLock(r, m)
    <2>1. PICK m \in Pages : CleanLock(r, m)
      BY <1>5
    <2>2. /\ lock' \in [Pages -> Runners \cup {"free", "unwritten", "dead"}]
          /\ writers' \in [Pages -> SUBSET Runners]
      BY <2>1 DEF CleanLock, Unlock, TypeOK
    <2>3. mine' \in [Runners -> BOOLEAN] /\ clash' \subseteq Pages
      BY <2>1 DEF CleanLock, TypeOK
    <2> QED BY <2>1, <2>2, <2>3, <1>0 DEF TypeOK, CleanLock
  <1>6. CASE \E m \in Pages, answer \in Answers : Send(r, m, answer)
    BY <1>6, <1>0 DEF TypeOK, Send, Foremost, disk, RunnerPCs, OtherPCs,
       Answers, NoAnswer
  <1>7. CASE LockOpen(r)
    BY <1>7, <1>0 DEF TypeOK, LockOpen, run, RunnerPCs, OtherPCs
  <1>8. CASE LockWrite(r)
    BY <1>8, <1>0 DEF TypeOK, LockWrite, hist, RunnerPCs, OtherPCs
  <1>9. CASE LockFail(r)
    BY <1>9, <1>0 DEF TypeOK, LockFail, disk, RunnerPCs, OtherPCs
  <1>10. CASE ListEmpty(r)
    <2>1. NextTerminal(r)
      BY <1>10 DEF ListEmpty
    <2> QED BY <1>10, <1>0, <2>1, NextTerminalType
            DEF TypeOK, ListEmpty, disk, hist
  <1>11. CASE ListReady(r)
    BY <1>11, <1>0 DEF TypeOK, ListReady, disk, hist, RunnerPCs, OtherPCs
  <1>12. CASE OpenTerm(r)
    BY <1>12, <1>0 DEF TypeOK, OpenTerm, disk, run, hist, RunnerPCs,
       OtherPCs
  <1>13. CASE OpenFail(r)
    <2>1. NextTerminal(r)
      BY <1>13 DEF OpenFail
    <2> QED BY <1>13, <1>0, <2>1, NextTerminalType
            DEF TypeOK, OpenFail, disk, hist
  <1>14. CASE TapInit(r)
    BY <1>14, <1>0 DEF TypeOK, TapInit, disk, hist, RunnerPCs, OtherPCs
  <1>15. CASE TapInitFail(r)
    BY <1>15, <1>0 DEF TypeOK, TapInitFail, StartCleaning, Forget, disk,
       hist, RunnerPCs, OtherPCs, Answers, NoAnswer
  <1>16. CASE Settle(r)
    <2>1. \E why \in Fates : Dequeue(cur[r], why)
      BY <1>16 DEF Settle, Fates
    <2>2. cur[r] \in Pages /\ pc'[r] \in {"hangup", "send"}
      BY <1>16, <1>0 DEF Settle, TypeOK
    <2> QED BY <1>16, <1>0, <2>1, <2>2, DequeueType
            DEF TypeOK, Settle, RunnerPCs, Answers, NoAnswer
  <1>17. CASE Defer(r)
    BY <1>17, <1>0 DEF TypeOK, Defer, Unlock, hist, RunnerPCs, OtherPCs,
       Answers, NoAnswer
  <1>18. CASE Relist(r)
    BY <1>18, <1>0 DEF TypeOK, Relist, OpenSpool, Spool, disk, run, hist,
       RunnerPCs, OtherPCs
  <1>19. CASE Hangup(r)
    <2>1. NextTerminal(r)
      BY <1>19 DEF Hangup
    <2> QED BY <1>19, <1>0, <2>1, NextTerminalType
            DEF TypeOK, Hangup, disk, hist
  <1>20. CASE Exit(r)
    BY <1>20, <1>0 DEF TypeOK, Exit, hist, RunnerPCs, OtherPCs
  <1>21. CASE StartRunner(r)
    BY <1>21, <1>0, TermRange DEF TypeOK, StartRunner, OpenSpool, Spool,
       disk, hist, RunnerPCs, OtherPCs
  <1>22. CASE Signal(r)
    BY <1>22, <1>0 DEF TypeOK, Signal, StartCleaning, Forget, CutOff,
       Running, disk, RunnerPCs, OtherPCs, Answers, NoAnswer
  <1>23. CASE Die(r)
    <2>1. /\ lock' \in [Pages -> Runners \cup {"free", "unwritten", "dead"}]
          /\ writers' \in [Pages -> SUBSET Runners]
      BY <1>23 DEF Die, LeaveLocks, TypeOK
    <2>2. cut' \subseteq Pages
      BY <1>23 DEF Die, CutOff, TypeOK
    <2> QED BY <1>23, <1>0, <2>1, <2>2
            DEF TypeOK, Die, Forget, RunnerPCs, Answers, NoAnswer
  <1> QED BY <1>1, <1>2, <1>3, <1>4, <1>5, <1>6, <1>7, <1>8, <1>9, <1>10,
       <1>11, <1>12, <1>13, <1>14, <1>15, <1>16, <1>17, <1>18, <1>19, <1>20,
       <1>21, <1>22, <1>23, <1>24, <1>25 DEF RunnerStep, ListStep

LEMMA CheckerType ==
  ASSUME TypeOK, NEW c \in Checkers, CheckerStep(c)
  PROVE  TypeOK'
  <1>0. c \in Procs /\ c \notin Runners
    BY SlotAssumption DEF Procs, SlotAssumption
  <1>1. CASE \E m \in Pages : ListSweep(c, m)
    BY <1>1, <1>0 DEF TypeOK, ListSweep, run, FileStates, Fates
  <1>2. CASE \E m \in Pages : ListSkip(c, m)
    BY <1>2, <1>0 DEF TypeOK, ListSkip, disk, run, hist
  <1>3. CASE \E m \in Pages : ListTake(c, m)
    BY <1>3, <1>0 DEF TypeOK, ListTake, disk, run, hist
  <1>4. CASE \E m \in Pages : CheckEntry(c, m)
    <2>1. PICK m \in Pages : CheckEntry(c, m)
      BY <1>4
    <2>2. CASE age[m] = "old"
      <3>1. Dequeue(m, "expired") /\ "expired" \in Fates
        BY <2>1, <2>2 DEF CheckEntry, Fates
      <3> QED BY <1>0, <2>1, <2>2, <3>1, DequeueType DEF TypeOK, CheckEntry, run
    <2>3. CASE age[m] # "old"
      <3>1. ready' \in [Checkers -> BOOLEAN]
        BY <2>1, <2>3 DEF TypeOK, CheckEntry
      <3> QED BY <1>0, <2>1, <2>3, <3>1 DEF TypeOK, CheckEntry, run
    <2> QED BY <2>2, <2>3
  <1>5. CASE Wake(c)
    BY <1>5, <1>0 DEF TypeOK, Wake, OpenSpool, Spool, disk, run, hist,
       RunnerPCs, OtherPCs
  <1>6. CASE CheckStart(c)
    BY <1>6, <1>0 DEF TypeOK, CheckStart, disk, run, hist, RunnerPCs,
       OtherPCs
  <1>7. CASE CheckFork(c)
    BY <1>7, <1>0, TermRange, SlotAssumption DEF TypeOK, CheckFork,
       OpenSpool, Spool, disk, hist, RunnerPCs, OtherPCs, Procs,
       SlotAssumption
  <1>8. CASE CheckEnd(c)
    BY <1>8, <1>0 DEF TypeOK, CheckEnd, disk, run, hist, RunnerPCs,
       OtherPCs
  <1>9. CASE CheckWait(c)
    BY <1>9, <1>0 DEF TypeOK, CheckWait, disk, run, hist, RunnerPCs,
       OtherPCs
  <1> QED BY <1>1, <1>2, <1>3, <1>4, <1>5, <1>6, <1>7, <1>8, <1>9 DEF
       CheckerStep, ListStep

LEMMA FarklerType ==
  ASSUME TypeOK, NEW p \in Farklers, FarklerStep(p)
  PROVE  TypeOK'
  <1>0. p \in Procs /\ p \notin Runners
    BY SlotAssumption DEF Procs, SlotAssumption
  <1>1. CASE \E m \in Pages : ListSweep(p, m)
    BY <1>1, <1>0 DEF TypeOK, ListSweep, run, FileStates, Fates
  <1>2. CASE \E m \in Pages : ListSkip(p, m)
    BY <1>2, <1>0 DEF TypeOK, ListSkip, disk, run, hist
  <1>3. CASE \E m \in Pages : ListTake(p, m)
    BY <1>3, <1>0 DEF TypeOK, ListTake, disk, run, hist
  <1>4. CASE \E m \in Pages : FarkleTake(p, m)
    BY <1>4, <1>0 DEF TypeOK, FarkleTake, Dequeue, Unlock, Present,
       Foremost, run, FileStates, Fates, RunnerPCs, OtherPCs
  <1>5. CASE Wake(p)
    BY <1>5, <1>0 DEF TypeOK, Wake, OpenSpool, Spool, disk, run, hist,
       RunnerPCs, OtherPCs
  <1>6. CASE FarkleNone(p)
    BY <1>6, <1>0 DEF TypeOK, FarkleNone, disk, run, hist, RunnerPCs,
       OtherPCs
  <1> QED BY <1>1, <1>2, <1>3, <1>4, <1>5, <1>6 DEF FarklerStep, ListStep

LEMMA StutterType == TypeOK /\ UNCHANGED vars => TypeOK'
  BY DEF TypeOK, vars, disk, run, hist

LEMMA NextType == TypeOK /\ [Next]_vars => TypeOK'
  BY StoreType, RunnerType, CheckerType, FarklerType, StutterType DEF Next

(* Every variable keeps its type, whatever the constants: in particular a     *)
(* runner's locals name a page whenever listqueue or runqueue uses them.      *)
THEOREM TypeCorrect == Spec => []TypeOK
  BY InitType, NextType, PTL DEF Spec

-----------------------------------------------------------------------------
(* One runner per page *)

\* Steps that leave the disk alone and put nothing into anybody's hands.
Quiet ==
    /\ UNCHANGED <<file, fate, lock, writers, clash, torn, asked, acked>>
    /\ \A p \in Procs : list'[p] \subseteq list[p]
    /\ \A r \in Runners :
          /\ \/ pc'[r] \in {"read", "lockwrite", "settle"}
             \/ pc[r] \in {"lockwrite", "clean"}
             => pc'[r] = pc[r] /\ cur'[r] = cur[r]
          /\ pc'[r] = "lock" => pc[r] \in {"read", "lock"} /\ cur'[r] = cur[r]
          /\ pc'[r] \in {"off", "clean"} => list'[r] = {}

\* Steps that take page m off the queue and put nothing into anybody's hands.
Removes(m) ==
    /\ \E why \in Fates \ {"swept"} : Dequeue(m, why)
    /\ Whole(m)
    /\ asked' \subseteq asked
    /\ UNCHANGED <<clash, torn, acked>>
    /\ \A p \in Procs : list'[p] \subseteq list[p]
    /\ \A r \in Runners :
          /\ \/ pc'[r] \in {"read", "lock", "lockwrite", "settle"}
             \/ pc[r] \in {"lockwrite", "clean"}
             => pc'[r] = pc[r] /\ cur'[r] = cur[r]
          /\ pc'[r] \in {"off", "clean"} => list'[r] = {}

LEMMA RunnersAreProcs == Runners \subseteq Procs
  BY DEF Procs

LEMMA InitLock == Init => LockInv
  <1> SUFFICES ASSUME Init PROVE LockInv
    OBVIOUS
  <1>1. TypeOK
    BY InitType
  <1>2. CopiesAreWhole /\ ListsAreLocal
    BY RunnersAreProcs DEF Init, CopiesAreWhole, ListsAreLocal
  <1>3. LockFiles /\ HandsAreLocked /\ OneRunnerPerPage
    BY RunnersAreProcs DEF Init, LockFiles, HandsAreLocked, OneRunnerPerPage, Grip
  <1> QED BY <1>1, <1>2, <1>3 DEF LockInv

LEMMA QuietLock ==
  ASSUME LockInv, Quiet, TypeOK'
  PROVE  LockInv'
  <1>1. CopiesAreWhole'
    BY RunnersAreProcs DEF LockInv, CopiesAreWhole, Whole, Quiet
  <1>2. ListsAreLocal'
    BY RunnersAreProcs DEF LockInv, ListsAreLocal, Quiet
  <1>3. LockFiles'
    BY DEF LockInv, TypeOK, LockFiles, Quiet
  <1>4. HandsAreLocked'
    BY RunnersAreProcs DEF LockInv, TypeOK, HandsAreLocked, Quiet
  <1>5. OneRunnerPerPage'
    <2>1. \A r \in Runners : Grip(r)' \subseteq Grip(r)
      BY RunnersAreProcs DEF Quiet, Grip
    <2> QED BY <2>1 DEF LockInv, OneRunnerPerPage, Quiet
  <1> QED BY <1>1, <1>2, <1>3, <1>4, <1>5 DEF LockInv

LEMMA RemovesLock ==
  ASSUME LockInv, NEW m \in Pages, Removes(m), TypeOK'
  PROVE  LockInv'
  <1>0. /\ \A n \in Pages \ {m} : /\ file'[n] = file[n] /\ fate'[n] = fate[n]
                                 /\ lock'[n] = lock[n] /\ writers'[n] = writers[n]
        /\ file'[m] = "gone" /\ fate'[m] # "swept"
        /\ lock'[m] = "free" /\ writers'[m] = {}
    BY DEF Removes, Dequeue, Unlock, LockInv, TypeOK, Whole, Present
  <1>1. CopiesAreWhole'
    <2>1. \A n \in Pages : Whole(n) => Whole(n)'
      BY <1>0 DEF Whole
    <2>2. \A n \in Pages : fate'[n] # "none" => file'[n] = "gone"
      BY <1>0 DEF LockInv, CopiesAreWhole
    <2>3. /\ \A p \in Procs : list'[p] \subseteq list[p]
          /\ \A r \in Runners : pc'[r] \in {"read", "lock", "lockwrite", "settle"} =>
                pc'[r] = pc[r] /\ cur'[r] = cur[r] /\ cur[r] \in Pages
          /\ asked' \cup acked' \subseteq asked \cup acked
      BY DEF Removes, LockInv, TypeOK
    <2>4. list \in [Procs -> SUBSET Pages] /\ asked \cup acked \subseteq Pages
      BY DEF LockInv, TypeOK
    <2> QED BY <2>1, <2>2, <2>3, <2>4 DEF LockInv, CopiesAreWhole
  <1>2. ListsAreLocal'
    BY RunnersAreProcs DEF LockInv, ListsAreLocal, Removes
  <1>3. LockFiles'
    <2>1. /\ clash' = clash /\ torn' = torn
          /\ \A r \in Runners : pc[r] \in {"lockwrite", "clean"} =>
                pc'[r] = pc[r] /\ cur'[r] = cur[r]
          /\ writers \in [Pages -> SUBSET Runners]
      BY DEF Removes, LockInv, TypeOK
    <2> QED BY <1>0, <2>1 DEF LockInv, LockFiles
  <1>4. HandsAreLocked'
    <2>1. /\ clash' = clash
          /\ \A r \in Runners :
                /\ list'[r] \subseteq list[r]
                /\ pc'[r] \in {"lockwrite", "settle"} =>
                      pc'[r] = pc[r] /\ cur'[r] = cur[r]
      BY RunnersAreProcs DEF Removes
    <2> QED BY <1>0, <2>1 DEF LockInv, HandsAreLocked
  <1>5. OneRunnerPerPage'
    <2>1. \A r \in Runners : Grip(r)' \subseteq Grip(r)
      BY RunnersAreProcs DEF Removes, Grip
    <2> QED BY <2>1 DEF LockInv, OneRunnerPerPage, Removes
  <1> QED BY <1>1, <1>2, <1>3, <1>4, <1>5 DEF LockInv

\* The steps of runqueue, readyqueue and dofarkle that only move on.
LEMMA QuietSteps ==
  ASSUME LockInv,
         \/ \E m \in Pages : Tick(m)
         \/ \E p \in Procs, m \in Pages : ListSkip(p, m)
         \/ \E r \in Runners :
               \/ StartRunner(r) \/ ListEmpty(r) \/ ListReady(r) \/ OpenTerm(r)
               \/ OpenFail(r) \/ TapInit(r) \/ TapInitFail(r) \/ Relist(r) \/ Hangup(r)
               \/ ListDecline(r) \/ ListPick(r)
         \/ \E c \in Checkers : CheckStart(c) \/ CheckFork(c) \/ CheckEnd(c) \/ CheckWait(c)
         \/ \E c \in Checkers : \E m \in Pages : CheckEntry(c, m) /\ age[m] # "old"
         \/ \E p \in Checkers \cup Farklers : Wake(p)
         \/ \E p \in Farklers : FarkleNone(p)
         \/ UNCHANGED vars
  PROVE  Quiet
  <1>1. CASE \E m \in Pages : Tick(m)
    BY <1>1 DEF LockInv, ListsAreLocal, Tick, Quiet, disk, run, hist
  <1>2. CASE \E p \in Procs, m \in Pages : ListSkip(p, m)
    BY <1>2 DEF LockInv, ListsAreLocal, ListSkip, Quiet, disk, run, hist
  <1>3. ASSUME NEW r \in Runners,
               \/ StartRunner(r) \/ ListReady(r) \/ OpenTerm(r)
               \/ TapInit(r) \/ Relist(r)
        PROVE  Quiet
    <2>1. \E where \in {"list", "send", "open", "init"} : pc' = [pc EXCEPT ![r] = where]
      BY <1>3 DEF StartRunner, ListReady, OpenTerm, TapInit, Relist
    <2>2. /\ UNCHANGED <<file, fate, lock, writers, clash, torn, asked, acked, list, cur>>
          /\ pc[r] \notin {"lockwrite", "clean"}
      BY <1>3 DEF StartRunner, ListReady, OpenTerm, TapInit, Relist, disk, run, hist
    <2> QED BY <2>1, <2>2 DEF LockInv, TypeOK, ListsAreLocal, Quiet
  <1>4. ASSUME NEW r \in Runners,
               ListEmpty(r) \/ OpenFail(r) \/ TapInitFail(r) \/ Hangup(r)
        PROVE  Quiet
    <2>1. \E where \in {"list", "clean"} : pc' = [pc EXCEPT ![r] = where]
      BY <1>4 DEF ListEmpty, OpenFail, TapInitFail, Hangup, NextTerminal, StartCleaning
    <2>2. /\ UNCHANGED <<file, fate, lock, writers, clash, torn, asked, acked>>
          /\ pc[r] \notin {"lockwrite", "clean"}
      BY <1>4 DEF ListEmpty, OpenFail, TapInitFail, Hangup, disk, hist
    <2>3. Forget(r)
      BY <1>4 DEF ListEmpty, OpenFail, TapInitFail, Hangup, NextTerminal, StartCleaning
    <2> QED BY <2>1, <2>2, <2>3, RunnersAreProcs
            DEF LockInv, TypeOK, ListsAreLocal, Quiet, Forget
  <1>5. ASSUME NEW c \in Checkers,
               CheckStart(c) \/ CheckEnd(c) \/ CheckWait(c) \/ Wake(c)
        PROVE  Quiet
    <2>1. c \notin Runners
      BY SlotAssumption DEF SlotAssumption
    <2>2. UNCHANGED <<file, fate, lock, writers, clash, torn, asked, acked, list, cur>>
      BY <1>5 DEF CheckStart, CheckEnd, CheckWait, Wake, disk, run, hist
    <2>3. \A r \in Runners : pc'[r] = pc[r]
      BY <1>5, <2>1, RunnersAreProcs
         DEF CheckStart, CheckEnd, CheckWait, Wake, LockInv, TypeOK
    <2> QED BY <2>2, <2>3 DEF LockInv, ListsAreLocal, Quiet
  <1>6. ASSUME NEW c \in Checkers, CheckFork(c)
        PROVE  Quiet
    <2>1. /\ c \notin Runners /\ Child[c] \in Runners
          /\ pc[Child[c]] = "off" /\ pc'[Child[c]] = "list"
          /\ \A r \in Runners \ {Child[c]} : pc'[r] = pc[r]
      BY <1>6, SlotAssumption, RunnersAreProcs DEF SlotAssumption, CheckFork, LockInv, TypeOK
    <2>2. UNCHANGED <<file, fate, lock, writers, clash, torn, asked, acked, list, cur>>
      BY <1>6 DEF CheckFork, disk, hist
    <2> QED BY <2>1, <2>2 DEF LockInv, ListsAreLocal, Quiet
  <1>7. ASSUME NEW c \in Checkers, NEW m \in Pages, CheckEntry(c, m), age[m] # "old"
        PROVE  Quiet
    <2>1. c \notin Runners
      BY SlotAssumption DEF SlotAssumption
    <2>2. UNCHANGED <<file, fate, lock, writers, clash, torn, asked, acked, pc, cur>>
      BY <1>7 DEF CheckEntry, run
    <2>3. \A p \in Procs : list'[p] \subseteq list[p] /\ (p \in Runners => list'[p] = list[p])
      BY <1>7, <2>1, RunnersAreProcs DEF CheckEntry, LockInv, TypeOK
    <2> QED BY <2>2, <2>3, RunnersAreProcs DEF LockInv, ListsAreLocal, Quiet
  <1>8. ASSUME NEW p \in Farklers, Wake(p) \/ FarkleNone(p)
        PROVE  Quiet
    <2>1. p \notin Runners
      BY SlotAssumption DEF SlotAssumption
    <2>2. UNCHANGED <<file, fate, lock, writers, clash, torn, asked, acked, list, cur>>
      BY <1>8 DEF Wake, FarkleNone, disk, run, hist
    <2>3. \A r \in Runners : pc'[r] = pc[r]
      BY <1>8, <2>1, RunnersAreProcs DEF Wake, FarkleNone, LockInv, TypeOK
    <2> QED BY <2>2, <2>3 DEF LockInv, ListsAreLocal, Quiet
  <1>9. CASE UNCHANGED vars
    BY <1>9 DEF LockInv, ListsAreLocal, Quiet, vars, disk, run, hist
  <1>10. ASSUME NEW r \in Runners, ListDecline(r) \/ ListPick(r)
        PROVE  Quiet
    <2>1. /\ UNCHANGED <<file, fate, lock, writers, clash, torn, asked, acked, list>>
          /\ pc[r] = "read"
          /\ pc' = [pc EXCEPT ![r] = "list"] \/ (pc' = [pc EXCEPT ![r] = "lock"] /\ cur' = cur)
          /\ \A s \in Runners \ {r} : cur'[s] = cur[s]
      BY <1>10 DEF ListDecline, ListPick, LockInv, TypeOK, disk, run, hist
    <2> QED BY <2>1, RunnersAreProcs DEF LockInv, TypeOK, ListsAreLocal, Quiet
  <1> QED BY <1>1, <1>2, <1>3, <1>4, <1>5, <1>6, <1>7, <1>8, <1>9, <1>10

\* The steps that take a page off the queue.
LEMMA RemovingSteps ==
  ASSUME LockInv,
         \/ \E r \in Runners : ListExpire(r) \/ Settle(r)
         \/ \E c \in Checkers : \E m \in Pages : CheckEntry(c, m) /\ age[m] = "old"
         \/ \E p \in Farklers, m \in Pages : FarkleTake(p, m)
         \/ \E m \in Pages : UserDequeue(m)
  PROVE  \E m \in Pages : Removes(m)
  <1>1. ASSUME NEW r \in Runners, ListExpire(r)
        PROVE  cur[r] \in Pages /\ Removes(cur[r])
    <2>1. /\ cur[r] \in Pages /\ Whole(cur[r])
          /\ \E why \in Fates \ {"swept"} : Dequeue(cur[r], why)
      BY <1>1 DEF LockInv, TypeOK, CopiesAreWhole, ListExpire, Fates
    <2>2. /\ UNCHANGED <<clash, torn, acked, asked, list>>
          /\ pc[r] = "read" /\ pc'[r] = "list"
          /\ \A s \in Runners \ {r} : pc'[s] = pc[s] /\ cur'[s] = cur[s]
      BY <1>1, RunnersAreProcs DEF LockInv, TypeOK, ListExpire
    <2> QED BY <2>1, <2>2 DEF LockInv, ListsAreLocal, Removes
  <1>2. ASSUME NEW r \in Runners, Settle(r)
        PROVE  cur[r] \in Pages /\ Removes(cur[r])
    <2>1. /\ cur[r] \in Pages /\ Whole(cur[r])
          /\ \E why \in Fates \ {"swept"} : Dequeue(cur[r], why)
      BY <1>2 DEF LockInv, TypeOK, CopiesAreWhole, Settle, Fates
    <2>2. /\ UNCHANGED <<clash, torn, acked, asked, list>>
          /\ pc[r] = "settle" /\ pc'[r] \in {"hangup", "send"}
          /\ \A s \in Runners \ {r} : pc'[s] = pc[s] /\ cur'[s] = cur[s]
      BY <1>2, RunnersAreProcs DEF LockInv, TypeOK, Settle
    <2> QED BY <2>1, <2>2 DEF LockInv, ListsAreLocal, Removes
  <1>3. ASSUME NEW c \in Checkers, NEW m \in Pages, CheckEntry(c, m), age[m] = "old"
        PROVE  Removes(m)
    <2>1. c \notin Runners /\ c \in Procs
      BY SlotAssumption DEF SlotAssumption, Procs
    <2>2. Whole(m) /\ \E why \in Fates \ {"swept"} : Dequeue(m, why)
      BY <1>3, <2>1 DEF LockInv, CopiesAreWhole, CheckEntry, Fates
    <2>3. /\ UNCHANGED <<clash, torn, acked, asked, pc, cur>>
          /\ \A p \in Procs : list'[p] \subseteq list[p] /\ (p \in Runners => list'[p] = list[p])
      BY <1>3, <2>1 DEF CheckEntry, LockInv, TypeOK, run
    <2> QED BY <2>2, <2>3, RunnersAreProcs DEF LockInv, ListsAreLocal, Removes
  <1>4. ASSUME NEW p \in Farklers, NEW m \in Pages, FarkleTake(p, m)
        PROVE  Removes(m)
    <2>1. p \notin Runners /\ p \in Procs
      BY SlotAssumption DEF SlotAssumption, Procs
    <2>2. Whole(m) /\ \E why \in Fates \ {"swept"} : Dequeue(m, why)
      BY <1>4, <2>1 DEF LockInv, CopiesAreWhole, FarkleTake, Foremost, Fates
    <2>3. /\ UNCHANGED <<clash, torn, acked, asked, cur>>
          /\ \A q \in Procs : list'[q] \subseteq list[q]
          /\ \A r \in Runners : pc'[r] = pc[r] /\ list'[r] = list[r]
      BY <1>4, <2>1, RunnersAreProcs DEF FarkleTake, LockInv, TypeOK, run
    <2> QED BY <2>2, <2>3 DEF LockInv, ListsAreLocal, Removes
  <1>5. ASSUME NEW m \in Pages, UserDequeue(m)
        PROVE  Removes(m)
    BY <1>5 DEF LockInv, CopiesAreWhole, ListsAreLocal, UserDequeue, Removes, Fates, run
  <1> QED BY <1>1, <1>2, <1>3, <1>4, <1>5

\* storequeue, and the removal of a file that was read while still empty.
LEMMA FileSteps ==
  ASSUME LockInv, TypeOK', NEW m \in Pages,
         Store(m) \/ \E p \in Procs : ListSweep(p, m)
  PROVE  LockInv'
  <1>1. /\ UNCHANGED <<lock, writers, clash, torn, asked, acked, list, pc, cur>>
        /\ \A n \in Pages \ {m} : file'[n] = file[n] /\ fate'[n] = fate[n]
        /\ ~Whole(m)
        /\ fate'[m] # "none" => file'[m] = "gone"
    <2>1. CASE StoreOpen(m)
      BY <2>1 DEF LockInv, TypeOK, CopiesAreWhole, StoreOpen, Whole, run, hist
    <2>2. CASE StoreClose(m)
      BY <2>2 DEF LockInv, TypeOK, CopiesAreWhole, StoreClose, Whole, run, hist
    <2>4. CASE StoreUnwritten(m)
      BY <2>4 DEF LockInv, TypeOK, CopiesAreWhole, StoreUnwritten, Whole, run, hist
    <2>3. CASE \E p \in Procs : ListSweep(p, m)
      BY <2>3 DEF LockInv, TypeOK, ListSweep, Whole, run
    <2> QED BY <2>1, <2>2, <2>3, <2>4 DEF Store
  <1>2. \A n \in Pages : Whole(n) => Whole(n)'
    BY <1>1 DEF Whole
  <1>3. CopiesAreWhole'
    <2>1. \A n \in Pages : fate'[n] # "none" => file'[n] = "gone"
      BY <1>1 DEF LockInv, CopiesAreWhole
    <2> QED BY <1>1, <1>2, <2>1 DEF LockInv, TypeOK, CopiesAreWhole
  <1>4. ListsAreLocal' /\ LockFiles'
    BY <1>1 DEF LockInv, ListsAreLocal, LockFiles
  <1>5. \A r \in Runners : m \notin Grip(r)
    BY <1>1, RunnersAreProcs DEF LockInv, CopiesAreWhole, Grip
  <1>6. HandsAreLocked'
    BY <1>1, <1>5 DEF LockInv, HandsAreLocked, Grip
  <1>7. OneRunnerPerPage'
    BY <1>1 DEF LockInv, OneRunnerPerPage, Grip
  <1> QED BY <1>3, <1>4, <1>6, <1>7 DEF LockInv

\* A process other than a runner reads a page.
LEMMA ReadSteps ==
  ASSUME LockInv, TypeOK', NEW m \in Pages,
         UserRead(m) \/ \E p \in Checkers \cup Farklers : ListTake(p, m)
  PROVE  LockInv'
  <1>1. /\ UNCHANGED <<file, fate, lock, writers, clash, torn, acked, pc, cur>>
        /\ file[m] = "full"
        /\ asked' \subseteq asked \cup {m}
    BY DEF UserRead, ListTake, disk, run, hist
  <1>2. /\ \A p \in Procs : list'[p] \subseteq list[p] \cup {m}
        /\ \A r \in Runners : list'[r] = list[r]
    <2>1. CASE UserRead(m)
      BY <2>1 DEF UserRead
    <2>2. ASSUME NEW p \in Checkers \cup Farklers, ListTake(p, m)
          PROVE  /\ \A q \in Procs : list'[q] \subseteq list[q] \cup {m}
                 /\ \A r \in Runners : list'[r] = list[r]
      <3>1. p \in Procs /\ p \notin Runners /\ list \in [Procs -> SUBSET Pages]
        BY SlotAssumption DEF SlotAssumption, Procs, LockInv, TypeOK
      <3>2. list' = [list EXCEPT ![p] = @ \cup {m}]
        BY <2>2 DEF ListTake
      <3> QED BY <3>1, <3>2, RunnersAreProcs
    <2> QED BY <2>1, <2>2
  <1>3. CopiesAreWhole'
    BY <1>1, <1>2 DEF LockInv, TypeOK, CopiesAreWhole, Whole
  <1>4. ListsAreLocal' /\ LockFiles'
    BY <1>1, <1>2 DEF LockInv, ListsAreLocal, LockFiles
  <1>5. HandsAreLocked' /\ OneRunnerPerPage'
    BY <1>1, <1>2 DEF LockInv, HandsAreLocked, OneRunnerPerPage, Grip
  <1> QED BY <1>3, <1>4, <1>5 DEF LockInv

\* A runner reads a page.
LEMMA ListReadStep ==
  ASSUME LockInv, TypeOK', NEW r \in Runners, NEW m \in Pages, ListRead(r, m)
  PROVE  LockInv'
  <1>1. /\ UNCHANGED <<file, fate, lock, writers, clash, torn, acked, asked, list>>
        /\ file[m] = "full" /\ pc[r] = "list" /\ pc'[r] = "read" /\ cur'[r] = m
        /\ \A s \in Runners \ {r} : pc'[s] = pc[s] /\ cur'[s] = cur[s]
    BY RunnersAreProcs DEF LockInv, TypeOK, ListRead, disk, hist
  <1>2. CopiesAreWhole'
    BY <1>1 DEF LockInv, CopiesAreWhole, Whole
  <1>3. ListsAreLocal' /\ LockFiles'
    <2>1. writers \in [Pages -> SUBSET Runners]
      BY DEF LockInv, TypeOK
    <2>2. ListsAreLocal'
      BY <1>1 DEF LockInv, ListsAreLocal
    <2>3. LockFiles'
      BY <1>1, <2>1 DEF LockInv, LockFiles
    <2> QED BY <2>2, <2>3
  <1>4. HandsAreLocked' /\ OneRunnerPerPage'
    BY <1>1 DEF LockInv, HandsAreLocked, OneRunnerPerPage, Grip
  <1> QED BY <1>2, <1>3, <1>4 DEF LockInv

\* q_lock, first half: if the lock was free and the page still in the spool,
\* nobody has the page in hand; otherwise the page is no longer vouched for.
LEMMA LockOpenStep ==
  ASSUME LockInv, TypeOK', NEW r \in Runners, LockOpen(r)
  PROVE  LockInv'
  <1> DEFINE m == cur[r]
  <1>1. /\ m \in Pages
        /\ UNCHANGED <<file, fate, torn, acked, asked, list, cur>>
        /\ pc[r] = "lock" /\ pc'[r] = "lockwrite"
        /\ \A s \in Runners \ {r} : pc'[s] = pc[s]
        /\ lock'[m] = "unwritten" /\ writers'[m] = writers[m] \cup {r}
        /\ \A n \in Pages \ {m} : lock'[n] = lock[n] /\ writers'[n] = writers[n]
    BY RunnersAreProcs DEF LockInv, TypeOK, LockOpen, run
  <1>2. /\ clash \subseteq clash' /\ clash' \subseteq clash \cup {m}
        /\ m \notin clash' => m \notin clash /\ lock[m] = "free" /\ file[m] = "full"
    BY DEF LockOpen
  <1>3. m \notin clash' => writers[m] = {} /\ \A s \in Runners \ {r} : m \notin Grip(s)
    BY <1>1, <1>2, SlotAssumption
       DEF SlotAssumption, LockInv, LockFiles, HandsAreLocked, Grip
  <1>4. CopiesAreWhole'
    BY <1>1 DEF LockInv, CopiesAreWhole, Whole
  <1>5. ListsAreLocal'
    BY <1>1 DEF LockInv, ListsAreLocal
  <1>6. LockFiles'
    <2>1. writers \in [Pages -> SUBSET Runners]
      BY DEF LockInv, TypeOK
    <2> QED BY <1>1, <1>2, <1>3, <2>1 DEF LockInv, LockFiles
  <1>7. HandsAreLocked'
    <2>1. m \notin clash' => m \notin list[r]
      BY <1>1, <1>2, SlotAssumption DEF SlotAssumption, LockInv, HandsAreLocked
    <2> QED BY <1>1, <1>2, <1>3, <2>1 DEF LockInv, HandsAreLocked, Grip
  <1>8. OneRunnerPerPage'
    BY <1>1, <1>2, <1>3 DEF LockInv, OneRunnerPerPage, Grip
  <1> QED BY <1>4, <1>5, <1>6, <1>7, <1>8 DEF LockInv

\* q_lock, second half: the pid is in the file before the page is on the list.
LEMMA LockWriteStep ==
  ASSUME LockInv, TypeOK', NEW r \in Runners, LockWrite(r)
  PROVE  LockInv'
  <1> DEFINE m == cur[r]
  <1>1. /\ m \in Pages
        /\ UNCHANGED <<file, fate, torn, clash, acked, asked>>
        /\ pc[r] = "lockwrite" /\ pc'[r] = "list"
        /\ \A s \in Runners \ {r} : pc'[s] = pc[s] /\ cur'[s] = cur[s]
        /\ list'[r] = list[r] \cup {m}
        /\ \A p \in Procs \ {r} : list'[p] = list[p]
        /\ lock'[m] = (IF r \in writers[m] THEN r ELSE lock[m])
        /\ writers'[m] = writers[m] \ {r}
        /\ \A n \in Pages \ {m} : lock'[n] = lock[n] /\ writers'[n] = writers[n]
    BY RunnersAreProcs DEF LockInv, TypeOK, LockWrite, hist
  <1>2. CopiesAreWhole'
    <2>1. \A p \in Procs : list'[p] \subseteq list[p] \cup (IF p = r THEN {m} ELSE {})
      BY <1>1, RunnersAreProcs
    <2>2. Whole(m) /\ \A n \in Pages : Whole(n)' = Whole(n)
      BY <1>1 DEF LockInv, CopiesAreWhole, Whole
    <2>3. /\ list' \in [Procs -> SUBSET Pages] /\ asked \cup acked \subseteq Pages
          /\ \A s \in Runners : pc[s] \in {"read", "lock", "lockwrite", "settle"} => cur[s] \in Pages
      BY DEF LockInv, TypeOK
    <2>4. \A p \in Procs : \A n \in list'[p] : Whole(n)'
      BY <2>1, <2>2, <2>3 DEF LockInv, CopiesAreWhole
    <2> QED BY <1>1, <2>2, <2>3, <2>4 DEF LockInv, CopiesAreWhole
  <1>3. ListsAreLocal'
    BY <1>1, RunnersAreProcs DEF LockInv, ListsAreLocal
  <1>4. LockFiles'
    <2>1. writers \in [Pages -> SUBSET Runners]
      BY DEF LockInv, TypeOK
    <2> QED BY <1>1, <2>1, SlotAssumption DEF SlotAssumption, LockInv, LockFiles
  <1>5. \A s \in Runners : Grip(s)' = Grip(s)
    BY <1>1, RunnersAreProcs DEF Grip
  <1>6. HandsAreLocked'
    <2>1. m \notin clash => \A s \in Runners \ {r} : m \notin Grip(s)
      BY <1>1 DEF LockInv, OneRunnerPerPage, Grip
    <2> QED BY <1>1, <2>1, RunnersAreProcs DEF LockInv, HandsAreLocked, Grip
  <1>7. OneRunnerPerPage'
    BY <1>1, <1>5 DEF LockInv, OneRunnerPerPage
  <1> QED BY <1>2, <1>3, <1>4, <1>6, <1>7 DEF LockInv

LEMMA LockFailStep ==
  ASSUME LockInv, TypeOK', NEW r \in Runners, LockFail(r)
  PROVE  LockInv'
  <1> DEFINE m == cur[r]
  <1>1. /\ m \in Pages
        /\ UNCHANGED <<file, fate, torn, acked, asked, lock, writers>>
        /\ clash' = clash \cup {m}
        /\ pc[r] = "lock" /\ pc'[r] = "list"
        /\ \A s \in Runners \ {r} : pc'[s] = pc[s] /\ cur'[s] = cur[s]
        /\ list'[r] = list[r] \cup {m}
        /\ \A p \in Procs \ {r} : list'[p] = list[p]
    BY RunnersAreProcs DEF LockInv, TypeOK, LockFail, disk
  <1>2. CopiesAreWhole'
    <2>1. \A p \in Procs : list'[p] \subseteq list[p] \cup (IF p = r THEN {m} ELSE {})
      BY <1>1, RunnersAreProcs
    <2>2. Whole(m) /\ \A n \in Pages : Whole(n)' = Whole(n)
      BY <1>1 DEF LockInv, CopiesAreWhole, Whole
    <2>3. /\ list' \in [Procs -> SUBSET Pages] /\ asked \cup acked \subseteq Pages
          /\ \A s \in Runners : pc[s] \in {"read", "lock", "lockwrite", "settle"} => cur[s] \in Pages
      BY DEF LockInv, TypeOK
    <2>4. \A p \in Procs : \A n \in list'[p] : Whole(n)'
      BY <2>1, <2>2, <2>3 DEF LockInv, CopiesAreWhole
    <2> QED BY <1>1, <2>2, <2>3, <2>4 DEF LockInv, CopiesAreWhole
  <1>3. ListsAreLocal' /\ LockFiles'
    <2>1. writers \in [Pages -> SUBSET Runners]
      BY DEF LockInv, TypeOK
    <2>2. ListsAreLocal'
      BY <1>1, RunnersAreProcs DEF LockInv, ListsAreLocal
    <2>3. LockFiles'
      BY <1>1, <2>1 DEF LockInv, LockFiles
    <2> QED BY <2>2, <2>3
  <1>4. HandsAreLocked' /\ OneRunnerPerPage'
    BY <1>1, RunnersAreProcs DEF LockInv, HandsAreLocked, OneRunnerPerPage, Grip
  <1> QED BY <1>2, <1>3, <1>4 DEF LockInv

\* The page moves from the list into the hand that sends it.
LEMMA SendStep ==
  ASSUME LockInv, TypeOK', NEW r \in Runners, NEW m \in Pages, NEW answer \in Answers,
         Send(r, m, answer)
  PROVE  LockInv'
  <1>1. /\ UNCHANGED <<file, fate, torn, clash, asked, lock, writers>>
        /\ acked' \subseteq acked \cup {m}
        /\ pc[r] = "send" /\ pc'[r] = "settle" /\ cur'[r] = m
        /\ \A s \in Runners \ {r} : pc'[s] = pc[s] /\ cur'[s] = cur[s]
        /\ m \in list[r] /\ list'[r] = list[r] \ {m}
        /\ \A p \in Procs \ {r} : list'[p] = list[p]
    BY RunnersAreProcs DEF LockInv, TypeOK, Send, Foremost, disk
  <1>2. CopiesAreWhole'
    <2>1. Whole(m) /\ \A n \in Pages : Whole(n)' = Whole(n)
      BY <1>1, RunnersAreProcs DEF LockInv, CopiesAreWhole, Whole
    <2>2. /\ list \in [Procs -> SUBSET Pages] /\ asked \cup acked \subseteq Pages
          /\ \A s \in Runners : pc[s] \in {"read", "lock", "lockwrite", "settle"} => cur[s] \in Pages
      BY DEF LockInv, TypeOK
    <2>3. \A p \in Procs : list'[p] \subseteq list[p]
      BY <1>1
    <2> QED BY <1>1, <2>1, <2>2, <2>3 DEF LockInv, CopiesAreWhole
  <1>3. ListsAreLocal'
    BY <1>1, RunnersAreProcs DEF LockInv, ListsAreLocal
  <1>4. LockFiles'
    <2>1. writers \in [Pages -> SUBSET Runners]
      BY DEF LockInv, TypeOK
    <2> QED BY <1>1, <2>1 DEF LockInv, LockFiles
  <1>5. HandsAreLocked'
    BY <1>1, RunnersAreProcs DEF LockInv, HandsAreLocked
  <1>6. OneRunnerPerPage'
    <2>1. \A s \in Runners : Grip(s)' = Grip(s)
      BY <1>1, RunnersAreProcs DEF Grip
    <2> QED BY <1>1, <2>1 DEF LockInv, OneRunnerPerPage
  <1> QED BY <1>2, <1>3, <1>4, <1>5, <1>6 DEF LockInv

\* The lock is given back: no other runner has the page in hand.
LEMMA DeferStep ==
  ASSUME LockInv, TypeOK', NEW r \in Runners, Defer(r)
  PROVE  LockInv'
  <1> DEFINE m == cur[r]
  <1>1. /\ m \in Pages
        /\ UNCHANGED <<file, fate, torn, clash, asked, acked, list>>
        /\ pc[r] = "settle" /\ pc'[r] \in {"hangup", "send"}
        /\ \A s \in Runners \ {r} : pc'[s] = pc[s] /\ cur'[s] = cur[s]
        /\ lock'[m] = "free" /\ writers'[m] = {}
        /\ \A n \in Pages \ {m} : lock'[n] = lock[n] /\ writers'[n] = writers[n]
    BY RunnersAreProcs DEF LockInv, TypeOK, Defer, Unlock, hist
  <1>2. CopiesAreWhole' /\ ListsAreLocal'
    BY <1>1 DEF LockInv, CopiesAreWhole, ListsAreLocal, Whole
  <1>3. LockFiles'
    <2>1. writers \in [Pages -> SUBSET Runners]
      BY DEF LockInv, TypeOK
    <2> QED BY <1>1, <2>1 DEF LockInv, LockFiles
  <1>4. HandsAreLocked'
    <2>1. m \notin clash => \A s \in Runners : m \notin list[s] /\ (s # r => m \notin Grip(s))
      BY <1>1 DEF LockInv, OneRunnerPerPage, ListsAreLocal, Grip
    <2> QED BY <1>1, <2>1 DEF LockInv, HandsAreLocked, Grip
  <1>5. OneRunnerPerPage'
    BY <1>1 DEF LockInv, OneRunnerPerPage, Grip
  <1> QED BY <1>2, <1>3, <1>4, <1>5 DEF LockInv

\* cleanmylocks removes r's own lock, or an empty one: if somebody else has it
\* open, the page is no longer vouched for.
LEMMA CleanStep ==
  ASSUME LockInv, TypeOK', NEW r \in Runners, NEW m \in Pages, CleanLock(r, m)
  PROVE  LockInv'
  <1>1. /\ UNCHANGED <<file, fate, torn, asked, acked, list, pc, cur>>
        /\ pc[r] = "clean" /\ list[r] = {}
        /\ clash \subseteq clash' /\ clash' \subseteq clash \cup {m}
        /\ \A n \in Pages \ {m} : lock'[n] = lock[n] /\ writers'[n] = writers[n]
    BY DEF LockInv, TypeOK, ListsAreLocal, CleanLock, Unlock
  <1>2. \/ lock'[m] = lock[m] /\ writers'[m] = writers[m]
        \/ /\ lock'[m] = "free" /\ writers'[m] = {}
           /\ lock[m] \in {r, "unwritten"}
           /\ m \notin clash' => writers[m] \ {r} = {}
    BY DEF LockInv, TypeOK, CleanLock, Unlock
  <1>3. CopiesAreWhole' /\ ListsAreLocal'
    BY <1>1 DEF LockInv, CopiesAreWhole, ListsAreLocal, Whole
  <1>4. LockFiles'
    <2>1. writers \in [Pages -> SUBSET Runners]
      BY DEF LockInv, TypeOK
    <2> QED BY <1>1, <1>2, <2>1 DEF LockInv, LockFiles
  <1>5. HandsAreLocked'
    <2>1. ASSUME m \notin clash', lock[m] \in {r, "unwritten"}, writers[m] \ {r} = {},
                 file[m] = "full"
          PROVE  \A s \in Runners : m \notin Grip(s)
      BY <1>1, <2>1, SlotAssumption
         DEF SlotAssumption, LockInv, HandsAreLocked, Grip
    <2> QED BY <1>1, <1>2, <2>1 DEF LockInv, HandsAreLocked, Grip
  <1>6. OneRunnerPerPage'
    BY <1>1 DEF LockInv, OneRunnerPerPage, Grip
  <1> QED BY <1>3, <1>4, <1>5, <1>6 DEF LockInv

\* The process is gone; what is left of its locks protects no other runner.
LEMMA ExitStep ==
  ASSUME LockInv, TypeOK', NEW r \in Runners, Exit(r) \/ Die(r)
  PROVE  LockInv'
  <1>1. /\ UNCHANGED <<file, fate, torn, clash, asked, acked>>
        /\ pc'[r] = "off" /\ list'[r] = {}
        /\ \A s \in Runners \ {r} : pc'[s] = pc[s] /\ cur'[s] = cur[s]
        /\ \A p \in Procs \ {r} : list'[p] = list[p]
    <2>1. CASE Exit(r)
      BY <2>1, RunnersAreProcs DEF LockInv, TypeOK, ListsAreLocal, Exit, hist
    <2>2. CASE Die(r)
      BY <2>2, RunnersAreProcs DEF LockInv, TypeOK, Die, Forget
    <2> QED BY <2>1, <2>2
  <1>2. \A n \in Pages :
          /\ writers'[n] = writers[n] \ {r}
          /\ \/ lock'[n] = lock[n]
             \/ lock'[n] = "dead" /\ (lock[n] = r \/ r \in writers[n])
    BY DEF Exit, Die, LeaveLocks
  <1>3. CopiesAreWhole'
    <2>1. \A n \in Pages : Whole(n)' = Whole(n)
      BY <1>1 DEF Whole
    <2>2. /\ list \in [Procs -> SUBSET Pages] /\ asked \cup acked \subseteq Pages
          /\ \A s \in Runners : pc[s] \in {"read", "lock", "lockwrite", "settle"} => cur[s] \in Pages
      BY DEF LockInv, TypeOK
    <2>3. \A p \in Procs : list'[p] \subseteq list[p]
      BY <1>1, RunnersAreProcs
    <2> QED BY <1>1, <2>1, <2>2, <2>3 DEF LockInv, CopiesAreWhole
  <1>4. ListsAreLocal'
    BY <1>1, RunnersAreProcs DEF LockInv, ListsAreLocal
  <1>5. LockFiles'
    <2>1. writers \in [Pages -> SUBSET Runners]
      BY DEF LockInv, TypeOK
    <2> QED BY <1>1, <1>2, <2>1, SlotAssumption DEF SlotAssumption, LockInv, LockFiles
  <1>6. HandsAreLocked'
    <2>1. ASSUME NEW n \in Pages \ clash, NEW s \in Runners \ {r}, file[n] = "full",
                 n \in list[s] \/ (pc[s] = "settle" /\ cur[s] = n)
          PROVE  lock[n] = s /\ r \notin writers[n]
      BY <2>1, SlotAssumption DEF SlotAssumption, LockInv, HandsAreLocked, LockFiles
    <2> QED BY <1>1, <1>2, <2>1, RunnersAreProcs DEF LockInv, HandsAreLocked
  <1>7. OneRunnerPerPage'
    <2>1. \A s \in Runners : Grip(s)' \subseteq Grip(s)
      BY <1>1, RunnersAreProcs DEF Grip
    <2> QED BY <1>1, <2>1 DEF LockInv, OneRunnerPerPage
  <1> QED BY <1>3, <1>4, <1>5, <1>6, <1>7 DEF LockInv

LEMMA SignalStep ==
  ASSUME LockInv, TypeOK', NEW r \in Runners, Signal(r)
  PROVE  LockInv'
  <1>1. /\ UNCHANGED <<file, fate, clash, asked, acked, lock, writers>>
        /\ torn' = (torn \/ pc[r] = "lockwrite")
        /\ pc'[r] = "clean" /\ list'[r] = {} /\ pc[r] # "clean"
        /\ \A s \in Runners \ {r} : pc'[s] = pc[s] /\ cur'[s] = cur[s]
        /\ \A p \in Procs \ {r} : list'[p] = list[p]
    BY RunnersAreProcs DEF LockInv, TypeOK, Signal, StartCleaning, Forget, disk
  <1>2. CopiesAreWhole'
    <2>1. \A n \in Pages : Whole(n)' = Whole(n)
      BY <1>1 DEF Whole
    <2>2. /\ list \in [Procs -> SUBSET Pages] /\ asked \cup acked \subseteq Pages
          /\ \A s \in Runners : pc[s] \in {"read", "lock", "lockwrite", "settle"} => cur[s] \in Pages
      BY DEF LockInv, TypeOK
    <2>3. \A p \in Procs : list'[p] \subseteq list[p]
      BY <1>1, RunnersAreProcs
    <2> QED BY <1>1, <2>1, <2>2, <2>3 DEF LockInv, CopiesAreWhole
  <1>3. ListsAreLocal'
    BY <1>1, RunnersAreProcs DEF LockInv, ListsAreLocal
  <1>4. LockFiles'
    <2>1. writers \in [Pages -> SUBSET Runners]
      BY DEF LockInv, TypeOK
    <2>2. torn => torn'
      BY <1>1
    <2>3. pc[r] = "lockwrite" => torn'
      BY <1>1
    <2>4. ASSUME NEW n \in Pages, NEW s \in writers[n]
          PROVE  \/ pc'[s] = "lockwrite" /\ cur'[s] = n
                 \/ pc'[s] = "clean" /\ torn'
      <3>1. s \in Runners
        BY <2>1
      <3>2. \/ pc[s] = "lockwrite" /\ cur[s] = n
            \/ pc[s] = "clean" /\ torn
        BY DEF LockInv, LockFiles
      <3> QED BY <1>1, <2>2, <2>3, <3>1, <3>2
    <2> QED BY <1>1, <2>1, <2>4 DEF LockInv, LockFiles
  <1>5. HandsAreLocked'
    BY <1>1, RunnersAreProcs DEF LockInv, HandsAreLocked
  <1>6. OneRunnerPerPage'
    <2>1. \A s \in Runners : Grip(s)' \subseteq Grip(s)
      BY <1>1, RunnersAreProcs DEF Grip
    <2> QED BY <1>1, <2>1 DEF LockInv, OneRunnerPerPage
  <1> QED BY <1>2, <1>3, <1>4, <1>5, <1>6 DEF LockInv

LEMMA NextLock == LockInv /\ [Next]_vars => LockInv'
  <1> SUFFICES ASSUME LockInv, [Next]_vars PROVE LockInv'
    OBVIOUS
  <1>0. TypeOK'
    BY NextType DEF LockInv
  <1>1. ASSUME NEW m \in Pages, Store(m) \/ Tick(m) \/ UserStep(m) PROVE LockInv'
    BY <1>0, <1>1, FileSteps, ReadSteps, QuietSteps, QuietLock, RemovingSteps, RemovesLock
       DEF Store, UserStep
  <1>2. ASSUME NEW r \in Runners, StartRunner(r) \/ RunnerStep(r) \/ Signal(r) \/ Die(r)
        PROVE  LockInv'
    <2>1. CASE ListStep(r)
      BY <1>0, <2>1, RunnersAreProcs, FileSteps, QuietSteps, QuietLock DEF ListStep
    <2>2. CASE \E m \in Pages : ListRead(r, m) \/ CleanLock(r, m)
      BY <1>0, <2>2, ListReadStep, CleanStep
    <2>3. CASE \E m \in Pages, answer \in Answers : Send(r, m, answer)
      BY <1>0, <2>3, SendStep
    <2>4. CASE LockOpen(r) \/ LockWrite(r) \/ LockFail(r) \/ Defer(r) \/ Settle(r)
               \/ ListExpire(r)
      BY <1>0, <2>4, LockOpenStep, LockWriteStep, LockFailStep, DeferStep,
         RemovingSteps, RemovesLock
    <2>5. CASE Exit(r) \/ Die(r) \/ Signal(r)
      BY <1>0, <2>5, ExitStep, SignalStep
    <2>6. CASE \/ StartRunner(r) \/ ListEmpty(r) \/ ListReady(r) \/ OpenTerm(r)
               \/ OpenFail(r) \/ TapInit(r) \/ TapInitFail(r) \/ Relist(r) \/ Hangup(r)
               \/ ListDecline(r) \/ ListPick(r)
      BY <1>0, <2>6, QuietSteps, QuietLock
    <2> QED BY <1>2, <2>1, <2>2, <2>3, <2>4, <2>5, <2>6 DEF RunnerStep
  <1>3. ASSUME NEW c \in Checkers, CheckerStep(c) PROVE LockInv'
    <2>1. CASE ListStep(c)
      BY <1>0, <2>1, FileSteps, QuietSteps, QuietLock DEF ListStep, Procs
    <2>2. CASE \E m \in Pages : ListTake(c, m)
      BY <1>0, <2>2, ReadSteps
    <2>3. CASE \E m \in Pages : CheckEntry(c, m)
      BY <1>0, <2>3, QuietSteps, QuietLock, RemovingSteps, RemovesLock
    <2>4. CASE Wake(c) \/ CheckStart(c) \/ CheckFork(c) \/ CheckEnd(c) \/ CheckWait(c)
      BY <1>0, <2>4, QuietSteps, QuietLock
    <2> QED BY <1>3, <2>1, <2>2, <2>3, <2>4 DEF CheckerStep
  <1>4. ASSUME NEW p \in Farklers, FarklerStep(p) PROVE LockInv'
    <2>1. CASE ListStep(p)
      BY <1>0, <2>1, FileSteps, QuietSteps, QuietLock DEF ListStep, Procs
    <2>2. CASE \E m \in Pages : ListTake(p, m)
      BY <1>0, <2>2, ReadSteps
    <2>3. CASE \E m \in Pages : FarkleTake(p, m)
      BY <1>0, <2>3, RemovingSteps, RemovesLock
    <2>4. CASE Wake(p) \/ FarkleNone(p)
      BY <1>0, <2>4, QuietSteps, QuietLock
    <2> QED BY <1>4, <2>1, <2>2, <2>3, <2>4 DEF FarklerStep
  <1>5. CASE UNCHANGED vars
    BY <1>0, <1>5, QuietSteps, QuietLock
  <1> QED BY <1>1, <1>2, <1>3, <1>4, <1>5 DEF Next

(* The strengthened lock invariant is inductive: copies in memory were read    *)
(* whole, an open lock file has one known writer, and whatever a runner has in *)
(* hand and is still in the spool is covered by its lock.                      *)
THEOREM LockInvariant == Spec => []LockInv
  BY InitLock, NextLock, PTL DEF Spec

(* The lock files do what they are for: a page is in the hands of one runner  *)
(* at a time, and a listed page that is still in the spool carries its        *)
(* runner's pid, except for the pages whose lock was not taken cleanly.       *)
THEOREM MutualExclusion == Spec => [](OneRunnerPerPage /\ ListedIsLocked)
  <1>1. LockInv => OneRunnerPerPage /\ ListedIsLocked
    BY DEF LockInv, HandsAreLocked, ListedIsLocked
  <1> QED BY <1>1, LockInvariant, PTL

(* A listed page that is still in the spool carries its runner's pid, except   *)
(* for the pages whose lock was not taken cleanly.                             *)
THEOREM ListsAreLocked == Spec => []ListedIsLocked
  <1>1. LockInv => ListedIsLocked
    BY DEF LockInv, HandsAreLocked, ListedIsLocked
  <1> QED BY <1>1, LockInvariant, PTL

-----------------------------------------------------------------------------
(* No lock without an owner *)

\* Steps that take no lock, end no runner, and let a runner that starts to
\* clean up see every lock file there is.
Calm ==
    /\ UNCHANGED <<deaths, torn>>
    /\ UNCHANGED <<lock, writers>> \/ \E m \in Pages : Unlock(m)
    /\ \A r \in Runners :
          /\ pc'[r] = "off" => pc[r] = "off"
          /\ pc'[r] = "clean" =>
                \/ pc[r] = "clean" /\ todo'[r] = todo[r]
                \/ todo'[r] = {n \in Pages : lock[n] # "free"} /\ lock' = lock

LEMMA CalmOrphan ==
  ASSUME TypeOK, OrphanInv, Calm
  PROVE  OrphanInv'
  <1>1. CASE UNCHANGED <<lock, writers>>
    BY <1>1, SlotAssumption
       DEF SlotAssumption, TypeOK, OrphanInv, LocksHaveOwners, NoOrphanLock, Calm
  <1>2. ASSUME NEW m \in Pages, Unlock(m)
        PROVE  OrphanInv'
    <2>1. /\ lock'[m] = "free"
          /\ \A n \in Pages \ {m} : lock'[n] = lock[n] /\ writers'[n] = writers[n]
      BY <1>2 DEF TypeOK, Unlock
    <2>2. LocksHaveOwners'
      BY <2>1, SlotAssumption
         DEF SlotAssumption, OrphanInv, LocksHaveOwners, Calm
    <2>3. NoOrphanLock'
      BY <2>1 DEF OrphanInv, NoOrphanLock, Calm
    <2> QED BY <2>2, <2>3 DEF OrphanInv
  <1> QED BY <1>1, <1>2 DEF Calm

\* Steps of processes that are not runners, and steps on the pages themselves.
LEMMA ClientsAreCalm ==
  ASSUME TypeOK,
         \/ \E m \in Pages : Store(m) \/ Tick(m) \/ UserStep(m)
         \/ \E c \in Checkers : CheckerStep(c)
         \/ \E p \in Farklers : FarklerStep(p)
         \/ UNCHANGED vars
  PROVE  Calm
  <1>0. \A p \in Checkers \cup Farklers : p \in Procs /\ p \notin Runners
    BY SlotAssumption DEF SlotAssumption, Procs
  <1>1. ASSUME NEW m \in Pages, StoreOpen(m) PROVE Calm
    BY <1>1, RunnersAreProcs DEF StoreOpen, Scanning, Calm, run, hist
  <1>2. ASSUME NEW m \in Pages,
               StoreClose(m) \/ StoreUnwritten(m) \/ Tick(m) \/ UserRead(m)
        PROVE  Calm
    BY <1>2 DEF StoreClose, StoreUnwritten, Tick, UserRead, Calm, disk, run, hist
  <1>3. ASSUME NEW m \in Pages, UserDequeue(m) PROVE Calm
    BY <1>3 DEF UserDequeue, Dequeue, Calm, run
  <1>4. ASSUME NEW p \in Checkers \cup Farklers, NEW m \in Pages,
               ListSweep(p, m) \/ ListSkip(p, m) \/ ListTake(p, m)
        PROVE  Calm
    <2>1. UNCHANGED <<deaths, torn, lock, writers, pc>>
      BY <1>4 DEF ListSweep, ListSkip, ListTake, disk, run, hist
    <2>2. \A r \in Runners : todo'[r] = todo[r]
      BY <1>0, <1>4, RunnersAreProcs DEF TypeOK, ListSweep, ListSkip, ListTake
    <2> QED BY <2>1, <2>2 DEF Calm
  <1>5. ASSUME NEW p \in Checkers \cup Farklers,
               \/ Wake(p) \/ CheckStart(p) \/ CheckEnd(p) \/ CheckWait(p) \/ FarkleNone(p)
        PROVE  Calm
    <2>1. UNCHANGED <<deaths, torn, lock, writers>>
      BY <1>5 DEF Wake, CheckStart, CheckEnd, CheckWait, FarkleNone, disk, run, hist
    <2>2. \A r \in Runners : todo'[r] = todo[r] /\ pc'[r] = pc[r]
      BY <1>0, <1>5, RunnersAreProcs
         DEF TypeOK, Wake, CheckStart, CheckEnd, CheckWait, FarkleNone, OpenSpool
    <2> QED BY <2>1, <2>2 DEF Calm
  <1>6. ASSUME NEW c \in Checkers, CheckFork(c) PROVE Calm
    <2>1. UNCHANGED <<deaths, torn, lock, writers>>
      BY <1>6 DEF CheckFork, disk, run, hist
    <2>2. \A r \in Runners : \/ todo'[r] = todo[r] /\ pc'[r] = pc[r]
                             \/ pc'[r] = "list"
      BY <1>0, <1>6, RunnersAreProcs DEF TypeOK, CheckFork, OpenSpool
    <2> QED BY <2>1, <2>2 DEF Calm
  <1>7. ASSUME NEW c \in Checkers, NEW m \in Pages, CheckEntry(c, m) PROVE Calm
    BY <1>7 DEF CheckEntry, Dequeue, Calm, run
  <1>8. ASSUME NEW p \in Farklers, NEW m \in Pages, FarkleTake(p, m) PROVE Calm
    <2>1. UNCHANGED <<deaths, torn, todo>> /\ Unlock(m)
      BY <1>8 DEF FarkleTake, Dequeue, run
    <2>2. \A r \in Runners : pc'[r] = pc[r]
      BY <1>0, <1>8, RunnersAreProcs DEF TypeOK, FarkleTake
    <2> QED BY <2>1, <2>2 DEF Calm
  <1>9. CASE UNCHANGED vars
    BY <1>9 DEF Calm, vars, disk, run, hist
  <1> QED BY <1>1, <1>2, <1>3, <1>4, <1>5, <1>6, <1>7, <1>8, <1>9
          DEF Store, UserStep, CheckerStep, FarklerStep, ListStep

\* Steps of a runner outside q_lock and cleanmylocks.
LEMMA WorkIsCalm ==
  ASSUME TypeOK, NEW r \in Runners,
         \/ StartRunner(r) \/ ListStep(r)
         \/ \E m \in Pages : ListRead(r, m)
         \/ ListDecline(r) \/ ListExpire(r) \/ ListPick(r)
         \/ \E m \in Pages, answer \in Answers : Send(r, m, answer)
         \/ LockFail(r) \/ ListEmpty(r) \/ ListReady(r) \/ OpenTerm(r) \/ OpenFail(r)
         \/ TapInit(r) \/ TapInitFail(r) \/ Settle(r) \/ Defer(r) \/ Relist(r) \/ Hangup(r)
  PROVE  Calm
  <1>0. r \in Procs
    BY RunnersAreProcs
  <1>1. CASE \/ \E m \in Pages : ListSweep(r, m) \/ ListSkip(r, m) \/ ListRead(r, m)
             \/ ListDecline(r) \/ ListExpire(r) \/ ListPick(r)
    <2>1. /\ UNCHANGED <<deaths, torn>>
          /\ UNCHANGED <<lock, writers>> \/ (cur[r] \in Pages /\ Unlock(cur[r]))
      BY <1>1 DEF TypeOK, ListSweep, ListSkip, ListRead, ListDecline, ListExpire, ListPick,
                  Dequeue, disk, run, hist
    <2>2. /\ pc'[r] \in {"list", "read", "lock"}
          /\ \A s \in Runners \ {r} : pc'[s] = pc[s] /\ todo'[s] = todo[s]
      BY <1>0, <1>1, RunnersAreProcs
         DEF TypeOK, ListSweep, ListSkip, ListRead, ListDecline, ListExpire, ListPick
    <2> QED BY <2>1, <2>2 DEF Calm
  <1>2. ASSUME NEW m \in Pages, NEW answer \in Answers, Send(r, m, answer)
        PROVE  Calm
    BY <1>0, <1>2, RunnersAreProcs DEF TypeOK, Send, Calm, disk
  <1>3. CASE Settle(r) \/ Defer(r)
    <2>1. UNCHANGED <<deaths, torn, todo>> /\ cur[r] \in Pages /\ Unlock(cur[r])
      BY <1>3 DEF TypeOK, Settle, Defer, Dequeue, hist
    <2>2. pc'[r] \in {"send", "hangup"} /\ \A s \in Runners \ {r} : pc'[s] = pc[s]
      BY <1>0, <1>3, RunnersAreProcs DEF TypeOK, Settle, Defer
    <2> QED BY <2>1, <2>2 DEF Calm
  <1>4. CASE StartRunner(r) \/ LockFail(r) \/ ListReady(r) \/ OpenTerm(r) \/ TapInit(r)
             \/ Relist(r)
    <2>1. UNCHANGED <<deaths, torn, lock, writers>>
      BY <1>4 DEF StartRunner, LockFail, ListReady, OpenTerm, TapInit, Relist, disk, hist
    <2>2. /\ pc'[r] \in {"list", "send", "open", "init"}
          /\ \A s \in Runners \ {r} : pc'[s] = pc[s] /\ todo'[s] = todo[s]
      BY <1>0, <1>4, RunnersAreProcs
         DEF TypeOK, StartRunner, LockFail, ListReady, OpenTerm, TapInit, Relist, OpenSpool
    <2> QED BY <2>1, <2>2 DEF Calm
  <1>5. CASE ListEmpty(r) \/ OpenFail(r) \/ TapInitFail(r) \/ Hangup(r)
    <2>1. UNCHANGED <<deaths, torn, lock, writers>>
      BY <1>5 DEF ListEmpty, OpenFail, TapInitFail, Hangup, disk, hist
    <2>2. /\ \/ pc'[r] = "list"
             \/ pc'[r] = "clean" /\ todo'[r] = {n \in Pages : lock[n] # "free"}
          /\ \A s \in Runners \ {r} : pc'[s] = pc[s] /\ todo'[s] = todo[s]
      <3>1. CASE NextTerminal(r)
        BY <1>0, <3>1, RunnersAreProcs DEF TypeOK, NextTerminal, OpenSpool
      <3>2. CASE StartCleaning(r)
        BY <1>0, <3>2, RunnersAreProcs DEF TypeOK, StartCleaning
      <3> QED BY <1>5, <3>1, <3>2 DEF ListEmpty, OpenFail, TapInitFail, Hangup
    <2> QED BY <2>1, <2>2 DEF Calm
  <1> QED BY <1>1, <1>2, <1>3, <1>4, <1>5 DEF ListStep

LEMMA InitOrphan == Init => OrphanInv
  BY SlotAssumption DEF SlotAssumption, Init, OrphanInv, LocksHaveOwners, NoOrphanLock

LEMMA QLockOrphan ==
  ASSUME LockInv, OrphanInv, NEW r \in Runners, LockOpen(r) \/ LockWrite(r)
  PROVE  OrphanInv'
  <1>0. /\ r \in Procs /\ cur[r] \in Pages
        /\ lock \in [Pages -> Runners \cup {"free", "unwritten", "dead"}]
        /\ writers \in [Pages -> SUBSET Runners]
    BY RunnersAreProcs DEF LockInv, TypeOK, LockOpen, LockWrite
  <1>1. UNCHANGED <<deaths, torn, todo>>
    BY DEF LockOpen, LockWrite, hist, run
  <1>2. /\ pc[r] \notin {"off", "clean"} /\ pc'[r] \notin {"off", "clean"}
        /\ \A s \in Runners \ {r} : pc'[s] = pc[s]
    BY <1>0, RunnersAreProcs DEF LockInv, TypeOK, LockOpen, LockWrite
  <1>3. \A n \in Pages \ {cur[r]} : lock'[n] = lock[n] /\ writers'[n] = writers[n]
    BY <1>0 DEF LockOpen, LockWrite
  <1>4. \/ lock'[cur[r]] = "unwritten" /\ writers'[cur[r]] # {}
        \/ lock'[cur[r]] = r
        \/ lock'[cur[r]] = lock[cur[r]] /\ writers'[cur[r]] = writers[cur[r]]
    <2>1. CASE LockOpen(r)
      <3>1. lock'[cur[r]] = "unwritten" /\ writers'[cur[r]] = writers[cur[r]] \cup {r}
        BY <1>0, <2>1 DEF LockOpen
      <3> QED BY <3>1
    <2>2. CASE LockWrite(r)
      <3>1. /\ lock'[cur[r]] = IF r \in writers[cur[r]] THEN r ELSE lock[cur[r]]
            /\ writers'[cur[r]] = writers[cur[r]] \ {r}
        BY <1>0, <2>2 DEF LockWrite
      <3> QED BY <3>1
    <2> QED BY <2>1, <2>2
  <1>5. LocksHaveOwners'
    BY <1>1, <1>2, <1>3, <1>4, SlotAssumption
       DEF SlotAssumption, OrphanInv, LocksHaveOwners
  <1>6. NoOrphanLock'
    BY <1>1, <1>3, <1>4, SlotAssumption DEF SlotAssumption, OrphanInv, NoOrphanLock
  <1> QED BY <1>5, <1>6 DEF OrphanInv

\* A lock file cleanmylocks leaves behind does not carry its own pid.
LEMMA CleanOrphan ==
  ASSUME LockInv, OrphanInv, NEW r \in Runners, NEW m \in Pages, CleanLock(r, m)
  PROVE  OrphanInv'
  <1>0. /\ r \in Procs
        /\ lock \in [Pages -> Runners \cup {"free", "unwritten", "dead"}]
        /\ writers \in [Pages -> SUBSET Runners]
        /\ todo \in [Procs -> SUBSET Pages]
    BY RunnersAreProcs DEF LockInv, TypeOK
  <1>1. UNCHANGED <<deaths, torn, pc>> /\ pc[r] = "clean"
    BY DEF CleanLock
  <1>2. /\ todo'[r] = todo[r] \ {m}
        /\ \A s \in Runners \ {r} : todo'[s] = todo[s]
    BY <1>0, RunnersAreProcs DEF CleanLock
  <1>3. /\ \A n \in Pages \ {m} : lock'[n] = lock[n] /\ writers'[n] = writers[n]
        /\ \/ lock'[m] = "free"
           \/ lock'[m] = lock[m] /\ writers'[m] = writers[m] /\ lock[m] # r
    BY <1>0 DEF CleanLock, Unlock
  <1>4. LocksHaveOwners'
    BY <1>1, <1>2, <1>3, SlotAssumption DEF SlotAssumption, OrphanInv, LocksHaveOwners
  <1>5. NoOrphanLock'
    BY <1>1, <1>3 DEF OrphanInv, NoOrphanLock
  <1> QED BY <1>4, <1>5 DEF OrphanInv

\* When cleanmylocks is through, the runner has no lock left to lose, unless a
\* signal caught it inside q_lock.
LEMMA ExitOrphan ==
  ASSUME LockInv, OrphanInv, NEW r \in Runners, Exit(r)
  PROVE  OrphanInv'
  <1>0. /\ r \in Procs
        /\ writers \in [Pages -> SUBSET Runners]
        /\ pc[r] = "clean" /\ todo[r] = {}
        /\ UNCHANGED <<deaths, torn, todo>>
    BY RunnersAreProcs DEF LockInv, TypeOK, Exit, hist
  <1>1. \A n \in Pages : lock[n] # r
    BY <1>0 DEF OrphanInv, LocksHaveOwners
  <1>2. \A n \in Pages : r \in writers[n] => torn
    BY <1>0 DEF LockInv, LockFiles
  <1>3. \A n \in Pages :
          /\ lock'[n] = IF r \in writers[n] THEN "dead" ELSE lock[n]
          /\ writers'[n] = writers[n] \ {r}
    BY <1>1 DEF Exit
  <1>4. \A s \in Runners \ {r} : pc'[s] = pc[s]
    BY RunnersAreProcs DEF LockInv, TypeOK, Exit
  <1>5. LocksHaveOwners'
    BY <1>0, <1>1, <1>3, <1>4, SlotAssumption
       DEF SlotAssumption, OrphanInv, LocksHaveOwners
  <1>6. NoOrphanLock'
    BY <1>0, <1>2, <1>3 DEF OrphanInv, NoOrphanLock
  <1> QED BY <1>5, <1>6 DEF OrphanInv

LEMMA StopOrphan ==
  ASSUME LockInv, OrphanInv, NEW r \in Runners, Signal(r) \/ Die(r)
  PROVE  OrphanInv'
  <1>0. /\ r \in Procs /\ deaths \in Nat
        /\ todo \in [Procs -> SUBSET Pages]
        /\ lock \in [Pages -> Runners \cup {"free", "unwritten", "dead"}]
    BY RunnersAreProcs DEF LockInv, TypeOK
  <1>1. \A s \in Runners \ {r} : pc'[s] = pc[s] /\ todo'[s] = todo[s]
    BY <1>0, RunnersAreProcs DEF LockInv, TypeOK, Signal, StartCleaning, Die
  <1>2. CASE Signal(r)
    <2>1. /\ UNCHANGED <<lock, writers, deaths>> /\ (torn => torn')
          /\ pc'[r] = "clean" /\ todo'[r] = {n \in Pages : lock[n] # "free"}
          /\ pc[r] # "off"
      BY <1>0, <1>2 DEF LockInv, TypeOK, Signal, StartCleaning, Running, disk
    <2> QED BY <1>1, <2>1, SlotAssumption
            DEF SlotAssumption, OrphanInv, LocksHaveOwners, NoOrphanLock
  <1>3. CASE Die(r)
    <2>1. deaths' > 0
      BY <1>0, <1>3 DEF Die
    <2>2. \A n \in Pages : lock'[n] # r /\ (lock'[n] = lock[n] \/ lock'[n] = "dead")
      BY <1>3, SlotAssumption DEF SlotAssumption, Die, LeaveLocks
    <2>3. LocksHaveOwners'
      BY <1>1, <2>2, SlotAssumption DEF SlotAssumption, OrphanInv, LocksHaveOwners
    <2> QED BY <2>1, <2>3 DEF OrphanInv, NoOrphanLock
  <1> QED BY <1>2, <1>3

LEMMA NextOrphan == LockInv /\ OrphanInv /\ [Next]_vars => OrphanInv'
  <1> SUFFICES ASSUME LockInv, OrphanInv, [Next]_vars PROVE OrphanInv'
    OBVIOUS
  <1>0. TypeOK
    BY DEF LockInv
  <1>1. CASE \/ \E m \in Pages : Store(m) \/ Tick(m) \/ UserStep(m)
             \/ \E c \in Checkers : CheckerStep(c)
             \/ \E p \in Farklers : FarklerStep(p)
             \/ UNCHANGED vars
    BY <1>0, <1>1, ClientsAreCalm, CalmOrphan
  <1>2. ASSUME NEW r \in Runners, StartRunner(r) \/ RunnerStep(r) \/ Signal(r) \/ Die(r)
        PROVE  OrphanInv'
    <2>1. CASE \/ StartRunner(r) \/ ListStep(r)
               \/ \E m \in Pages : ListRead(r, m)
               \/ ListDecline(r) \/ ListExpire(r) \/ ListPick(r)
               \/ \E m \in Pages, answer \in Answers : Send(r, m, answer)
               \/ LockFail(r) \/ ListEmpty(r) \/ ListReady(r) \/ OpenTerm(r) \/ OpenFail(r)
               \/ TapInit(r) \/ TapInitFail(r) \/ Settle(r) \/ Defer(r) \/ Relist(r)
               \/ Hangup(r)
      BY <1>0, <2>1, WorkIsCalm, CalmOrphan
    <2>2. CASE LockOpen(r) \/ LockWrite(r) \/ Exit(r) \/ Signal(r) \/ Die(r)
               \/ \E m \in Pages : CleanLock(r, m)
      BY <2>2, QLockOrphan, ExitOrphan, StopOrphan, CleanOrphan
    <2> QED BY <1>2, <2>1, <2>2 DEF RunnerStep
  <1> QED BY <1>1, <1>2 DEF Next

(* cleanmylocks does its work: a lock nobody stands behind is left only by a  *)
(* runner that died without its handler or was signalled inside q_lock.       *)
THEOREM LocksAreCleaned == Spec => []NoOrphanLock
  <1>1. Init => LockInv /\ OrphanInv
    BY InitLock, InitOrphan
  <1>2. LockInv /\ OrphanInv /\ [Next]_vars => (LockInv /\ OrphanInv)'
    BY NextLock, NextOrphan
  <1>3. OrphanInv => NoOrphanLock
    BY DEF OrphanInv
  <1> QED BY <1>1, <1>2, <1>3, PTL DEF Spec

-----------------------------------------------------------------------------
(* An acknowledged page is not sent again *)

\* Steps that list no page and open no lock; a runner that stops waiting to
\* act on an acknowledgement has removed the page or is recorded as cut off.
Steady ==
    /\ UNCHANGED acked
    /\ clash \subseteq clash' /\ cut \subseteq cut'
    /\ \A m \in acked : file'[m] = "full" => file[m] = "full"
    /\ \A r \in Runners :
          /\ list'[r] \subseteq list[r]
          /\ pc'[r] = "lockwrite" => pc[r] = "lockwrite" /\ cur'[r] = cur[r]
          /\ pc[r] = "settle" /\ res[r] = "ack" =>
                \/ pc'[r] = "settle" /\ res'[r] = "ack" /\ cur'[r] = cur[r]
                \/ file'[cur[r]] = "gone"
                \/ cur[r] \in cut'

LEMMA SteadyAnswers ==
  ASSUME AnswersAreKept, Steady
  PROVE  AnswersAreKept'
  <1> SUFFICES ASSUME NEW m \in Pages, m \notin clash', m \in acked
               PROVE  /\ file'[m] = "full" /\ m \notin cut' =>
                            \E r \in Runners : pc'[r] = "settle" /\ res'[r] = "ack"
                                               /\ cur'[r] = m
                      /\ \A r \in Runners :
                            m \in list'[r] \/ (pc'[r] = "lockwrite" /\ cur'[r] = m)
                               => m \in cut'
    BY DEF AnswersAreKept, Steady
  <1>1. m \notin clash /\ (m \in cut => m \in cut')
    BY DEF Steady
  <1>2. ASSUME file'[m] = "full", m \notin cut'
        PROVE  \E r \in Runners : pc'[r] = "settle" /\ res'[r] = "ack" /\ cur'[r] = m
    <2>1. PICK r \in Runners : pc[r] = "settle" /\ res[r] = "ack" /\ cur[r] = m
      BY <1>1, <1>2 DEF AnswersAreKept, Steady
    <2>2. pc'[r] = "settle" /\ res'[r] = "ack" /\ cur'[r] = m
      BY <1>2, <2>1 DEF Steady
    <2> QED BY <2>2
  <1>3. ASSUME NEW r \in Runners, m \in list'[r] \/ (pc'[r] = "lockwrite" /\ cur'[r] = m)
        PROVE  m \in cut'
    BY <1>1, <1>3 DEF AnswersAreKept, Steady
  <1> QED BY <1>2, <1>3

LEMMA ClientsAreSteady ==
  ASSUME LockInv,
         \/ \E m \in Pages : Store(m) \/ Tick(m) \/ UserStep(m)
         \/ \E c \in Checkers : CheckerStep(c)
         \/ \E p \in Farklers : FarklerStep(p)
         \/ UNCHANGED vars
  PROVE  Steady
  <1>0. \A p \in Checkers \cup Farklers : p \in Procs /\ p \notin Runners
    BY SlotAssumption DEF SlotAssumption, Procs
  <1>a. /\ file \in [Pages -> FileStates] /\ acked \subseteq Pages
        /\ list \in [Procs -> SUBSET Pages] /\ pc \in [Procs -> RunnerPCs \cup OtherPCs]
    BY DEF LockInv, TypeOK
  <1>b. \A m \in acked : file[m] # "partial" /\ file[m] # "absent"
    BY <1>a DEF LockInv, CopiesAreWhole, Whole
  <1>1. ASSUME NEW m \in Pages, Store(m) PROVE Steady
    <2>1. \A n \in acked : file'[n] = file[n]
      BY <1>a, <1>b, <1>1 DEF Store, StoreOpen, StoreClose, StoreUnwritten
    <2> QED BY <1>1, <2>1 DEF Store, StoreOpen, StoreClose, StoreUnwritten, Steady, run, hist
  <1>2. ASSUME NEW m \in Pages, Tick(m) \/ UserRead(m) PROVE Steady
    BY <1>2 DEF Tick, UserRead, Steady, disk, run, hist
  <1>3. ASSUME NEW m \in Pages, UserDequeue(m) PROVE Steady
    BY <1>a, <1>3 DEF UserDequeue, Dequeue, Steady, run
  <1>4. ASSUME NEW p \in Checkers \cup Farklers, NEW m \in Pages,
               \/ ListSweep(p, m) \/ ListSkip(p, m) \/ ListTake(p, m) \/ CheckEntry(p, m)
               \/ FarkleTake(p, m)
        PROVE  Steady
    <2>1. UNCHANGED <<acked, clash, cut, cur, res>>
      BY <1>4 DEF ListSweep, ListSkip, ListTake, CheckEntry, FarkleTake, run, hist
    <2>2. \A r \in Runners : list'[r] = list[r] /\ pc'[r] = pc[r]
      BY <1>0, <1>a, <1>4, RunnersAreProcs
         DEF ListSweep, ListSkip, ListTake, CheckEntry, FarkleTake
    <2>3. file' = file \/ file' = [file EXCEPT ![m] = "gone"]
      BY <1>4 DEF ListSweep, ListSkip, ListTake, CheckEntry, FarkleTake, Dequeue, disk
    <2>4. \A n \in acked : file'[n] = "full" => file[n] = "full"
      BY <1>a, <2>3
    <2> QED BY <2>1, <2>2, <2>4 DEF Steady
  <1>5. ASSUME NEW p \in Checkers \cup Farklers,
               \/ Wake(p) \/ CheckStart(p) \/ CheckEnd(p) \/ CheckWait(p) \/ FarkleNone(p)
        PROVE  Steady
    <2>1. UNCHANGED <<acked, clash, cut, cur, res, file, list>>
      BY <1>5 DEF Wake, CheckStart, CheckEnd, CheckWait, FarkleNone, disk, run, hist
    <2>2. \A r \in Runners : pc'[r] = pc[r]
      BY <1>0, <1>a, <1>5, RunnersAreProcs
         DEF Wake, CheckStart, CheckEnd, CheckWait, FarkleNone
    <2> QED BY <2>1, <2>2 DEF Steady
  <1>6. ASSUME NEW c \in Checkers, CheckFork(c) PROVE Steady
    <2>1. UNCHANGED <<acked, clash, cut, cur, res, file, list>>
      BY <1>6 DEF CheckFork, disk, hist
    <2>2. \A r \in Runners : pc'[r] = pc[r] \/ (pc[r] = "off" /\ pc'[r] = "list")
      BY <1>0, <1>a, <1>6, RunnersAreProcs DEF CheckFork
    <2> QED BY <2>1, <2>2 DEF Steady
  <1>9. CASE UNCHANGED vars
    BY <1>9 DEF Steady, vars, disk, run, hist
  <1> QED BY <1>1, <1>2, <1>3, <1>4, <1>5, <1>6, <1>9
          DEF Store, UserStep, CheckerStep, FarklerStep, ListStep

LEMMA WorkIsSteady ==
  ASSUME LockInv, NEW r \in Runners,
         \/ StartRunner(r) \/ ListStep(r)
         \/ \E m \in Pages : ListRead(r, m) \/ CleanLock(r, m)
         \/ ListDecline(r) \/ ListExpire(r) \/ ListPick(r)
         \/ ListEmpty(r) \/ ListReady(r) \/ OpenTerm(r) \/ OpenFail(r)
         \/ TapInit(r) \/ TapInitFail(r) \/ Settle(r) \/ Defer(r) \/ Relist(r) \/ Hangup(r)
         \/ Exit(r) \/ Signal(r) \/ Die(r)
  PROVE  Steady
  <1>0. /\ r \in Procs
        /\ file \in [Pages -> FileStates] /\ acked \subseteq Pages
        /\ list \in [Procs -> SUBSET Pages] /\ pc \in [Procs -> RunnerPCs \cup OtherPCs]
        /\ cur \in [Runners -> Pages \cup {NoPage}]
        /\ res \in [Runners -> Answers \cup {NoAnswer}]
    BY RunnersAreProcs DEF LockInv, TypeOK
  <1>1. CASE \/ \E m \in Pages : ListSweep(r, m) \/ ListSkip(r, m) \/ ListRead(r, m)
             \/ ListDecline(r) \/ ListExpire(r) \/ ListPick(r)
    <2>1. UNCHANGED <<acked, clash, cut, list>>
      BY <1>1 DEF ListSweep, ListSkip, ListRead, ListDecline, ListExpire, ListPick, run, hist
    <2>2. /\ pc[r] \in {"list", "read"} /\ pc'[r] \in {"list", "read", "lock"}
          /\ \A s \in Runners \ {r} : pc'[s] = pc[s] /\ cur'[s] = cur[s] /\ res'[s] = res[s]
      BY <1>0, <1>1, RunnersAreProcs
         DEF ListSweep, ListSkip, ListRead, ListDecline, ListExpire, ListPick, run
    <2>3. file' = file \/ \E n \in Pages : file' = [file EXCEPT ![n] = "gone"]
      BY <1>1 DEF LockInv, TypeOK, ListSweep, ListSkip, ListRead, ListDecline, ListExpire,
                  ListPick, Dequeue, disk
    <2>4. \A n \in acked : file'[n] = "full" => file[n] = "full"
      BY <1>0, <2>3
    <2> QED BY <2>1, <2>2, <2>4 DEF Steady
  <1>2. ASSUME NEW m \in Pages, CleanLock(r, m) PROVE Steady
    BY <1>2 DEF CleanLock, Steady
  <1>3. CASE Settle(r) \/ Defer(r)
    <2>1. UNCHANGED <<acked, clash, cut, list>> /\ pc[r] = "settle" /\ cur[r] \in Pages
      BY <1>3 DEF LockInv, TypeOK, Settle, Defer, hist
    <2>2. /\ pc'[r] \in {"send", "hangup"}
          /\ \A s \in Runners \ {r} : pc'[s] = pc[s] /\ cur'[s] = cur[s] /\ res'[s] = res[s]
      BY <1>0, <1>3, RunnersAreProcs DEF Settle, Defer
    <2>3. \/ file' = [file EXCEPT ![cur[r]] = "gone"]
          \/ file' = file /\ res[r] # "ack"
      BY <1>3 DEF Settle, Defer, Dequeue
    <2>4. \A n \in acked : file'[n] = "full" => file[n] = "full"
      BY <1>0, <2>3
    <2>5. res[r] = "ack" => file'[cur[r]] = "gone"
      BY <1>0, <2>1, <2>3
    <2> QED BY <2>1, <2>2, <2>4, <2>5 DEF Steady
  <1>4. CASE \/ StartRunner(r) \/ ListEmpty(r) \/ ListReady(r) \/ OpenTerm(r) \/ OpenFail(r)
             \/ TapInit(r) \/ TapInitFail(r) \/ Relist(r) \/ Hangup(r) \/ Exit(r)
    <2>1. UNCHANGED <<acked, clash, cut, file>>
      BY <1>4 DEF StartRunner, ListEmpty, ListReady, OpenTerm, OpenFail,
         TapInit, TapInitFail, Relist, Hangup, Exit, disk, hist
    <2>2. /\ pc[r] # "settle" /\ pc'[r] # "lockwrite" /\ list'[r] \subseteq list[r]
          /\ \A s \in Runners \ {r} :
                pc'[s] = pc[s] /\ list'[s] = list[s] /\ cur'[s] = cur[s] /\ res'[s] = res[s]
      <3>1. CASE NextTerminal(r)
        BY <1>0, <1>4, <3>1, RunnersAreProcs
           DEF NextTerminal, Forget, StartRunner, ListEmpty, ListReady, OpenTerm, OpenFail,
               TapInit, TapInitFail, Relist, Hangup, Exit
      <3>2. CASE TapInitFail(r)
        BY <1>0, <3>2, RunnersAreProcs DEF TapInitFail, StartCleaning, Forget
      <3>3. CASE StartRunner(r) \/ ListReady(r) \/ OpenTerm(r) \/ TapInit(r) \/ Relist(r)
                 \/ Exit(r)
        BY <1>0, <3>3, RunnersAreProcs
           DEF StartRunner, ListReady, OpenTerm, TapInit, Relist, Exit, run
      <3> QED BY <1>4, <3>1, <3>2, <3>3 DEF ListEmpty, OpenFail, Hangup
    <2> QED BY <2>1, <2>2 DEF Steady
  <1>5. CASE Signal(r) \/ Die(r)
    <2>1. UNCHANGED <<acked, clash, file>> /\ CutOff(r)
      BY <1>5 DEF Signal, Die, disk
    <2>2. /\ pc'[r] # "lockwrite" /\ list'[r] = {}
          /\ \A s \in Runners \ {r} :
                pc'[s] = pc[s] /\ list'[s] = list[s] /\ cur'[s] = cur[s] /\ res'[s] = res[s]
      BY <1>0, <1>5, RunnersAreProcs DEF Signal, Die, StartCleaning, Forget
    <2>3. cut \subseteq cut' /\ (pc[r] = "settle" /\ res[r] = "ack" => cur[r] \in cut')
      BY <2>1 DEF CutOff
    <2> QED BY <2>1, <2>2, <2>3 DEF Steady
  <1> QED BY <1>1, <1>2, <1>3, <1>4, <1>5 DEF ListStep

\* The page a runner starts to lock is not one that was acknowledged: if it is
\* still in the spool, the runner that had the answer still has its lock.
LEMMA QLockAnswers ==
  ASSUME LockInv, AnswersAreKept, NEW r \in Runners,
         LockOpen(r) \/ LockWrite(r) \/ LockFail(r)
  PROVE  AnswersAreKept'
  <1>0. /\ r \in Procs /\ cur[r] \in Pages
        /\ list \in [Procs -> SUBSET Pages] /\ pc \in [Procs -> RunnerPCs \cup OtherPCs]
        /\ cur \in [Runners -> Pages \cup {NoPage}]
    BY RunnersAreProcs DEF LockInv, TypeOK, LockOpen, LockWrite, LockFail
  <1>1. /\ UNCHANGED <<acked, cut, file, res>> /\ clash \subseteq clash'
        /\ pc[r] \in {"lock", "lockwrite"}
        /\ \A s \in Runners \ {r} : pc'[s] = pc[s] /\ cur'[s] = cur[s] /\ list'[s] = list[s]
        /\ pc'[r] \in {"list", "lockwrite"} /\ list'[r] \subseteq list[r] \cup {cur[r]}
    <2>1. CASE LockOpen(r)
      BY <1>0, <2>1, RunnersAreProcs DEF LockOpen, run
    <2>2. CASE LockWrite(r)
      BY <1>0, <2>2, RunnersAreProcs DEF LockWrite, hist
    <2>3. CASE LockFail(r)
      BY <1>0, <2>3, RunnersAreProcs DEF LockFail, disk
    <2> QED BY <2>1, <2>2, <2>3
  <1>2. cur[r] \in acked /\ cur[r] \notin clash' => cur[r] \in cut
    <2>1. CASE LockOpen(r)
      <3>1. cur[r] \notin clash' => lock[cur[r]] = "free" /\ file[cur[r]] = "full"
        BY <2>1 DEF LockOpen
      <3>2. ASSUME cur[r] \in acked, cur[r] \notin clash', cur[r] \notin cut PROVE FALSE
        <4>1. PICK s \in Runners : pc[s] = "settle" /\ cur[s] = cur[r]
          BY <1>0, <1>1, <3>1, <3>2 DEF AnswersAreKept
        <4>2. lock[cur[r]] = s
          BY <1>0, <1>1, <3>1, <3>2, <4>1 DEF LockInv, HandsAreLocked
        <4> QED BY <3>1, <3>2, <4>2, SlotAssumption DEF SlotAssumption
      <3> QED BY <3>2
    <2>2. CASE LockWrite(r)
      BY <1>0, <1>1, <2>2 DEF LockWrite, AnswersAreKept
    <2>3. CASE LockFail(r)
      BY <2>3 DEF LockFail
    <2> QED BY <2>1, <2>2, <2>3
  <1>3. pc'[r] = "lockwrite" => cur'[r] = cur[r]
    BY <1>0 DEF LockOpen, LockWrite, LockFail, run
  <1>4. ASSUME NEW m \in Pages \ clash', m \in acked, file[m] = "full", m \notin cut
        PROVE  \E s \in Runners : pc'[s] = "settle" /\ res'[s] = "ack" /\ cur'[s] = m
    <2>1. PICK s \in Runners : pc[s] = "settle" /\ res[s] = "ack" /\ cur[s] = m
      BY <1>1, <1>4 DEF AnswersAreKept
    <2> QED BY <1>1, <2>1
  <1>5. ASSUME NEW m \in Pages \ clash', NEW s \in Runners, m \in acked,
               m \in list'[s] \/ (pc'[s] = "lockwrite" /\ cur'[s] = m)
        PROVE  m \in cut
    <2>1. m \in list[s] \/ (pc[s] = "lockwrite" /\ cur[s] = m) \/ m = cur[r]
      BY <1>1, <1>3, <1>5
    <2> QED BY <1>1, <1>2, <1>5, <2>1 DEF AnswersAreKept
  <1> QED BY <1>1, <1>4, <1>5 DEF AnswersAreKept

\* An acknowledgement is in one runner's hands only: no other has the page.
LEMMA SendAnswers ==
  ASSUME LockInv, AnswersAreKept, NEW r \in Runners, NEW m \in Pages,
         NEW answer \in Answers, Send(r, m, answer)
  PROVE  AnswersAreKept'
  <1>0. /\ r \in Procs /\ m \in list[r]
        /\ list \in [Procs -> SUBSET Pages] /\ pc \in [Procs -> RunnerPCs \cup OtherPCs]
        /\ cur \in [Runners -> Pages \cup {NoPage}]
        /\ res \in [Runners -> Answers \cup {NoAnswer}]
    BY RunnersAreProcs DEF LockInv, TypeOK, Send, Foremost
  <1>1. /\ UNCHANGED <<file, clash>>
        /\ pc[r] = "send" /\ pc'[r] = "settle" /\ cur'[r] = m /\ res'[r] = answer
        /\ list'[r] = list[r] \ {m}
        /\ \A s \in Runners \ {r} :
              pc'[s] = pc[s] /\ cur'[s] = cur[s] /\ res'[s] = res[s] /\ list'[s] = list[s]
    BY <1>0, RunnersAreProcs DEF Send, disk
  <1>2. CASE answer # "ack"
    <2>1. UNCHANGED <<acked, cut>>
      BY <1>2 DEF Send
    <2>2. Steady
      BY <1>1, <2>1 DEF Steady
    <2> QED BY <2>2, SteadyAnswers
  <1>3. CASE answer = "ack"
    <2>1. acked' = acked \cup {m} /\ cut' = cut \ {m}
      BY <1>3 DEF Send
    <2>2. ASSUME NEW n \in Pages \ clash, n \in acked', file[n] = "full", n \notin cut'
          PROVE  \E s \in Runners : pc'[s] = "settle" /\ res'[s] = "ack" /\ cur'[s] = n
      <3>1. CASE n = m
        BY <1>1, <1>3, <3>1
      <3>2. CASE n # m
        <4>1. PICK s \in Runners : pc[s] = "settle" /\ res[s] = "ack" /\ cur[s] = n
          BY <2>1, <2>2, <3>2 DEF AnswersAreKept
        <4> QED BY <1>1, <4>1
      <3> QED BY <3>1, <3>2
    <2>3. ASSUME NEW n \in Pages \ clash, NEW s \in Runners, n \in acked',
                 n \in list'[s] \/ (pc'[s] = "lockwrite" /\ cur'[s] = n)
          PROVE  n \in cut'
      <3>1. n \in list[s] \/ (pc[s] = "lockwrite" /\ cur[s] = n)
        BY <1>1, <2>3
      <3>2. n # m
        <4>1. s # r => n \in Grip(s)
          BY <1>1, <3>1 DEF Grip
        <4>2. m \in Grip(r)
          BY <1>0 DEF Grip
        <4> QED BY <1>1, <2>3, <4>1, <4>2 DEF LockInv, OneRunnerPerPage
      <3> QED BY <2>1, <2>3, <3>1, <3>2 DEF AnswersAreKept
    <2> QED BY <1>1, <2>2, <2>3 DEF AnswersAreKept
  <1> QED BY <1>2, <1>3

LEMMA NextAnswers == LockInv /\ AnswersAreKept /\ [Next]_vars => AnswersAreKept'
  <1> SUFFICES ASSUME LockInv, AnswersAreKept, [Next]_vars PROVE AnswersAreKept'
    OBVIOUS
  <1>1. CASE \/ \E m \in Pages : Store(m) \/ Tick(m) \/ UserStep(m)
             \/ \E c \in Checkers : CheckerStep(c)
             \/ \E p \in Farklers : FarklerStep(p)
             \/ UNCHANGED vars
    BY <1>1, ClientsAreSteady, SteadyAnswers
  <1>2. ASSUME NEW r \in Runners, StartRunner(r) \/ RunnerStep(r) \/ Signal(r) \/ Die(r)
        PROVE  AnswersAreKept'
    <2>1. CASE LockOpen(r) \/ LockWrite(r) \/ LockFail(r)
      BY <2>1, QLockAnswers
    <2>2. CASE \E m \in Pages, answer \in Answers : Send(r, m, answer)
      BY <2>2, SendAnswers
    <2>3. CASE \/ StartRunner(r) \/ ListStep(r) \/ Exit(r) \/ Signal(r) \/ Die(r)
               \/ \E m \in Pages : ListRead(r, m) \/ CleanLock(r, m)
               \/ ListDecline(r) \/ ListExpire(r) \/ ListPick(r)
               \/ ListEmpty(r) \/ ListReady(r) \/ OpenTerm(r) \/ OpenFail(r)
               \/ TapInit(r) \/ TapInitFail(r) \/ Settle(r) \/ Defer(r) \/ Relist(r)
               \/ Hangup(r)
      BY <2>3, WorkIsSteady, SteadyAnswers
    <2> QED BY <1>2, <2>1, <2>2, <2>3 DEF RunnerStep
  <1> QED BY <1>1, <1>2 DEF Next

LEMMA InitAnswers == Init => AnswersAreKept
  BY DEF Init, AnswersAreKept

(* A page the terminal acknowledged is not put into a runner's hands again,    *)
(* however many runners, signals and clients there are: only a runner that was *)
(* stopped with the answer in hand leaves the page to the next one.            *)
THEOREM NoSecondDelivery == Spec => []AckedOnce
  <1>1. Init => LockInv /\ AnswersAreKept
    BY InitLock, InitAnswers
  <1>2. LockInv /\ AnswersAreKept /\ [Next]_vars => (LockInv /\ AnswersAreKept)'
    BY NextLock, NextAnswers
  <1>3. AnswersAreKept => AckedOnce
    BY DEF AnswersAreKept, AckedOnce
  <1> QED BY <1>1, <1>2, <1>3, PTL DEF Spec

(* All of it at once: what the lock files and the pages in hand look like in   *)
(* every state of the queue runners.                                           *)
THEOREM QueueInvariant == Spec => []IInv
  <1>1. Init => IInv
    BY InitLock, InitOrphan, InitAnswers DEF IInv
  <1>2. IInv /\ [Next]_vars => IInv'
    BY NextLock, NextOrphan, NextAnswers DEF IInv
  <1> QED BY <1>1, <1>2, PTL DEF Spec
-----------------------------------------------------------------------------
(* Locks are respected *)

\* How the lock runner r has on page m may end.
MayEnd(m, r) ==
    \/ file'[m] # "full"
    \/ pc[r] = "settle" /\ cur[r] = m /\ pc'[r] # "settle"
    \/ pc[r] = "clean" /\ m \in todo[r] \ todo'[r]
    \/ pc'[r] = "off"

Respects ==
    \A m \in Pages \ clash' : \A r \in Runners : lock[m] = r /\ lock'[m] # r => MayEnd(m, r)

\* The steps of a runner that write or remove a lock file and leave the page.
LEMMA LockFileSteps ==
  ASSUME LockInv, NEW s \in Runners,
         \/ LockOpen(s) \/ LockWrite(s) \/ Defer(s) \/ Exit(s) \/ Die(s)
         \/ \E n \in Pages : CleanLock(s, n)
  PROVE  Respects
  <1> SUFFICES ASSUME NEW m \in Pages, m \notin clash', NEW r \in Runners,
                      lock[m] = r, lock'[m] # r
               PROVE  MayEnd(m, r)
    BY DEF Respects
  <1>0. /\ r \notin {"free", "unwritten", "dead"}
        /\ m \notin clash => writers[m] = {}
        /\ writers[m] \subseteq Runners /\ s \in Procs /\ lock \in [Pages -> Runners \cup {"free", "unwritten", "dead"}]
    BY SlotAssumption, RunnersAreProcs DEF SlotAssumption, LockInv, LockFiles, TypeOK
  <1>1. CASE LockOpen(s)
    <2>1. cur[s] = m
      BY <1>0, <1>1 DEF LockOpen
    <2> QED BY <1>0, <1>1, <2>1 DEF LockOpen
  <1>2. CASE LockWrite(s)
    <2>1. cur[s] = m /\ clash' = clash
      BY <1>0, <1>2 DEF LockWrite, hist
    <2> QED BY <1>0, <1>2, <2>1 DEF LockWrite
  <1>3. CASE Defer(s)
    <2>1. cur[s] = m /\ clash' = clash /\ file' = file /\ pc[s] = "settle" /\ pc'[s] # "settle"
      BY <1>0, <1>3 DEF Defer, Unlock, hist, LockInv, TypeOK
    <2>2. file[m] = "full" => lock[m] = s
      BY <2>1 DEF LockInv, HandsAreLocked
    <2> QED BY <2>1, <2>2 DEF MayEnd
  <1>4. CASE Exit(s) \/ Die(s)
    <2>1. clash' = clash
      BY <1>4 DEF Exit, Die, hist
    <2>2. lock[m] = s
      BY <1>0, <1>4, <2>1 DEF Exit, Die, LeaveLocks
    <2>3. pc'[s] = "off"
      BY <1>0, <1>4 DEF Exit, Die, LockInv, TypeOK
    <2> QED BY <2>2, <2>3 DEF MayEnd
  <1>5. ASSUME NEW n \in Pages, CleanLock(s, n)
        PROVE  MayEnd(m, r)
    <2>1. n = m /\ lock[m] = s
      BY <1>0, <1>5 DEF CleanLock, Unlock
    <2>2. pc[s] = "clean" /\ m \in todo[s] \ todo'[s]
      BY <1>0, <1>5, <2>1 DEF CleanLock, LockInv, TypeOK
    <2> QED BY <2>1, <2>2 DEF MayEnd
  <1> QED BY <1>1, <1>2, <1>3, <1>4, <1>5

\* A step that takes a page off the queue removes its lock and no other.
LEMMA RemovalRespects ==
  ASSUME LockInv, NEW n \in Pages, Removes(n)
  PROVE  Respects
  <1>1. /\ file'[n] = "gone" /\ \A m \in Pages \ {n} : lock'[m] = lock[m]
    BY DEF Removes, Dequeue, Unlock, LockInv, TypeOK
  <1> QED BY <1>1 DEF Respects, MayEnd

LEMMA NextRespects == LockInv /\ [Next]_vars => Respects
  <1> SUFFICES ASSUME LockInv, [Next]_vars PROVE Respects
    OBVIOUS
  <1>0. CASE UNCHANGED lock
    BY <1>0 DEF Respects
  <1>00. CASE Quiet
    BY <1>0, <1>00 DEF Quiet
  <1>1. ASSUME NEW m \in Pages, Store(m) \/ Tick(m) \/ UserStep(m) PROVE Respects
    <2>1. CASE UserDequeue(m)
      BY <2>1, RemovingSteps, RemovalRespects
    <2>2. CASE Store(m) \/ Tick(m) \/ UserRead(m)
      BY <2>2, <1>0 DEF Store, StoreOpen, StoreClose, StoreUnwritten, Tick, UserRead, disk
    <2> QED BY <1>1, <2>1, <2>2 DEF UserStep
  <1>2. ASSUME NEW p \in Procs, ListStep(p) PROVE Respects
    BY <1>2, <1>0 DEF ListStep, ListSweep, ListSkip, disk
  <1>3. ASSUME NEW r \in Runners, StartRunner(r) \/ RunnerStep(r) \/ Signal(r) \/ Die(r)
        PROVE  Respects
    <2>1. CASE ListStep(r)
      BY <1>2, <2>1, RunnersAreProcs
    <2>2. CASE \/ LockOpen(r) \/ LockWrite(r) \/ Defer(r) \/ Exit(r) \/ Die(r)
               \/ \E n \in Pages : CleanLock(r, n)
      BY <2>2, LockFileSteps
    <2>3. CASE \/ LockFail(r) \/ Signal(r) \/ \E m \in Pages : ListRead(r, m)
               \/ \E m \in Pages, answer \in Answers : Send(r, m, answer)
      BY <1>0, <2>3 DEF LockFail, Signal, ListRead, Send, disk
    <2>4. CASE ListExpire(r) \/ Settle(r)
      BY <2>4, RemovingSteps, RemovalRespects
    <2>5. CASE \/ StartRunner(r) \/ ListEmpty(r) \/ ListReady(r) \/ OpenTerm(r)
               \/ OpenFail(r) \/ TapInit(r) \/ TapInitFail(r) \/ Relist(r) \/ Hangup(r)
               \/ ListDecline(r) \/ ListPick(r)
      BY <1>00, <2>5, QuietSteps
    <2> QED BY <1>3, <2>1, <2>2, <2>3, <2>4, <2>5 DEF RunnerStep
  <1>4. ASSUME NEW c \in Checkers, CheckerStep(c) PROVE Respects
    <2>1. CASE ListStep(c)
      BY <1>2, <2>1 DEF Procs
    <2>2. CASE \E m \in Pages : ListTake(c, m)
      BY <1>0, <2>2 DEF ListTake, disk
    <2>3. CASE \E m \in Pages : CheckEntry(c, m)
      BY <1>00, <2>3, QuietSteps, RemovingSteps, RemovalRespects
    <2>4. CASE Wake(c) \/ CheckStart(c) \/ CheckFork(c) \/ CheckEnd(c) \/ CheckWait(c)
      BY <1>00, <2>4, QuietSteps
    <2> QED BY <1>4, <2>1, <2>2, <2>3, <2>4 DEF CheckerStep
  <1>5. ASSUME NEW p \in Farklers, FarklerStep(p) PROVE Respects
    <2>1. CASE ListStep(p)
      BY <1>2, <2>1 DEF Procs
    <2>2. CASE \E m \in Pages : ListTake(p, m)
      BY <1>0, <2>2 DEF ListTake, disk
    <2>3. CASE \E m \in Pages : FarkleTake(p, m)
      BY <2>3, RemovingSteps, RemovalRespects
    <2>4. CASE Wake(p) \/ FarkleNone(p)
      BY <1>00, <2>4, QuietSteps
    <2> QED BY <1>5, <2>1, <2>2, <2>3, <2>4 DEF FarklerStep
  <1>6. CASE UNCHANGED vars
    BY <1>6, <1>0 DEF vars, disk
  <1> QED BY <1>1, <1>3, <1>4, <1>5, <1>6 DEF Next

(* Nobody takes a runner's lock away from it: it goes with the page, when the  *)
(* page is deferred, when the runner itself cleans up or when its process is   *)
(* gone, for any number of runners, clients and signals.                       *)
THEOREM LocksRespected == Spec => LocksAreRespected
  <1>1. LockInv /\ [Next]_vars =>
          [\A m \in Pages \ clash' : \A r \in Runners :
              lock[m] = r /\ lock'[m] # r =>
                 \/ file'[m] # "full"
                 \/ pc[r] = "settle" /\ cur[r] = m /\ pc'[r] # "settle"
                 \/ pc[r] = "clean" /\ m \in todo[r] \ todo'[r]
                 \/ pc'[r] = "off"]_vars
    BY NextRespects DEF Respects, MayEnd
  <1> QED BY <1>1, LockInvariant, PTL DEF Spec, LocksAreRespected

(* A spool without runners, none of which died or was caught inside q_lock, has *)
(* no lock in it: no page is locked away from the next run.                    *)
THEOREM IdleIsUnlocked == Spec => []IdleSpoolIsUnlocked
  <1>1. ASSUME IInv PROVE IdleSpoolIsUnlocked
    <2> SUFFICES ASSUME deaths = 0, ~torn, \A r \in Runners : ~Running(r), NEW m \in Pages
                 PROVE  lock[m] = "free"
      BY DEF IdleSpoolIsUnlocked
    <2>1. lock[m] \in {"free", "unwritten", "dead"}
      BY <1>1 DEF IInv, LockInv, TypeOK, OrphanInv, LocksHaveOwners, Running
    <2>2. writers[m] = {}
      BY <1>1 DEF IInv, LockInv, TypeOK, LockFiles, Running
    <2>3. ~(deaths > 0)
      OBVIOUS
    <2> QED BY <1>1, <2>1, <2>2, <2>3 DEF IInv, OrphanInv, NoOrphanLock
  <1> QED BY <1>1, QueueInvariant, PTL

-----------------------------------------------------------------------------
(* The spool implements PageLedger *)

\* Steps that transmit nothing.
Silent ==
    /\ UNCHANGED <<aired, acked>>
    /\ \A r \in Runners : pc'[r] = "settle" => pc[r] = "settle" /\ cur'[r] = cur[r] /\ res'[r] = res[r]

LEMMA SilentRecords == HandsAreRecorded /\ Silent => HandsAreRecorded'
  BY DEF HandsAreRecorded, Silent

LEMMA SendRecords ==
  ASSUME TypeOK, HandsAreRecorded, NEW r \in Runners, NEW m \in Pages, NEW answer \in Answers,
         Send(r, m, answer)
  PROVE  HandsAreRecorded'
  <1>1. /\ cur'[r] = m /\ res'[r] = answer /\ aired' = aired \cup {m}
        /\ acked' = IF answer = "ack" THEN acked \cup {m} ELSE acked
        /\ \A s \in Runners \ {r} : pc'[s] = pc[s] /\ cur'[s] = cur[s] /\ res'[s] = res[s]
    BY RunnersAreProcs DEF Send, TypeOK
  <1> QED BY <1>1 DEF HandsAreRecorded

\* A runner other than the one that takes the step keeps what it has in hand.
LEMMA Elsewhere ==
  ASSUME TypeOK, NEW r \in Runners,
         StartRunner(r) \/ RunnerStep(r) \/ Signal(r) \/ Die(r),
         \A m \in Pages, answer \in Answers : ~Send(r, m, answer)
  PROVE  Silent
  <1>0. r \in Procs
    BY RunnersAreProcs
  <1>1. CASE \/ ListStep(r)
             \/ \E m \in Pages : CleanLock(r, m)
    BY <1>1 DEF ListStep, ListSweep, ListSkip, CleanLock, Silent, run, hist
  <1>2. CASE \/ StartRunner(r) \/ ListPick(r) \/ ListReady(r) \/ OpenTerm(r) \/ TapInit(r)
             \/ Relist(r) \/ Exit(r) \/ LockOpen(r)
    <2>1. \E where \in {"list", "lock", "send", "open", "init", "off", "lockwrite"} :
             pc' = [pc EXCEPT ![r] = where]
      BY <1>2 DEF StartRunner, ListPick, ListReady, OpenTerm, TapInit, Relist, Exit, LockOpen
    <2>2. UNCHANGED <<cur, res, aired, acked>>
      BY <1>2 DEF StartRunner, ListPick, ListReady, OpenTerm, TapInit, Relist, Exit, LockOpen, run, hist
    <2> QED BY <1>0, <2>1, <2>2, RunnersAreProcs DEF TypeOK, Silent
  <1>3. CASE \/ ListDecline(r) \/ ListExpire(r) \/ LockWrite(r) \/ LockFail(r) \/ Settle(r) \/ Defer(r)
             \/ \E m \in Pages : ListRead(r, m)
    <2>1. \E where \in {"list", "read", "send", "hangup"} : pc' = [pc EXCEPT ![r] = where]
      BY <1>3 DEF ListDecline, ListExpire, LockWrite, LockFail, Settle, Defer, ListRead
    <2>2. /\ UNCHANGED <<aired, acked>>
          /\ \A s \in Runners \ {r} : cur'[s] = cur[s] /\ res'[s] = res[s]
      BY <1>3 DEF ListDecline, ListExpire, LockWrite, LockFail, Settle, Defer, ListRead, run, hist, TypeOK
    <2> QED BY <1>0, <2>1, <2>2, RunnersAreProcs DEF TypeOK, Silent
  <1>4. CASE ListEmpty(r) \/ OpenFail(r) \/ TapInitFail(r) \/ Hangup(r) \/ Signal(r) \/ Die(r)
    <2>1. \E where \in {"list", "clean", "off"} : pc' = [pc EXCEPT ![r] = where]
      BY <1>4 DEF ListEmpty, OpenFail, TapInitFail, Hangup, Signal, Die, NextTerminal, StartCleaning
    <2>2. UNCHANGED <<aired, acked>> /\ Forget(r)
      BY <1>4 DEF ListEmpty, OpenFail, TapInitFail, Hangup, Signal, Die, NextTerminal, StartCleaning, hist
    <2>3. \A s \in Runners \ {r} : cur'[s] = cur[s] /\ res'[s] = res[s]
      BY <2>2 DEF Forget, TypeOK
    <2> QED BY <1>0, <2>1, <2>2, <2>3, RunnersAreProcs DEF TypeOK, Silent
  <1> QED BY <1>1, <1>2, <1>3, <1>4 DEF RunnerStep

LEMMA ClientsAreSilent ==
  ASSUME TypeOK,
         \/ \E m \in Pages : Store(m) \/ Tick(m) \/ UserStep(m)
         \/ \E c \in Checkers : CheckerStep(c)
         \/ \E p \in Farklers : FarklerStep(p)
         \/ UNCHANGED vars
  PROVE  Silent
  <1>0. \A p \in Checkers \cup Farklers : p \in Procs /\ p \notin Runners
    BY SlotAssumption DEF SlotAssumption, Procs
  <1>1. ASSUME NEW m \in Pages, Store(m) \/ Tick(m) \/ UserStep(m) PROVE Silent
    BY <1>1 DEF Store, StoreOpen, StoreClose, StoreUnwritten, Tick, UserStep, UserRead,
                UserDequeue, Silent, run, hist
  <1>2. ASSUME NEW p \in Checkers \cup Farklers,
               \/ ListStep(p) \/ Wake(p) \/ CheckStart(p) \/ CheckEnd(p) \/ CheckWait(p)
               \/ FarkleNone(p)
               \/ \E m \in Pages : ListTake(p, m) \/ CheckEntry(p, m) \/ FarkleTake(p, m)
        PROVE  Silent
    <2>1. UNCHANGED <<cur, res, aired, acked>>
      BY <1>2 DEF ListStep, ListSweep, ListSkip, Wake, CheckStart, CheckEnd, CheckWait, FarkleNone,
                  ListTake, CheckEntry, FarkleTake, run, hist
    <2>2. \E where \in {"list", "check", "off"} : pc' = pc \/ pc' = [pc EXCEPT ![p] = where]
      BY <1>2 DEF ListStep, ListSweep, ListSkip, Wake, CheckStart, CheckEnd, CheckWait, FarkleNone,
                  ListTake, CheckEntry, FarkleTake
    <2> QED BY <1>0, <2>1, <2>2, RunnersAreProcs DEF TypeOK, Silent
  <1>3. ASSUME NEW c \in Checkers, CheckFork(c) PROVE Silent
    <2>1. UNCHANGED <<cur, res, aired, acked>>
      BY <1>3 DEF CheckFork, run, hist
    <2>2. pc' = [pc EXCEPT ![c] = "wait", ![Child[c]] = "list"]
      BY <1>3 DEF CheckFork
    <2> QED BY <1>0, <2>1, <2>2, RunnersAreProcs DEF TypeOK, Silent
  <1>4. CASE UNCHANGED vars
    BY <1>4 DEF vars, run, hist, Silent
  <1> QED BY <1>1, <1>2, <1>3, <1>4 DEF CheckerStep, FarklerStep

LEMMA NextRecords == TypeOK /\ HandsAreRecorded /\ [Next]_vars => HandsAreRecorded'
  BY SilentRecords, SendRecords, Elsewhere, ClientsAreSilent DEF Next

LedgerStep == [Ledger!LedgerNext]_(Ledger!ledger)

LEMMA LedgerStands ==
  ASSUME UNCHANGED <<file, fate, aired, acked, age>>
  PROVE  LedgerStep
  BY DEF LedgerStep, Ledger!ledger

\* Off the queue, for a reason that holds, or nothing happens: it was gone already.
LEMMA LedgerLeave ==
  ASSUME LockInv, NEW m \in Pages, NEW why \in Fates \ {"none", "swept"}, Whole(m),
         Dequeue(m, why), UNCHANGED <<aired, acked, age>>,
         file[m] = "full" => Ledger!Grounds(m, why)
  PROVE  LedgerStep
  <1>1. file' = [file EXCEPT ![m] = "gone"]
    BY DEF Dequeue
  <1>2. CASE file[m] = "full"
    <2>1. fate' = [fate EXCEPT ![m] = why]
      BY <1>2 DEF Dequeue, Present, LockInv, TypeOK
    <2>2. why \in Ledger!Reasons
      BY DEF Fates, Ledger!Reasons
    <2>3. Ledger!Leave(m, why)
      BY <1>1, <1>2, <2>1 DEF Ledger!Leave
    <2> QED BY <2>2, <2>3 DEF LedgerStep, Ledger!LedgerNext
  <1>3. CASE file[m] # "full"
    <2>1. file[m] = "gone"
      BY <1>3 DEF Whole
    <2>2. file' = file /\ fate' = fate
      BY <1>1, <2>1 DEF Dequeue, Present, LockInv, TypeOK
    <2> QED BY <2>2, LedgerStands
  <1> QED BY <1>2, <1>3

LEMMA PageLedgerSteps ==
  ASSUME LockInv, NEW m \in Pages, Store(m) \/ Tick(m) \/ UserStep(m)
  PROVE  LedgerStep
  <1>0. /\ file \in [Pages -> FileStates] /\ age \in [Pages -> {"held", "ready", "old"}]
        /\ asked \subseteq Pages
    BY DEF LockInv, TypeOK
  <1>1. CASE StoreOpen(m)
    <2>1. Ledger!Submit(m)
      BY <1>1 DEF StoreOpen, hist, Ledger!Submit
    <2> QED BY <2>1 DEF LedgerStep, Ledger!LedgerNext
  <1>2. CASE StoreClose(m)
    <2>1. CASE file[m] = "partial"
      <3>1. Ledger!Commit(m)
        BY <1>2, <2>1 DEF StoreClose, hist, Ledger!Commit
      <3> QED BY <3>1 DEF LedgerStep, Ledger!LedgerNext
    <2>2. CASE file[m] # "partial"
      <3>1. UNCHANGED <<file, fate, aired, acked, age>>
        BY <1>0, <1>2, <2>2 DEF StoreClose, hist
      <3> QED BY <3>1, LedgerStands
    <2> QED BY <2>1, <2>2
  <1>6. CASE StoreUnwritten(m)
    BY <1>6, LedgerStands DEF StoreUnwritten, hist
  <1>3. CASE Tick(m)
    <2>1. UNCHANGED <<file, fate, aired, acked>> /\ file[m] # "absent" /\ age[m] # "old"
      BY <1>3 DEF Tick, disk, hist
    <2>2. CASE age[m] = "held"
      <3>1. age' = [age EXCEPT ![m] = "ready"]
        BY <1>3, <2>2 DEF Tick
      <3>2. {n \in Pages : age[n] = "old"}' = {n \in Pages : age[n] = "old"}
        BY <1>0, <2>2, <3>1
      <3> QED BY <2>1, <3>2 DEF LedgerStep, Ledger!ledger
    <2>3. CASE age[m] # "held"
      <3>1. age' = [age EXCEPT ![m] = "old"]
        BY <1>3, <2>3 DEF Tick
      <3>2. {n \in Pages : age[n] = "old"}' = {n \in Pages : age[n] = "old"} \cup {m}
        BY <1>0, <3>1
      <3>3. Ledger!Lapse(m)
        BY <2>1, <3>2 DEF Ledger!Lapse
      <3> QED BY <3>3 DEF LedgerStep, Ledger!LedgerNext
    <2> QED BY <2>2, <2>3
  <1>4. CASE UserRead(m)
    BY <1>4, LedgerStands DEF UserRead, disk, hist
  <1>5. CASE UserDequeue(m)
    <2>1. Dequeue(m, "user") /\ Whole(m) /\ UNCHANGED <<aired, acked, age>>
      BY <1>5 DEF UserDequeue, LockInv, CopiesAreWhole
    <2>2. file[m] = "full" => Ledger!Grounds(m, "user")
      BY DEF Ledger!Grounds
    <2> QED BY <2>1, <2>2, LedgerLeave DEF Fates
  <1> QED BY <1>1, <1>2, <1>3, <1>4, <1>5, <1>6 DEF Store, UserStep

LEMMA ListLedgerSteps ==
  ASSUME LockInv, NEW p \in Procs, ListStep(p)
  PROVE  LedgerStep
  <1>1. ASSUME NEW m \in Pages, ListSweep(p, m) PROVE LedgerStep
    <2>1. Ledger!Leave(m, "swept")
      BY <1>1 DEF ListSweep, Ledger!Leave, Ledger!Grounds
    <2> QED BY <2>1 DEF LedgerStep, Ledger!LedgerNext, Ledger!Reasons
  <1>2. ASSUME NEW m \in Pages, ListSkip(p, m) PROVE LedgerStep
    BY <1>2, LedgerStands DEF ListSkip, disk, hist
  <1> QED BY <1>1, <1>2 DEF ListStep

LEMMA RunnerLedgerSteps ==
  ASSUME LockInv, HandsAreRecorded, NEW r \in Runners,
         StartRunner(r) \/ RunnerStep(r) \/ Signal(r) \/ Die(r)
  PROVE  LedgerStep
  <1>1. CASE ListStep(r)
    BY <1>1, ListLedgerSteps, RunnersAreProcs
  <1>2. ASSUME NEW m \in Pages, NEW answer \in Answers, Send(r, m, answer)
        PROVE  LedgerStep
    <2>1. Whole(m)
      BY <1>2, RunnersAreProcs DEF Send, Foremost, LockInv, CopiesAreWhole
    <2>2. Ledger!Transmit(m)
      BY <1>2, <2>1 DEF Send, Whole, disk, Ledger!Transmit
    <2> QED BY <2>2 DEF LedgerStep, Ledger!LedgerNext
  <1>3. CASE ListExpire(r)
    <2>1. /\ cur[r] \in Pages /\ Whole(cur[r]) /\ Dequeue(cur[r], "expired")
          /\ UNCHANGED <<aired, acked, age>> /\ age[cur[r]] = "old"
      BY <1>3 DEF ListExpire, LockInv, TypeOK, CopiesAreWhole
    <2>2. file[cur[r]] = "full" => Ledger!Grounds(cur[r], "expired")
      BY <2>1 DEF Ledger!Grounds
    <2> QED BY <2>1, <2>2, LedgerLeave DEF Fates
  <1>4. CASE Settle(r)
    <2>1. /\ cur[r] \in Pages /\ Whole(cur[r]) /\ UNCHANGED <<aired, acked, age>>
          /\ cur[r] \in aired /\ (res[r] = "ack" => cur[r] \in acked)
      BY <1>4 DEF Settle, LockInv, TypeOK, CopiesAreWhole, HandsAreRecorded
    <2>2. PICK why \in {"delivered", "probably", "failed"} :
             Dequeue(cur[r], why) /\ (why = "delivered" => res[r] = "ack")
      BY <1>4 DEF Settle
    <2>3. file[cur[r]] = "full" => Ledger!Grounds(cur[r], why)
      BY <2>1, <2>2 DEF Ledger!Grounds
    <2> QED BY <2>1, <2>2, <2>3, LedgerLeave DEF Fates
  <1>5. CASE ~(ListStep(r) \/ ListExpire(r) \/ Settle(r)
               \/ \E m \in Pages, answer \in Answers : Send(r, m, answer))
    <2>1. UNCHANGED <<file, fate, aired, acked, age>>
      BY <1>5 DEF RunnerStep, StartRunner, Signal, Die, ListRead, CleanLock, ListDecline, ListPick,
         LockOpen, LockWrite, LockFail, ListEmpty, ListReady, OpenTerm, OpenFail, TapInit,
         TapInitFail, Defer, Relist, Hangup, Exit, disk, hist
    <2> QED BY <2>1, LedgerStands
  <1> QED BY <1>1, <1>2, <1>3, <1>4, <1>5

LEMMA OtherLedgerSteps ==
  ASSUME LockInv,
         \/ \E c \in Checkers : CheckerStep(c)
         \/ \E p \in Farklers : FarklerStep(p)
  PROVE  LedgerStep
  <1>1. ASSUME NEW p \in Checkers \cup Farklers, ListStep(p) PROVE LedgerStep
    BY <1>1, ListLedgerSteps DEF Procs
  <1>2. ASSUME NEW p \in Checkers \cup Farklers,
               \/ Wake(p) \/ CheckStart(p) \/ CheckEnd(p) \/ CheckWait(p) \/ CheckFork(p)
               \/ FarkleNone(p) \/ \E m \in Pages : ListTake(p, m)
        PROVE  LedgerStep
    BY <1>2, LedgerStands DEF Wake, CheckStart, CheckEnd, CheckWait, CheckFork, FarkleNone, ListTake,
                              disk, hist
  <1>3. ASSUME NEW c \in Checkers, NEW m \in Pages, CheckEntry(c, m) PROVE LedgerStep
    <2>1. Whole(m) /\ UNCHANGED <<aired, acked, age>>
      BY <1>3 DEF CheckEntry, LockInv, CopiesAreWhole, Procs
    <2>2. CASE age[m] = "old"
      <3>1. file[m] = "full" => Ledger!Grounds(m, "expired")
        BY <2>2 DEF Ledger!Grounds
      <3> QED BY <1>3, <2>1, <2>2, <3>1, LedgerLeave DEF CheckEntry, Fates
    <2>3. CASE age[m] # "old"
      BY <1>3, <2>1, <2>3, LedgerStands DEF CheckEntry
    <2> QED BY <2>2, <2>3
  <1>4. ASSUME NEW p \in Farklers, NEW m \in Pages, FarkleTake(p, m) PROVE LedgerStep
    <2>1. Whole(m) /\ UNCHANGED <<aired, acked, age>> /\ Dequeue(m, "farkled")
      BY <1>4 DEF FarkleTake, Foremost, LockInv, CopiesAreWhole, Procs
    <2>2. file[m] = "full" => Ledger!Grounds(m, "farkled")
      BY DEF Ledger!Grounds
    <2> QED BY <2>1, <2>2, LedgerLeave DEF Fates
  <1> QED BY <1>1, <1>2, <1>3, <1>4 DEF CheckerStep, FarklerStep

LEMMA NextLedger == LockInv /\ HandsAreRecorded /\ [Next]_vars => LedgerStep
  <1>1. UNCHANGED vars => UNCHANGED <<file, fate, aired, acked, age>>
    BY DEF vars, disk, hist
  <1> QED BY <1>1, LedgerStands, PageLedgerSteps, RunnerLedgerSteps, OtherLedgerSteps DEF Next

LEMMA InitLedger == Init => HandsAreRecorded /\ Ledger!LedgerInit
  <1> SUFFICES ASSUME Init PROVE HandsAreRecorded /\ Ledger!LedgerInit
    OBVIOUS
  <1>1. HandsAreRecorded
    BY RunnersAreProcs DEF Init, HandsAreRecorded
  <1>2. {m \in Pages : age[m] = "old"} = {}
    BY DEF Init
  <1>3. Ledger!LedgerInit
    BY <1>2 DEF Init, Ledger!LedgerInit
  <1> QED BY <1>1, <1>3

(* The spool implements PageLedger for any number of processes: every page     *)
(* leaves once, on grounds that hold when it leaves, whichever process takes   *)
(* it off the queue and however old the copy is that this process read.        *)
THEOREM LedgerIsKept == Spec => KeepsLedger
  <1>1. Init => LockInv /\ HandsAreRecorded /\ Ledger!LedgerInit
    BY InitLock, InitLedger
  <1>2. LockInv /\ HandsAreRecorded /\ [Next]_vars => LockInv' /\ HandsAreRecorded'
    BY NextLock, NextRecords DEF LockInv
  <1>3. LockInv /\ HandsAreRecorded /\ [Next]_vars => [Ledger!LedgerNext]_(Ledger!ledger)
    BY NextLedger DEF LedgerStep
  <1> QED BY <1>1, <1>2, <1>3, PTL DEF Spec, KeepsLedger, Ledger!LedgerSpec

-----------------------------------------------------------------------------
(* A daemon alone with its runner *)

\* AloneInSpool, for the daemon c and its runner r.
Alone(c, r) ==
    /\ clash = {} /\ asked = {}
    /\ pc[r] # "off" => pc[c] = "wait"
    /\ pc[r] \in {"read", "lock", "lockwrite"} =>
          cur[r] \notin list[r] \cup todo[r] /\ file[cur[r]] = "full"
    /\ pc[r] = "lock" => lock[cur[r]] = "free"
    /\ pc[r] = "settle" => file[cur[r]] = "full"
    /\ list[r] \cap todo[r] = {}
    /\ \A m \in list[r] : file[m] = "full"

Pair(c, r) ==
    /\ Checkers = {c} /\ Runners = {r} /\ Child[c] = r
    /\ Farklers = {} /\ Owned = {} /\ ~LockCanFail

LEMMA PairFacts ==
  ASSUME NEW c, NEW r, Pair(c, r)
  PROVE  /\ c # r /\ Procs = {c, r}
         /\ AloneInSpool <=> Alone(c, r)
         /\ AloneInSpool' <=> Alone(c, r)'
  BY SlotAssumption DEF SlotAssumption, Procs, AloneInSpool, Alone, Pair

\* The files come and go around them.
LEMMA AloneFiles ==
  ASSUME NEW c, NEW r, Pair(c, r), LockInv, Alone(c, r), NEW m \in Pages,
         Store(m) \/ Tick(m) \/ UserStep(m) \/ \E p \in Procs : ListSweep(p, m) \/ ListSkip(p, m)
  PROVE  Alone(c, r)'
  <1>0. /\ todo \in [Procs -> SUBSET Pages] /\ list \in [Procs -> SUBSET Pages]
        /\ file \in [Pages -> FileStates] /\ r \in Procs
    BY PairFacts DEF LockInv, TypeOK
  <1>1. ASSUME UNCHANGED <<clash, asked, pc, cur, list, lock>>,
               \A n \in Pages : file[n] = "full" => file'[n] = "full",
               todo'[r] \subseteq todo[r] \cup {m}, file[m] = "full" => todo'[r] \subseteq todo[r]
        PROVE  Alone(c, r)'
    <2>1. list[r] \subseteq Pages /\ (pc[r] \in {"read", "lock", "lockwrite", "settle"} => cur[r] \in Pages)
      BY <1>0 DEF LockInv, TypeOK, Pair
    <2> QED BY <1>1, <2>1 DEF Alone
  <1>2. CASE StoreOpen(m)
    <2>1. UNCHANGED <<clash, asked, pc, cur, list, lock>>
      BY <1>2 DEF StoreOpen, run, hist
    <2>2. (\A n \in Pages : file[n] = "full" => file'[n] = "full") /\ file[m] # "full"
      BY <1>0, <1>2 DEF StoreOpen
    <2>3. todo'[r] \subseteq todo[r] \cup {m}
      BY <1>0, <1>2 DEF StoreOpen
    <2> QED BY <1>1, <2>1, <2>2, <2>3
  <1>3. CASE StoreClose(m) \/ StoreUnwritten(m) \/ Tick(m)
    <2>1. UNCHANGED <<clash, asked, pc, cur, list, lock, todo>>
      BY <1>3 DEF StoreClose, StoreUnwritten, Tick, disk, run, hist
    <2>2. \A n \in Pages : file[n] = "full" => file'[n] = "full"
      BY <1>0, <1>3 DEF StoreClose, StoreUnwritten, Tick, disk
    <2> QED BY <1>1, <2>1, <2>2
  <1>4. ASSUME NEW p \in Procs, ListSweep(p, m) \/ ListSkip(p, m)
        PROVE  Alone(c, r)'
    <2>1. UNCHANGED <<clash, asked, pc, cur, list, lock>>
      BY <1>4 DEF ListSweep, ListSkip, disk, run, hist
    <2>2. (\A n \in Pages : file[n] = "full" => file'[n] = "full") /\ todo'[r] \subseteq todo[r]
      BY <1>0, <1>4 DEF ListSweep, ListSkip, disk
    <2> QED BY <1>1, <2>1, <2>2
  <1>5. ~UserStep(m)
    BY DEF UserStep, UserRead, UserDequeue, Alone, Pair
  <1> QED BY <1>2, <1>3, <1>4, <1>5 DEF Store

\* The daemon moves while its runner is off.
LEMMA AloneChecker ==
  ASSUME NEW c, NEW r, Pair(c, r), LockInv, Alone(c, r),
         \/ Wake(c) \/ CheckStart(c) \/ CheckFork(c) \/ CheckEnd(c) \/ CheckWait(c)
         \/ \E m \in Pages : ListTake(c, m) \/ CheckEntry(c, m)
  PROVE  Alone(c, r)'
  <1>0. /\ c # r /\ c \in Procs /\ r \in Procs /\ pc \in [Procs -> RunnerPCs \cup OtherPCs]
        /\ list \in [Procs -> SUBSET Pages]
    BY PairFacts DEF LockInv, TypeOK
  <1>1. pc[r] = "off" /\ list[r] = {}
    BY DEF Wake, CheckStart, CheckFork, CheckEnd, CheckWait, ListTake, CheckEntry, Alone, Pair,
           LockInv, ListsAreLocal
  <1>2. UNCHANGED <<clash, asked>> /\ list'[r] = {}
    BY <1>0, <1>1 DEF Wake, CheckStart, CheckFork, CheckEnd, CheckWait, ListTake, CheckEntry, hist
  <1>3. CASE CheckFork(c)
    <2>1. pc'[c] = "wait" /\ pc'[r] = "list"
      BY <1>0, <1>3 DEF CheckFork, Pair
    <2> QED BY <1>2, <2>1 DEF Alone
  <1>4. CASE ~CheckFork(c)
    <2>1. pc'[r] = "off"
      BY <1>0, <1>1, <1>4 DEF Wake, CheckStart, CheckEnd, CheckWait, ListTake, CheckEntry
    <2> QED BY <1>2, <2>1 DEF Alone
  <1> QED BY <1>3, <1>4

\* The runner moves while the daemon waits.
LEMMA AloneRunner ==
  ASSUME NEW c, NEW r, Pair(c, r), LockInv, Alone(c, r),
         StartRunner(r) \/ RunnerStep(r) \/ Signal(r) \/ Die(r)
  PROVE  Alone(c, r)'
  <1>0. /\ c # r /\ c \in Procs /\ r \in Procs /\ r \in Runners
        /\ pc \in [Procs -> RunnerPCs \cup OtherPCs] /\ todo \in [Procs -> SUBSET Pages]
        /\ list \in [Procs -> SUBSET Pages] /\ cur \in [Runners -> Pages \cup {NoPage}]
        /\ file \in [Pages -> FileStates]
        /\ writers \in [Pages -> SUBSET Runners]
    BY PairFacts DEF LockInv, TypeOK, Pair
  <1>1. CASE ListStep(r)
    BY <1>0, <1>1, AloneFiles DEF ListStep
  <1>2. CASE StartRunner(r)
    BY <1>2 DEF StartRunner, Pair
  <1>3. CASE ListReady(r) \/ OpenTerm(r) \/ TapInit(r) \/ Exit(r)
    <2>1. UNCHANGED <<clash, asked, cur, file, list, todo>> /\ pc[r] # "off"
      BY <1>3 DEF ListReady, OpenTerm, TapInit, Exit, disk, run, hist
    <2>2. pc'[c] = pc[c] /\ pc'[r] \in {"send", "open", "init", "off"}
      BY <1>0, <1>3 DEF ListReady, OpenTerm, TapInit, Exit
    <2> QED BY <2>1, <2>2 DEF Alone
  <1>4. CASE ListEmpty(r) \/ OpenFail(r) \/ TapInitFail(r) \/ Hangup(r) \/ Signal(r) \/ Die(r)
    <2>1. UNCHANGED <<clash, asked>> /\ Forget(r) /\ pc[r] # "off"
      BY <1>4 DEF ListEmpty, OpenFail, TapInitFail, Hangup, Signal, Die, NextTerminal, StartCleaning,
                  Running, hist
    <2>2. pc'[c] = pc[c] /\ pc'[r] \in {"list", "clean", "off"}
      BY <1>0, <1>4 DEF ListEmpty, OpenFail, TapInitFail, Hangup, Signal, Die, NextTerminal, StartCleaning
    <2>3. list'[r] = {}
      BY <1>0, <2>1 DEF Forget
    <2> QED BY <2>1, <2>2, <2>3 DEF Alone
  <1>5. CASE Relist(r)
    <2>1. UNCHANGED <<clash, asked, list>> /\ list[r] = {} /\ pc[r] # "off"
      BY <1>5 DEF Relist, hist
    <2>2. pc'[c] = pc[c] /\ pc'[r] = "list"
      BY <1>0, <1>5 DEF Relist
    <2> QED BY <2>1, <2>2 DEF Alone
  <1>6. ASSUME NEW m \in Pages, ListRead(r, m)
        PROVE  Alone(c, r)'
    <2>1. UNCHANGED <<clash, asked, list, file>> /\ file[m] = "full" /\ m \in todo[r] /\ pc[r] # "off"
      BY <1>6 DEF ListRead, disk, hist
    <2>2. /\ pc'[c] = pc[c] /\ pc'[r] = "read" /\ cur'[r] = m /\ todo'[r] = todo[r] \ {m}
      BY <1>0, <1>6 DEF ListRead
    <2> QED BY <2>1, <2>2 DEF Alone
  <1>7. CASE ListDecline(r) \/ ListPick(r)
    <2>1. UNCHANGED <<clash, asked, list, todo, file, lock>> /\ pc[r] = "read"
      BY <1>7 DEF ListDecline, ListPick, disk, run, hist
    <2>2. /\ pc'[c] = pc[c]
          /\ pc'[r] = "list" \/ (pc'[r] = "lock" /\ cur' = cur /\ lock[cur[r]] = "free")
      BY <1>0, <1>7 DEF ListDecline, ListPick, run
    <2> QED BY <2>1, <2>2 DEF Alone
  <1>8. CASE ListExpire(r) \/ Settle(r)
    <2>1. UNCHANGED <<clash, asked, list, todo>> /\ pc[r] # "off"
      BY <1>8 DEF ListExpire, Settle
    <2>2. pc'[c] = pc[c] /\ pc'[r] \in {"list", "hangup", "send"}
      BY <1>0, <1>8 DEF ListExpire, Settle
    <2>3. cur[r] \notin list[r] /\ cur[r] \in Pages
      BY <1>0, <1>8 DEF ListExpire, Settle, Alone, LockInv, ListsAreLocal, TypeOK
    <2>4. \A m \in Pages \ {cur[r]} : file'[m] = file[m]
      BY <1>0, <1>8, <2>3 DEF ListExpire, Settle, Dequeue
    <2> QED BY <1>0, <2>1, <2>2, <2>3, <2>4 DEF Alone
  <1>9. CASE LockOpen(r)
    <2>1. UNCHANGED <<asked, list, todo, file, cur>> /\ pc[r] = "lock" /\ clash' = {}
      BY <1>9 DEF LockOpen, Alone, run
    <2>2. pc'[c] = pc[c] /\ pc'[r] = "lockwrite"
      BY <1>0, <1>9 DEF LockOpen
    <2> QED BY <2>1, <2>2 DEF Alone
  <1>10. CASE LockWrite(r)
    <2>1. UNCHANGED <<clash, asked, todo, file>> /\ pc[r] = "lockwrite"
      BY <1>10 DEF LockWrite, hist
    <2>2. pc'[c] = pc[c] /\ pc'[r] = "list" /\ list'[r] = list[r] \cup {cur[r]}
      BY <1>0, <1>10 DEF LockWrite
    <2> QED BY <2>1, <2>2 DEF Alone
  <1>11. ASSUME NEW m \in Pages, NEW answer \in Answers, Send(r, m, answer)
        PROVE  Alone(c, r)'
    <2>1. UNCHANGED <<clash, asked, todo, file>> /\ m \in list[r] /\ pc[r] # "off"
      BY <1>11 DEF Send, Foremost, disk
    <2>2. pc'[c] = pc[c] /\ pc'[r] = "settle" /\ cur'[r] = m /\ list'[r] = list[r] \ {m}
      BY <1>0, <1>11 DEF Send
    <2> QED BY <2>1, <2>2 DEF Alone
  <1>12. CASE Defer(r)
    <2>1. UNCHANGED <<clash, asked, todo, file, list>> /\ pc[r] # "off"
      BY <1>12 DEF Defer, hist
    <2>2. pc'[c] = pc[c] /\ pc'[r] \in {"hangup", "send"}
      BY <1>0, <1>12 DEF Defer
    <2> QED BY <2>1, <2>2 DEF Alone
  <1>13. ASSUME NEW m \in Pages, CleanLock(r, m)
        PROVE  Alone(c, r)'
    <2>1. UNCHANGED <<asked, list, file, pc, cur>> /\ pc[r] = "clean" /\ list[r] = {}
      BY <1>0, <1>13 DEF CleanLock, LockInv, ListsAreLocal
    <2>2. writers[m] \subseteq {r}
      BY <1>0 DEF Pair
    <2>3. clash' = {}
      BY <1>13, <2>2 DEF CleanLock, Alone
    <2> QED BY <2>1, <2>3 DEF Alone
  <1>14. ~LockFail(r)
    BY DEF LockFail, Pair
  <1> QED BY <1>1, <1>2, <1>3, <1>4, <1>5, <1>6, <1>7, <1>8, <1>9, <1>10, <1>11, <1>12, <1>13,
             <1>14 DEF RunnerStep

LEMMA NextAlone ==
  ASSUME LoneDaemon
  PROVE  LockInv /\ AloneInSpool /\ [Next]_vars => AloneInSpool'
  <1> SUFFICES ASSUME LockInv, AloneInSpool, [Next]_vars PROVE AloneInSpool'
    OBVIOUS
  <1>1. PICK c \in Checkers, r \in Runners : Pair(c, r)
    BY DEF LoneDaemon, Pair
  <1>2. Alone(c, r) /\ c \in Procs /\ (AloneInSpool' <=> Alone(c, r)')
    BY <1>1, PairFacts
  <1>3. CASE \E m \in Pages : Store(m) \/ Tick(m) \/ UserStep(m)
    BY <1>1, <1>2, <1>3, AloneFiles
  <1>4. CASE \E s \in Runners : StartRunner(s) \/ RunnerStep(s) \/ Signal(s) \/ Die(s)
    BY <1>1, <1>2, <1>4, AloneRunner DEF Pair
  <1>5. CASE CheckerStep(c)
    BY <1>1, <1>2, <1>5, AloneFiles, AloneChecker DEF CheckerStep, ListStep
  <1>6. CASE UNCHANGED vars
    BY <1>2, <1>6 DEF vars, disk, run, hist, Alone
  <1>7. Checkers = {c} /\ Farklers = {}
    BY <1>1 DEF Pair
  <1> QED BY <1>3, <1>4, <1>5, <1>6, <1>7 DEF Next

LEMMA InitAlone ==
  ASSUME LoneDaemon PROVE Init => AloneInSpool
  <1>1. \A c \in Checkers : Child[c] \in Procs
    BY DEF LoneDaemon, Procs
  <1>2. Init => AloneInSpool
    BY <1>1, RunnersAreProcs DEF Init, AloneInSpool
  <1> QED BY <1>2

\* What is expired was not acknowledged, but for what was cut off.
LEMMA NextExpired ==
  ASSUME LoneDaemon, LockInv, AnswersAreKept, AloneInSpool, ExpiredWasNotDelivered, [Next]_vars
  PROVE  ExpiredWasNotDelivered'
  <1>1. PICK c \in Checkers, r \in Runners : Pair(c, r)
    BY DEF LoneDaemon, Pair
  <1>2. Alone(c, r)
    BY <1>1, PairFacts
  <1>3. ASSUME fate' = fate, acked' = acked, cut \subseteq cut' PROVE ExpiredWasNotDelivered'
    BY <1>3 DEF ExpiredWasNotDelivered
  <1>4. ASSUME NEW m \in Pages, NEW why \in Fates, Dequeue(m, why), acked' = acked, cut' = cut,
               why = "expired" => pc[r] # "settle"
        PROVE  ExpiredWasNotDelivered'
    <2>1. \A n \in Pages \ {m} : fate'[n] = fate[n]
      BY <1>4 DEF Dequeue
    <2>2. ASSUME fate'[m] = "expired", m \in acked PROVE m \in cut
      <3>1. CASE fate[m] = "expired"
        BY <2>2, <3>1 DEF ExpiredWasNotDelivered
      <3>2. CASE fate[m] # "expired"
        <4>1. why = "expired" /\ Present(m)
          BY <1>4, <2>2, <3>2 DEF Dequeue, LockInv, TypeOK
        <4>2. file[m] = "full"
          BY <2>2, <4>1 DEF Present, LockInv, CopiesAreWhole, Whole
        <4>3. ~\E s \in Runners : pc[s] = "settle" /\ res[s] = "ack" /\ cur[s] = m
          BY <1>1, <1>4, <4>1 DEF Pair
        <4> QED BY <1>2, <2>2, <4>2, <4>3 DEF Alone, AnswersAreKept
      <3> QED BY <3>1, <3>2
    <2> QED BY <1>4, <2>1, <2>2 DEF ExpiredWasNotDelivered
  <1>5. ASSUME NEW m \in Pages, Store(m) \/ Tick(m) \/ UserRead(m) PROVE ExpiredWasNotDelivered'
    BY <1>3, <1>5 DEF Store, StoreOpen, StoreClose, StoreUnwritten, Tick, UserRead, disk, hist
  <1>6. ASSUME NEW m \in Pages, UserDequeue(m) PROVE ExpiredWasNotDelivered'
    BY <1>4, <1>6 DEF UserDequeue, Fates
  <1>7. ASSUME NEW m \in Pages, NEW p, ListSweep(p, m) \/ ListSkip(p, m) PROVE ExpiredWasNotDelivered'
    <2>1. \A n \in Pages : fate'[n] = "expired" => fate[n] = "expired"
      BY <1>7 DEF ListSweep, ListSkip, hist, LockInv, TypeOK
    <2> QED BY <1>7, <2>1 DEF ListSweep, ListSkip, hist, ExpiredWasNotDelivered
  <1>8. CASE CheckerStep(c)
    <2>1. ASSUME NEW m \in Pages, CheckEntry(c, m) PROVE ExpiredWasNotDelivered'
      <3>1. pc[r] = "off"
        BY <1>2, <2>1 DEF CheckEntry, Alone
      <3> QED BY <1>3, <1>4, <2>1, <3>1 DEF CheckEntry, Fates
    <2>2. CASE \/ Wake(c) \/ CheckStart(c) \/ CheckFork(c) \/ CheckEnd(c) \/ CheckWait(c)
               \/ \E m \in Pages : ListTake(c, m)
      BY <1>3, <2>2 DEF Wake, CheckStart, CheckFork, CheckEnd, CheckWait, ListTake, hist
    <2> QED BY <1>7, <1>8, <2>1, <2>2 DEF CheckerStep, ListStep
  <1>9. CASE StartRunner(r) \/ RunnerStep(r) \/ Signal(r) \/ Die(r)
    <2>1. ASSUME NEW m \in Pages, NEW answer \in Answers, Send(r, m, answer)
          PROVE  ExpiredWasNotDelivered'
      <3>1. m \in list[r] /\ fate' = fate /\ acked' \subseteq acked \cup {m} /\ cut \subseteq cut' \cup {m}
        BY <2>1 DEF Send, Foremost
      <3>2. fate[m] = "none"
        BY <1>2, <3>1 DEF Alone, LockInv, CopiesAreWhole
      <3> QED BY <3>1, <3>2 DEF ExpiredWasNotDelivered
    <2>2. CASE ListExpire(r) \/ Settle(r)
      <3>1. cur[r] \in Pages
        BY <2>2 DEF ListExpire, Settle, LockInv, TypeOK
      <3>2. UNCHANGED <<acked, cut>> /\ \E why \in Fates :
               Dequeue(cur[r], why) /\ (why = "expired" => pc[r] # "settle")
        BY <2>2 DEF ListExpire, Settle, Fates
      <3> QED BY <1>4, <3>1, <3>2
    <2>3. CASE Signal(r) \/ Die(r)
      BY <1>3, <2>3 DEF Signal, Die, CutOff
    <2>4. CASE \/ StartRunner(r) \/ ListEmpty(r) \/ ListReady(r) \/ OpenTerm(r)
               \/ OpenFail(r) \/ TapInit(r) \/ TapInitFail(r) \/ Relist(r) \/ Hangup(r)
               \/ ListDecline(r) \/ ListPick(r) \/ LockOpen(r) \/ LockWrite(r) \/ LockFail(r)
               \/ Defer(r) \/ Exit(r) \/ \E m \in Pages : ListRead(r, m) \/ CleanLock(r, m)
      BY <1>3, <2>4 DEF StartRunner, ListEmpty, ListReady, OpenTerm, OpenFail, TapInit, TapInitFail,
         Relist, Hangup, ListDecline, ListPick, LockOpen, LockWrite, LockFail, Defer, Exit, ListRead,
         CleanLock, hist
    <2> QED BY <1>7, <1>9, <2>1, <2>2, <2>3, <2>4 DEF RunnerStep, ListStep
  <1>10. CASE UNCHANGED vars
    BY <1>3, <1>10 DEF vars, hist
  <1>11. Checkers = {c} /\ Runners = {r} /\ Farklers = {}
    BY <1>1 DEF Pair
  <1> QED BY <1>5, <1>6, <1>8, <1>9, <1>10, <1>11 DEF Next, UserStep

(* deliveryd alone with the runner it forks, on a disk that lets it lock: it   *)
(* never locks over another lock and never removes a foreign one.  Waiting for *)
(* its child makes the check-then-lock of listqueue safe.                      *)
THEOREM LoneDaemonLocksCleanly ==
  ASSUME LoneDaemon PROVE Spec => []CleanLocking
  <1>1. Init => LockInv /\ AloneInSpool
    BY InitLock, InitAlone
  <1>2. LockInv /\ AloneInSpool /\ [Next]_vars => LockInv' /\ AloneInSpool'
    BY NextLock, NextAlone
  <1>3. AloneInSpool => CleanLocking
    BY DEF AloneInSpool, CleanLocking
  <1> QED BY <1>1, <1>2, <1>3, PTL DEF Spec

(* And then a page is reported "Too old" only if no terminal acknowledged it,  *)
(* or its runner was stopped with the acknowledgement in hand.                 *)
THEOREM ExpiredWasUnanswered ==
  ASSUME LoneDaemon PROVE Spec => []ExpiredWasNotDelivered
  <1>1. Init => ExpiredWasNotDelivered
    BY DEF Init, ExpiredWasNotDelivered
  <1>2. Init => LockInv /\ AnswersAreKept /\ AloneInSpool
    BY InitLock, InitAnswers, InitAlone
  <1>3. LockInv /\ AnswersAreKept /\ AloneInSpool /\ [Next]_vars => (LockInv /\ AnswersAreKept /\ AloneInSpool)'
    BY NextLock, NextAnswers, NextAlone
  <1>4. LockInv /\ AnswersAreKept /\ AloneInSpool /\ ExpiredWasNotDelivered /\ [Next]_vars
           => ExpiredWasNotDelivered'
    BY NextExpired
  <1> QED BY <1>1, <1>2, <1>3, <1>4, PTL DEF Spec
=============================================================================
