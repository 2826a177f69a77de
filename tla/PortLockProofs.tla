--------------------------- MODULE PortLockProofs ---------------------------
(***************************************************************************)
(* Proofs about PortLock, for any number of runners, ports and terminals.  *)
(* Two invariants carry them.  RaceInv says why p_lock keeps runners apart *)
(* as long as nobody else is busy with the lock file: what a runner        *)
(* concluded from looking at it stays true until it acts.  TrackInv says   *)
(* where a lock file with a runner's pid can be at each of its calls, and  *)
(* who has a stream on it.                                                 *)
(***************************************************************************)
EXTENDS PortLock, SequenceTheorems, TLAPS

\* A runner that is busy with a terminal has not passed the end of the list.
AtTerminal ==
    \A r \in Runners : pc[r] \in Locking \cup Holding => at[r] <= Len(Dial)

Types == TypeOK /\ AtTerminal

-----------------------------------------------------------------------------
(* RaceInv *)

Unraced(r) == port[r] \notin raced

\* One runner at a time between its first look and its last touch.
OneBusy ==
    \A r, o \in Runners : Unraced(r) /\ Busy(r, port[r]) /\ Busy(o, port[r]) => r = o

\* The holder of a port has its pid in the lock file, and no stream is on it.
HolderOwns ==
    \A r \in Runners : pc[r] \in Holding /\ Unraced(r) =>
        lock[port[r]] # NoFile /\ lock[port[r]].pid = r /\ lock[port[r]].open = {}

\* Whoever is about to judge the lock file of a held port has read the holder's pid.
JudgeSees ==
    \A r, o \in Runners :
        pc[r] = "judge" /\ Unraced(r) /\ pc[o] \in Holding /\ port[o] = port[r] => pid[r] = o

\* Whoever goes on to change a lock file does so for a port nobody holds.
ChangeIsFree ==
    \A r, o \in Runners :
        /\ pc[r] \in {"remove", "create", "write", "sweep away"} /\ Unraced(r)
        /\ pc[o] \in Holding /\ port[o] = port[r]
        => FALSE

\* The file is still not there when it is made, and then nobody else has it open.
FileIsNew ==
    \A r \in Runners : Unraced(r) =>
        /\ pc[r] = "create" => lock[port[r]] = NoFile
        /\ pc[r] = "write" => lock[port[r]] # NoFile /\ lock[port[r]].open = {r}

RaceInv == OneBusy /\ HolderOwns /\ JudgeSees /\ ChangeIsFree /\ FileIsNew

-----------------------------------------------------------------------------
(* TrackInv *)

\* Where a lock file with the pid of r can be.
Known(r, p) ==
    /\ pc[r] # "new"
    /\ pc[r] \in {"next"} \cup Locking => p \in broken[r]
    /\ pc[r] \in Holding => p \in broken[r] \/ p = port[r]
    /\ pc[r] \in Sweeping /\ r \notin cut =>
          p \in unread[r] \/ (pc[r] = "sweep away" /\ p = port[r])
    /\ pc[r] = "exited" => r \in cut

OwnIsKnown == \A r \in Runners : \A p \in Ports : Owner(p) = r => Known(r, p)

\* A runner has a stream on a lock file while it writes it, and ever after if a
\* signal came there.
Streams(r, p) == lock[p] # NoFile /\ r \in lock[p].open

StreamsAreKnown ==
    \A r \in Runners : \A p \in Ports : Streams(r, p) =>
        \/ pc[r] = "write" /\ p = port[r]
        \/ pc[r] \in Sweeping /\ r \in cut

TrackInv == OwnIsKnown /\ StreamsAreKnown

-----------------------------------------------------------------------------
(* Types *)

LEMMA DialFacts ==
    /\ SomePort \in Ports
    /\ Len(Dial) \in Nat
    /\ \A t \in 1..Len(Dial) : Dial[t] \in Ports
  BY PortAssumption, LenProperties, ElementOfSeq DEF SomePort

LEMMA InitTypes == Init => Types
  BY DialFacts DEF Init, Types, TypeOK, AtTerminal, Live, Locking, Holding

\* The lock file after a stream on it was closed is a lock file, or still none.
LEMMA CloseType ==
    ASSUME TypeOK, NEW r \in Runners, NEW p \in Ports, NEW w \in BOOLEAN
    PROVE  Close(r, p, w) \in {NoFile} \cup [pid : Runners \cup {NoPid}, open : SUBSET Runners]
<1>1. CASE lock[p] = NoFile
  BY <1>1 DEF Close
<1>2. CASE lock[p] # NoFile
  <2>1. lock[p] \in [pid : Runners \cup {NoPid}, open : SUBSET Runners]
    BY <1>2 DEF TypeOK
  <2> QED BY <2>1 DEF Close
<1> QED BY <1>1, <1>2

\* The terminal a runner is at has a port, and another one or the end after it.
LEMMA DialPort ==
    ASSUME Types, NEW r \in Runners, at[r] <= Len(Dial)
    PROVE  /\ Dial[at[r]] \in Ports
           /\ at[r] + 1 \in 1..(Len(Dial) + 1)
           /\ Len(Dial) + 1 \in 1..(Len(Dial) + 1)
<1>1. at[r] \in 1..Len(Dial)
  BY DialFacts DEF Types, TypeOK
<1>2. Dial[at[r]] \in Ports
  BY <1>1, PortAssumption, ElementOfSeq
<1>3. Len(Dial) + 1 \in 1..(Len(Dial) + 1)
  BY DialFacts
<1> QED BY <1>1, <1>2, <1>3

\* On to the next terminal, from any call.
LEMMA NextTerminalTypes ==
    ASSUME Types, NEW r \in Runners, at[r] <= Len(Dial), NextTerminal(r)
    PROVE  /\ pc' \in [Runners -> Live \cup {"new", "exited", "killed"}]
           /\ at' \in [Runners -> 1..(Len(Dial) + 1)]
           /\ AtTerminal'
<1>1. at[r] + 1 \in 1..(Len(Dial) + 1)
  BY DialFacts DEF Types, TypeOK
<1>2. pc' = [pc EXCEPT ![r] = "next"] /\ at' = [at EXCEPT ![r] = at[r] + 1]
  BY DEF NextTerminal, Goto
<1> QED BY <1>1, <1>2 DEF Types, TypeOK, AtTerminal, Live, Locking, Holding

\* The end of a process.
LEMMA EndTypes ==
    ASSUME Types, NEW r \in Runners, NEW how \in {"exited", "killed"}, End(r, how)
    PROVE  /\ pc' \in [Runners -> Live \cup {"new", "exited", "killed"}]
           /\ at' \in [Runners -> 1..(Len(Dial) + 1)]
           /\ port' \in [Runners -> Ports]
           /\ pid' \in [Runners -> Runners \cup {NoPid}]
           /\ unread' \in [Runners -> SUBSET Ports]
           /\ broken' \in [Runners -> SUBSET Ports]
           /\ AtTerminal'
<1>1. 1 \in 1..(Len(Dial) + 1)
  BY DialFacts
<1>2. pc' = [pc EXCEPT ![r] = how] /\ at' = [at EXCEPT ![r] = 1]
  BY DEF End, Goto
<1>3. /\ port' = [port EXCEPT ![r] = SomePort] /\ pid' = [pid EXCEPT ![r] = NoPid]
      /\ unread' = [unread EXCEPT ![r] = {}] /\ broken' = [broken EXCEPT ![r] = {}]
  BY DEF End
<1>4. /\ pc' \in [Runners -> Live \cup {"new", "exited", "killed"}]
      /\ at' \in [Runners -> 1..(Len(Dial) + 1)]
      /\ AtTerminal'
  BY <1>1, <1>2 DEF Types, TypeOK, AtTerminal, Live, Locking, Holding
<1>5. port' \in [Runners -> Ports] /\ pid' \in [Runners -> Runners \cup {NoPid}]
  BY <1>3, DialFacts DEF Types, TypeOK
<1>6. unread' \in [Runners -> SUBSET Ports] /\ broken' \in [Runners -> SUBSET Ports]
  BY <1>3 DEF Types, TypeOK
<1> QED BY <1>4, <1>5, <1>6

LEMMA TypesStep == Types /\ [Next]_vars => Types'
<1> SUFFICES ASSUME Types, [Next]_vars PROVE Types'
  OBVIOUS
<1> USE DialFacts DEF Types, TypeOK, AtTerminal, Live, Locking, Holding, Sweeping, Goto, runner, history
<1>u. CASE UNCHANGED vars
  BY <1>u DEF vars
<1>n. ASSUME NEW r \in Runners,
             Start(r) \/ Step(r) \/ Talk(r) \/ TalkInVain(r) \/ Signal(r) \/ Die(r)
      PROVE  Types'
  <2>1. CASE Start(r)
    BY <2>1 DEF Start
  <2>2. CASE Skip(r)
    <3>1. NextTerminal(r) /\ at[r] <= Len(Dial)
      BY <2>2 DEF Skip
    <3> QED BY <2>2, <3>1, NextTerminalTypes DEF Skip
  <2>3. CASE Call(r)
    <3>0. at[r] <= Len(Dial)
      BY <2>3 DEF Call
    <3>1. Dial[at[r]] \in Ports
      BY <3>0, DialPort
    <3>2. port' \in [Runners -> Ports] /\ raced' \subseteq Ports
      BY <2>3, <3>1 DEF Call, Approach
    <3> QED BY <2>3, <3>1, <3>2 DEF Call
  <2>4. CASE Finish(r)
    BY <2>4 DEF Finish
  <2>5. CASE Look(r)
    BY <2>5 DEF Look
  <2>6. CASE Refused(r)
    <3>1. NextTerminal(r) /\ at[r] <= Len(Dial)
      BY <2>6 DEF Refused
    <3>2. pid' \in [Runners -> Runners \cup {NoPid}]
      BY <2>6 DEF Refused
    <3> QED BY <2>6, <3>1, <3>2, NextTerminalTypes DEF Refused
  <2>7. CASE Stale(r)
    BY <2>7 DEF Stale
  <2>8. CASE Remove(r)
    <3>1. CASE lock[port[r]] = NoFile
      <4>1. NextTerminal(r) /\ at[r] <= Len(Dial)
        BY <2>8, <3>1 DEF Remove
      <4> QED BY <2>8, <3>1, <4>1, NextTerminalTypes DEF Remove
    <3>2. CASE lock[port[r]] # NoFile
      BY <2>8, <3>2 DEF Remove, Unlink
    <3> QED BY <3>1, <3>2
  <2>9. CASE Create(r)
    BY <2>9 DEF Create
  <2>10. CASE CreateFails(r)
    <3>1. End(r, "killed")
      BY <2>10 DEF CreateFails
    <3> QED BY <2>10, <3>1, EndTypes DEF CreateFails
  <2>11. CASE Write(r)
    BY <2>11, CloseType DEF Write
  <2>12. CASE OpenPort(r)
    BY <2>12 DEF OpenPort
  <2>13. CASE OpenFails(r)
    <3>1. NextTerminal(r) /\ at[r] <= Len(Dial)
      BY <2>13 DEF OpenFails
    <3> QED BY <2>13, <3>1, NextTerminalTypes DEF OpenFails
  <2>14. CASE Talk(r)
    BY <2>14 DEF Talk
  <2>15. CASE TalkInVain(r)
    BY <2>15 DEF TalkInVain
  <2>16. CASE PUnlock(r)
    <3>0. at[r] <= Len(Dial)
      BY <2>16 DEF PUnlock
    <3>1. at[r] + 1 \in 1..(Len(Dial) + 1) /\ Len(Dial) + 1 \in 1..(Len(Dial) + 1)
      BY <3>0, DialPort
    <3>2. \/ at' = [at EXCEPT ![r] = at[r] + 1]
          \/ at' = [at EXCEPT ![r] = Len(Dial) + 1]
      <4>1. CASE pc[r] = "unlock"
        BY <2>16, <4>1 DEF PUnlock
      <4>2. CASE pc[r] # "unlock"
        BY <2>16, <4>2 DEF PUnlock
      <4> QED BY <4>1, <4>2
    <3>3. at' \in [Runners -> 1..(Len(Dial) + 1)]
      BY <3>1, <3>2
    <3> QED BY <2>16, <3>3 DEF PUnlock, Unlink
  <2>17. CASE SweepNext(r)
    <3>1. PICK p \in unread[r] :
              /\ unread' = [unread EXCEPT ![r] = @ \ {p}]
              /\ \/ UNCHANGED <<pc, port, pid, raced>>
                 \/ /\ lock[p] # NoFile
                    /\ \E i \in Read(r, p) :
                          /\ pid' = [pid EXCEPT ![r] = i]
                          /\ IF i = r
                             THEN Goto(r, "sweep away") /\ Approach(r, p)
                             ELSE UNCHANGED <<pc, port, raced>>
      BY <2>17 DEF SweepNext
    <3>0. p \in Ports /\ pid[r] \in Runners \cup {NoPid}
      BY <3>1
    <3>2. lock[p] # NoFile => Read(r, p) \subseteq Runners \cup {NoPid}
      BY <3>0 DEF Read, Owner
    <3>3. pid' \in [Runners -> Runners \cup {NoPid}]
      BY <3>1, <3>2
    <3>4. port' \in [Runners -> Ports] /\ raced' \subseteq Ports
      <4>1. CASE UNCHANGED <<port, raced>>
        BY <4>1
      <4>2. CASE Approach(r, p)
        BY <3>0, <4>2 DEF Approach
      <4> QED BY <3>1, <4>1, <4>2
    <3>5. /\ pc' \in [Runners -> Live \cup {"new", "exited", "killed"}]
          /\ pc' # pc => pc' = [pc EXCEPT ![r] = "sweep away"]
      BY <3>1
    <3>6. unread' \in [Runners -> SUBSET Ports]
      BY <3>1
    <3> QED BY <2>17, <3>3, <3>4, <3>5, <3>6 DEF SweepNext
  <2>18. CASE SweepAway(r)
    BY <2>18 DEF SweepAway, Unlink
  <2>19. CASE Exit(r)
    <3>1. End(r, "exited")
      BY <2>19 DEF Exit
    <3>2. lock' \in [Ports -> {NoFile} \cup [pid : Runners \cup {NoPid}, open : SUBSET Runners]]
      <4>1. PICK w \in BOOLEAN : lock' = [p \in Ports |-> Close(r, p, w)]
        BY <2>19 DEF Exit
      <4> QED BY <4>1, CloseType
    <3> QED BY <2>19, <3>1, <3>2, EndTypes DEF Exit
  <2>20. CASE Signal(r)
    BY <2>20 DEF Signal
  <2>21. CASE Die(r)
    <3>1. End(r, "killed")
      BY <2>21 DEF Die
    <3>2. lock' \in [Ports -> {NoFile} \cup [pid : Runners \cup {NoPid}, open : SUBSET Runners]]
      BY <2>21, CloseType DEF Die
    <3> QED BY <2>21, <3>1, <3>2, EndTypes DEF Die
  <2> QED BY <1>n, <2>1, <2>2, <2>3, <2>4, <2>5, <2>6, <2>7, <2>8, <2>9, <2>10, <2>11, <2>12, <2>13, <2>14, <2>15, <2>16, <2>17, <2>18, <2>19, <2>20, <2>21 DEF Step
<1> QED BY <1>u, <1>n DEF Next
-----------------------------------------------------------------------------
(* Races *)

LEMMA InitRace == Init => RaceInv
  BY DEF Init, RaceInv, OneBusy, HolderOwns, JudgeSees, ChangeIsFree, FileIsNew, Unraced, Busy,
         Locking, Holding

\* What a step of r leaves of another runner.
Aside(r) ==
    \A o \in Runners : o # r => pc'[o] = pc[o] /\ port'[o] = port[o] /\ pid'[o] = pid[o]

LEMMA ApproachRace ==
    ASSUME Types, RaceInv, NEW r \in Runners, NEW p \in Ports, Aside(r),
           pc'[r] \in {"look", "sweep away"}, port'[r] = p,
           lock' = lock, raced \subseteq raced',
           \A o \in Runners : o # r /\ Busy(o, p) => p \in raced',
           pc'[r] = "sweep away" => lock[p] # NoFile /\ lock[p].pid \in {NoPid, r}
    PROVE  RaceInv'
<1>a. ASSUME NEW o \in Runners, o # r
      PROVE  /\ pc'[o] = pc[o] /\ port'[o] = port[o] /\ pid'[o] = pid[o]
             /\ Unraced(o)' => Unraced(o)
             /\ \A q \in Ports : Busy(o, q)' <=> Busy(o, q)
  BY <1>a DEF Aside, Unraced, Busy
<1>h. pc'[r] \notin Holding /\ pc'[r] \notin {"judge", "remove", "create", "write"}
  BY DEF Holding
<1>p. \A o \in Runners : port'[o] \in Ports
  BY <1>a DEF Types, TypeOK
<1>1. OneBusy'
  <2> SUFFICES ASSUME NEW a \in Runners, NEW o \in Runners, Unraced(a)',
                      Busy(a, port[a])', Busy(o, port[a])'
               PROVE  a = o
    BY DEF OneBusy
  <2>1. CASE a # r /\ o # r
    <3>1. Unraced(a) /\ Busy(a, port[a]) /\ Busy(o, port[a])
      BY <2>1, <1>a, <1>p
    <3> QED BY <3>1 DEF RaceInv, OneBusy
  <2>2. CASE a = r /\ o # r
    BY <2>2, <1>a DEF Unraced
  <2>3. CASE a # r /\ o = r
    <3>1. port'[a] = p /\ Busy(a, p)
      BY <2>3, <1>a DEF Busy
    <3> QED BY <2>3, <3>1 DEF Unraced
  <2> QED BY <2>1, <2>2, <2>3
<1>2. HolderOwns'
  BY <1>a, <1>h DEF RaceInv, HolderOwns
<1>3. JudgeSees'
  BY <1>a, <1>h DEF RaceInv, JudgeSees
<1>4. ChangeIsFree'
  <2> SUFFICES ASSUME NEW a \in Runners, NEW o \in Runners,
                      pc'[a] \in {"remove", "create", "write", "sweep away"}, Unraced(a)',
                      pc'[o] \in Holding, port'[o] = port'[a]
               PROVE  FALSE
    BY DEF ChangeIsFree
  <2>1. o # r /\ pc[o] \in Holding /\ port[o] = port'[a]
    BY <1>a, <1>h
  <2>2. CASE a = r
    <3>1. Unraced(o)
      BY <2>1, <2>2 DEF Unraced
    <3>3. lock[p].pid = o
      BY <2>1, <2>2, <3>1 DEF RaceInv, HolderOwns
    <3>4. lock[p].pid \in {NoPid, r}
      BY <2>2
    <3> QED BY <2>1, <3>3, <3>4, PortAssumption
  <2>3. CASE a # r
    BY <1>a, <2>1, <2>3 DEF RaceInv, ChangeIsFree
  <2> QED BY <2>2, <2>3
<1>5. FileIsNew'
  <2> SUFFICES ASSUME NEW o \in Runners, Unraced(o)', pc'[o] \in {"create", "write"}
               PROVE  /\ pc[o] = pc'[o] /\ port[o] = port'[o] /\ Unraced(o)
    BY DEF RaceInv, FileIsNew
  <2> QED BY <1>a, <1>h
<1> QED BY <1>1, <1>2, <1>3, <1>4, <1>5 DEF RaceInv

\* r is done with the port or with the lock file, or was neither before nor after.
LEMMA LeaveRace ==
    ASSUME Types, RaceInv, NEW r \in Runners, Aside(r), raced' = raced,
           pc'[r] \notin Locking \cup {"sweep away"},
           pc'[r] \in Holding => pc[r] \in Holding /\ port'[r] = port[r],
           \A p \in Ports : p # port[r] => lock'[p] = lock[p],
           \/ lock' = lock
           \/ pc[r] \in Holding \cup {"sweep away"} /\ lock'[port[r]] = NoFile /\ pc'[r] \notin Holding
    PROVE  RaceInv'
<1>a. ASSUME NEW o \in Runners, o # r
      PROVE  /\ pc'[o] = pc[o] /\ port'[o] = port[o] /\ pid'[o] = pid[o]
             /\ Unraced(o)' <=> Unraced(o)
             /\ \A q \in Ports : Busy(o, q)' <=> Busy(o, q)
  BY <1>a DEF Aside, Unraced, Busy
<1>h. /\ pc'[r] \notin {"look", "judge", "remove", "create", "write", "sweep away"}
      /\ \A q \in Ports : ~Busy(r, q)'
  BY DEF Locking, Busy
<1>p. \A o \in Runners : port[o] \in Ports
  BY DEF Types, TypeOK
<1>1. OneBusy'
  <2> SUFFICES ASSUME NEW a \in Runners, NEW o \in Runners, Unraced(a)',
                      Busy(a, port[a])', Busy(o, port[a])'
               PROVE  a = o
    BY DEF OneBusy
  <2>1. a # r /\ o # r
    BY <1>h DEF Busy
  <2>2. Unraced(a) /\ Busy(a, port[a]) /\ Busy(o, port[a])
    BY <1>a, <1>p, <2>1
  <2> QED BY <2>2 DEF RaceInv, OneBusy
<1>2. HolderOwns'
  <2> SUFFICES ASSUME NEW o \in Runners, pc'[o] \in Holding, Unraced(o)'
               PROVE  lock'[port'[o]] # NoFile /\ lock'[port'[o]].pid = o /\ lock'[port'[o]].open = {}
    BY DEF HolderOwns
  <2>1. pc[o] \in Holding /\ port'[o] = port[o] /\ Unraced(o)
    BY <1>a DEF Unraced
  <2>2. lock[port[o]] # NoFile /\ lock[port[o]].pid = o /\ lock[port[o]].open = {}
    BY <2>1 DEF RaceInv, HolderOwns
  <2>3. lock'[port[o]] = lock[port[o]]
    <3>1. CASE lock' # lock /\ port[o] = port[r]
      <4>1. o # r
        BY <3>1
      <4>2. CASE pc[r] \in Holding
        <5>1. lock[port[o]].pid = r
          BY <2>1, <3>1, <4>2 DEF RaceInv, HolderOwns, Unraced
        <5> QED BY <2>2, <4>1, <5>1
      <4>3. CASE pc[r] = "sweep away"
        BY <2>1, <3>1, <4>3 DEF RaceInv, ChangeIsFree, Unraced
      <4> QED BY <3>1, <4>2, <4>3
    <3> QED BY <3>1, <1>p
  <2> QED BY <2>1, <2>2, <2>3
<1>3. JudgeSees'
  <2> SUFFICES ASSUME NEW a \in Runners, NEW o \in Runners, pc'[a] = "judge", Unraced(a)',
                      pc'[o] \in Holding, port'[o] = port'[a]
               PROVE  pid'[a] = o
    BY DEF JudgeSees
  <2>1. /\ pc[a] = "judge" /\ Unraced(a) /\ pid'[a] = pid[a] /\ port'[a] = port[a]
        /\ pc[o] \in Holding /\ port[o] = port'[o]
    BY <1>a, <1>h
  <2> QED BY <2>1 DEF RaceInv, JudgeSees
<1>4. ChangeIsFree'
  <2> SUFFICES ASSUME NEW a \in Runners, NEW o \in Runners,
                      pc'[a] \in {"remove", "create", "write", "sweep away"}, Unraced(a)',
                      pc'[o] \in Holding, port'[o] = port'[a]
               PROVE  FALSE
    BY DEF ChangeIsFree
  <2>1. /\ pc[a] = pc'[a] /\ Unraced(a) /\ port'[a] = port[a]
        /\ pc[o] \in Holding /\ port[o] = port'[o]
    BY <1>a, <1>h
  <2> QED BY <2>1 DEF RaceInv, ChangeIsFree
<1>5. FileIsNew'
  <2> SUFFICES ASSUME NEW o \in Runners, Unraced(o)', pc'[o] \in {"create", "write"}
               PROVE  /\ pc'[o] = "create" => lock'[port'[o]] = NoFile
                      /\ pc'[o] = "write" =>
                            lock'[port'[o]] # NoFile /\ lock'[port'[o]].open = {o}
    BY DEF FileIsNew
  <2>1. o # r /\ pc[o] = pc'[o] /\ port[o] = port'[o] /\ Unraced(o) /\ port[o] \in Ports
    BY <1>a, <1>h, <1>p
  <2>2. lock'[port[o]] = lock[port[o]]
    <3>1. CASE lock' # lock /\ port[o] = port[r]
      <4>1. CASE pc[r] \in Holding
        BY <2>1, <3>1, <4>1 DEF RaceInv, ChangeIsFree
      <4>2. CASE pc[r] = "sweep away"
        <5>1. Busy(o, port[o]) /\ Busy(r, port[o])
          BY <2>1, <3>1, <4>2 DEF Busy, Locking
        <5> QED BY <2>1, <5>1 DEF RaceInv, OneBusy
      <4> QED BY <3>1, <4>1, <4>2
    <3> QED BY <3>1, <2>1
  <2> QED BY <2>1, <2>2 DEF RaceInv, FileIsNew
<1> QED BY <1>1, <1>2, <1>3, <1>4, <1>5 DEF RaceInv

\* r goes from one call of p_lock to the next.
LEMMA WithinRace ==
    ASSUME Types, RaceInv, NEW r \in Runners, Aside(r), raced' = raced, port' = port,
           pc[r] \in Locking, pc'[r] \in Locking \cup {"open"},
           \A p \in Ports : p # port[r] => lock'[p] = lock[p],
           \/ lock'[port[r]] = lock[port[r]]
           \/ pc[r] \in {"remove", "create", "write"},
           pc'[r] = "judge" => lock[port[r]] # NoFile /\ pid'[r] = lock[port[r]].pid,
           pc'[r] \in {"remove", "create", "write"} =>
              \/ pc[r] \in {"remove", "create"}
              \/ pc[r] = "look" /\ lock[port[r]] = NoFile
              \/ pc[r] = "judge" /\ (pid[r] # NoPid => pc[pid[r]] \notin Live),
           pc'[r] = "create" => lock'[port[r]] = NoFile,
           pc'[r] = "write" /\ Unraced(r) => lock'[port[r]] # NoFile /\ lock'[port[r]].open = {r},
           pc'[r] = "open" /\ Unraced(r) =>
              lock'[port[r]] # NoFile /\ lock'[port[r]].pid = r /\ lock'[port[r]].open = {}
    PROVE  RaceInv'
<1>a. ASSUME NEW o \in Runners, o # r
      PROVE  /\ pc'[o] = pc[o] /\ port'[o] = port[o] /\ pid'[o] = pid[o]
             /\ \A q \in Ports : Busy(o, q)' <=> Busy(o, q)
  BY <1>a DEF Aside, Busy
<1>b. \A o \in Runners : Unraced(o)' <=> Unraced(o)
  BY DEF Unraced
<1>p. \A o \in Runners : port[o] \in Ports
  BY DEF Types, TypeOK
<1>c. Busy(r, port[r]) /\ \A q \in Ports : Busy(r, q)' => Busy(r, q)
  BY DEF Busy
\* Nobody else is busy with the file, and if it changes nobody holds the port.
<1>d. ASSUME NEW o \in Runners, o # r, port[o] = port[r], Unraced(o)
      PROVE  /\ pc[o] \notin Locking \cup {"sweep away"}
             /\ pc[o] \in Holding => lock'[port[r]] = lock[port[r]]
  <2>1. Unraced(r)
    BY <1>d DEF Unraced
  <2>2. pc[o] \notin Locking \cup {"sweep away"}
    BY <1>c, <1>d, <2>1 DEF RaceInv, OneBusy, Busy
  <2>3. pc[o] \in Holding => lock'[port[r]] = lock[port[r]]
    BY <1>d, <2>1 DEF RaceInv, ChangeIsFree
  <2> QED BY <2>2, <2>3
<1>1. OneBusy'
  <2> SUFFICES ASSUME NEW a \in Runners, NEW o \in Runners, Unraced(a)',
                      Busy(a, port[a])', Busy(o, port[a])'
               PROVE  a = o
    BY DEF OneBusy
  <2>1. Unraced(a) /\ Busy(a, port[a]) /\ Busy(o, port[a])
    BY <1>a, <1>b, <1>c, <1>p
  <2> QED BY <2>1 DEF RaceInv, OneBusy
<1>2. HolderOwns'
  <2> SUFFICES ASSUME NEW o \in Runners, pc'[o] \in Holding, Unraced(o)'
               PROVE  lock'[port'[o]] # NoFile /\ lock'[port'[o]].pid = o /\ lock'[port'[o]].open = {}
    BY DEF HolderOwns
  <2>1. CASE o = r
    <3>1. pc'[r] = "open"
      BY <2>1 DEF Holding, Locking
    <3> QED BY <1>b, <2>1, <3>1
  <2>2. CASE o # r
    <3>1. pc[o] \in Holding /\ port'[o] = port[o] /\ Unraced(o)
      BY <1>a, <1>b, <2>2
    <3>2. lock'[port[o]] = lock[port[o]]
      BY <1>d, <1>p, <2>2, <3>1
    <3> QED BY <3>1, <3>2 DEF RaceInv, HolderOwns
  <2> QED BY <2>1, <2>2
<1>3. JudgeSees'
  <2> SUFFICES ASSUME NEW a \in Runners, NEW o \in Runners, pc'[a] = "judge", Unraced(a)',
                      pc'[o] \in Holding, port'[o] = port'[a]
               PROVE  pid'[a] = o
    BY DEF JudgeSees
  <2>0. Unraced(a) /\ Unraced(o) /\ port[o] = port[a]
    BY <1>b DEF Unraced
  <2>1. CASE a = r
    <3>1. o # r /\ pc[o] \in Holding
      BY <1>a, <2>1 DEF Holding
    <3> QED BY <2>0, <2>1, <3>1 DEF RaceInv, HolderOwns
  <2>2. CASE a # r /\ o = r
    <3>1. pc[a] = "judge"
      BY <1>a, <2>2
    <3> QED BY <1>d, <2>0, <2>2, <3>1 DEF Locking
  <2>3. CASE a # r /\ o # r
    BY <1>a, <2>0, <2>3 DEF RaceInv, JudgeSees
  <2> QED BY <2>1, <2>2, <2>3
<1>4. ChangeIsFree'
  <2> SUFFICES ASSUME NEW a \in Runners, NEW o \in Runners,
                      pc'[a] \in {"remove", "create", "write", "sweep away"}, Unraced(a)',
                      pc'[o] \in Holding, port'[o] = port'[a]
               PROVE  FALSE
    BY DEF ChangeIsFree
  <2>0. Unraced(a) /\ Unraced(o) /\ port[o] = port[a]
    BY <1>b DEF Unraced
  <2>1. CASE a = r
    <3>1. o # r /\ pc[o] \in Holding
      BY <1>a, <2>1 DEF Holding
    <3>2. pc'[r] \in {"remove", "create", "write"}
      BY <2>1 DEF Locking
    <3>3. CASE pc[r] \in {"remove", "create"}
      BY <2>0, <2>1, <3>1, <3>3 DEF RaceInv, ChangeIsFree
    <3>4. CASE pc[r] = "look" /\ lock[port[r]] = NoFile
      BY <2>0, <2>1, <3>1, <3>4 DEF RaceInv, HolderOwns
    <3>5. CASE pc[r] = "judge" /\ (pid[r] # NoPid => pc[pid[r]] \notin Live)
      <4>1. pid[r] = o
        BY <2>0, <2>1, <3>1, <3>5 DEF RaceInv, JudgeSees
      <4> QED BY <3>1, <3>5, <4>1, PortAssumption DEF Live
    <3> QED BY <3>2, <3>3, <3>4, <3>5
  <2>2. CASE a # r /\ o = r
    <3>1. pc[a] \in Locking \cup {"sweep away"}
      BY <1>a, <2>2 DEF Locking
    <3> QED BY <1>d, <2>0, <2>2, <3>1
  <2>3. CASE a # r /\ o # r
    BY <1>a, <2>0, <2>3 DEF RaceInv, ChangeIsFree
  <2> QED BY <2>1, <2>2, <2>3
<1>5. FileIsNew'
  <2> SUFFICES ASSUME NEW o \in Runners, Unraced(o)'
               PROVE  /\ pc'[o] = "create" => lock'[port'[o]] = NoFile
                      /\ pc'[o] = "write" =>
                            lock'[port'[o]] # NoFile /\ lock'[port'[o]].open = {o}
    BY DEF FileIsNew
  <2>1. CASE o = r
    BY <1>b, <2>1
  <2>2. CASE o # r /\ pc'[o] \in {"create", "write"}
    <3>1. pc[o] = pc'[o] /\ Unraced(o) /\ pc[o] \in Locking
      BY <1>a, <1>b, <2>2 DEF Locking
    <3>2. lock'[port[o]] = lock[port[o]]
      BY <1>d, <1>p, <2>2, <3>1
    <3> QED BY <3>1, <3>2 DEF RaceInv, FileIsNew
  <2> QED BY <2>1, <2>2
<1> QED BY <1>1, <1>2, <1>3, <1>4, <1>5 DEF RaceInv

\* The process r ends: only files it has a stream on can change.
LEMMA EndRace ==
    ASSUME Types, RaceInv, NEW r \in Runners, Aside(r), raced' = raced,
           pc'[r] \in {"exited", "killed"},
           \A p \in Ports : lock[p] = NoFile \/ r \notin lock[p].open => lock'[p] = lock[p]
    PROVE  RaceInv'
<1>a. ASSUME NEW o \in Runners, o # r
      PROVE  /\ pc'[o] = pc[o] /\ port'[o] = port[o] /\ pid'[o] = pid[o]
             /\ Unraced(o)' <=> Unraced(o)
             /\ \A q \in Ports : Busy(o, q)' <=> Busy(o, q)
  BY <1>a DEF Aside, Unraced, Busy
<1>h. /\ pc'[r] \notin {"look", "judge", "remove", "create", "write", "sweep away"}
      /\ pc'[r] \notin Holding /\ pc'[r] \notin Locking \cup {"sweep away"}
      /\ \A q \in Ports : ~Busy(r, q)'
  BY DEF Locking, Holding, Busy
<1>p. \A o \in Runners : port[o] \in Ports
  BY DEF Types, TypeOK
<1>1. OneBusy'
  <2> SUFFICES ASSUME NEW a \in Runners, NEW o \in Runners, Unraced(a)',
                      Busy(a, port[a])', Busy(o, port[a])'
               PROVE  a = o
    BY DEF OneBusy
  <2>1. a # r /\ o # r
    BY <1>h DEF Busy
  <2>2. Unraced(a) /\ Busy(a, port[a]) /\ Busy(o, port[a])
    BY <1>a, <1>p, <2>1
  <2> QED BY <2>2 DEF RaceInv, OneBusy
<1>2. HolderOwns'
  <2> SUFFICES ASSUME NEW o \in Runners, pc'[o] \in Holding, Unraced(o)'
               PROVE  lock'[port'[o]] # NoFile /\ lock'[port'[o]].pid = o /\ lock'[port'[o]].open = {}
    BY DEF HolderOwns
  <2>1. pc[o] \in Holding /\ port'[o] = port[o] /\ Unraced(o)
    BY <1>a, <1>h
  <2>2. lock[port[o]] # NoFile /\ lock[port[o]].pid = o /\ lock[port[o]].open = {}
    BY <2>1 DEF RaceInv, HolderOwns
  <2> QED BY <1>p, <2>1, <2>2
<1>3. JudgeSees'
  <2> SUFFICES ASSUME NEW a \in Runners, NEW o \in Runners, pc'[a] = "judge", Unraced(a)',
                      pc'[o] \in Holding, port'[o] = port'[a]
               PROVE  pid'[a] = o
    BY DEF JudgeSees
  <2>1. /\ pc[a] = "judge" /\ Unraced(a) /\ pid'[a] = pid[a] /\ port'[a] = port[a]
        /\ pc[o] \in Holding /\ port[o] = port'[o]
    BY <1>a, <1>h
  <2> QED BY <2>1 DEF RaceInv, JudgeSees
<1>4. ChangeIsFree'
  <2> SUFFICES ASSUME NEW a \in Runners, NEW o \in Runners,
                      pc'[a] \in {"remove", "create", "write", "sweep away"}, Unraced(a)',
                      pc'[o] \in Holding, port'[o] = port'[a]
               PROVE  FALSE
    BY DEF ChangeIsFree
  <2>1. /\ pc[a] = pc'[a] /\ Unraced(a) /\ port'[a] = port[a]
        /\ pc[o] \in Holding /\ port[o] = port'[o]
    BY <1>a, <1>h
  <2> QED BY <2>1 DEF RaceInv, ChangeIsFree
<1>5. FileIsNew'
  <2> SUFFICES ASSUME NEW o \in Runners, Unraced(o)', pc'[o] \in {"create", "write"}
               PROVE  /\ pc'[o] = "create" => lock'[port'[o]] = NoFile
                      /\ pc'[o] = "write" =>
                            lock'[port'[o]] # NoFile /\ lock'[port'[o]].open = {o}
    BY DEF FileIsNew
  <2>1. o # r /\ pc[o] = pc'[o] /\ port[o] = port'[o] /\ Unraced(o) /\ port[o] \in Ports
    BY <1>a, <1>h, <1>p
  <2>2. CASE pc[o] = "create"
    BY <2>1, <2>2 DEF RaceInv, FileIsNew
  <2>3. CASE pc[o] = "write"
    <3>1. lock[port[o]] # NoFile /\ lock[port[o]].open = {o}
      BY <2>1, <2>3 DEF RaceInv, FileIsNew
    <3>2. lock'[port[o]] = lock[port[o]]
      BY <2>1, <3>1
    <3> QED BY <2>1, <2>3, <3>1, <3>2
  <2> QED BY <2>1, <2>2, <2>3
<1> QED BY <1>1, <1>2, <1>3, <1>4, <1>5 DEF RaceInv

\* Which files change when the streams of r are closed.
LEMMA CloseKeeps ==
    ASSUME NEW r, NEW p, NEW w, lock[p] = NoFile \/ r \notin lock[p].open
    PROVE  Close(r, p, w) = lock[p]
  BY DEF Close

LEMMA RaceStep == Types /\ RaceInv /\ [Next]_vars => RaceInv'
<1> SUFFICES ASSUME Types, RaceInv, [Next]_vars PROVE RaceInv'
  OBVIOUS
<1>u. CASE UNCHANGED vars
  BY <1>u DEF vars, runner, history, RaceInv, OneBusy, HolderOwns, JudgeSees, ChangeIsFree,
              FileIsNew, Unraced, Busy
<1>n. ASSUME NEW r \in Runners,
             Start(r) \/ Step(r) \/ Talk(r) \/ TalkInVain(r) \/ Signal(r) \/ Die(r)
      PROVE  RaceInv'
  <2>f. /\ \A x : Goto(r, x) => pc'[r] = x /\ \A o \in Runners : o # r => pc'[o] = pc[o]
        /\ port[r] \in Ports
        /\ Goto(r, "next") \/ Goto(r, "sweep") =>
              pc'[r] \notin Locking \cup Holding \cup {"sweep away"}
    BY DEF Goto, Types, TypeOK, Locking, Holding
  <2>q. ASSUME Start(r) \/ Skip(r) \/ Finish(r) \/ Refused(r) \/ OpenPort(r) \/ OpenFails(r)
                  \/ Talk(r) \/ TalkInVain(r) \/ Signal(r)
        PROVE  RaceInv'
    <3>1. lock' = lock /\ raced' = raced /\ port' = port
      BY <2>q DEF Start, Skip, Finish, Refused, OpenPort, OpenFails, Talk, TalkInVain, Signal,
                 runner, history, NextTerminal
    <3>6. \/ Goto(r, "next") \/ Goto(r, "sweep")
          \/ pc[r] \in Holding /\ \E x \in {"talk", "unlock", "unlock and stop"} : Goto(r, x)
      BY <2>q DEF Start, Skip, Finish, Refused, OpenPort, OpenFails, Talk, TalkInVain,
                 Signal, NextTerminal, Holding
    <3>4. \A o \in Runners : o # r => pc'[o] = pc[o]
      BY <2>f, <3>6
    <3>5. \A o \in Runners : o # r => pid'[o] = pid[o]
      BY <2>q DEF Start, Skip, Finish, Refused, OpenPort, OpenFails, Talk, TalkInVain,
                 Signal, runner, Types, TypeOK
    <3>2. Aside(r)
      BY <3>1, <3>4, <3>5 DEF Aside
    <3>3. /\ pc'[r] \notin Locking \cup {"sweep away"}
          /\ pc'[r] \in Holding => pc[r] \in Holding
      BY <2>f, <3>6 DEF Locking, Holding
    <3> QED BY <3>1, <3>2, <3>3, LeaveRace
  <2>e. ASSUME CreateFails(r) \/ Exit(r) \/ Die(r)
        PROVE  RaceInv'
    <3>1. \E how \in {"exited", "killed"} : End(r, how)
      BY <2>e DEF CreateFails, Exit, Die
    <3>2. Aside(r) /\ pc'[r] \in {"exited", "killed"}
      BY <3>1, <2>f DEF End, Aside, Types, TypeOK
    <3>3. raced' = raced
      BY <2>e DEF CreateFails, Exit, Die
    <3>4. \A p \in Ports : lock[p] = NoFile \/ r \notin lock[p].open => lock'[p] = lock[p]
      BY <2>e, CloseKeeps DEF CreateFails, Exit, Die
    <3> QED BY <3>2, <3>3, <3>4, EndRace
  <2>r. CASE Remove(r)
    <3>1. raced' = raced /\ port' = port /\ pid' = pid /\ pc[r] = "remove"
      BY <2>r DEF Remove, history
    <3>2. CASE lock[port[r]] = NoFile
      <4>1. Goto(r, "next") /\ lock' = lock
        BY <2>r, <3>2 DEF Remove, NextTerminal
      <4> QED BY <2>f, <3>1, <4>1, LeaveRace DEF Aside
    <3>3. CASE lock[port[r]] # NoFile
      <4>1. Goto(r, "create") /\ Unlink(port[r])
        BY <2>r, <3>3 DEF Remove
      <4>2. lock'[port[r]] = NoFile /\ \A p \in Ports : p # port[r] => lock'[p] = lock[p]
        BY <2>f, <4>1 DEF Unlink, Types, TypeOK
      <4>3. pc'[r] = "create" /\ Aside(r)
        BY <2>f, <3>1, <4>1 DEF Aside
      <4> QED BY <3>1, <4>2, <4>3, WithinRace DEF Locking
    <3> QED BY <3>2, <3>3
  <2>p. CASE PUnlock(r) \/ SweepAway(r)
    <3>1. /\ raced' = raced /\ port' = port /\ pid' = pid /\ pc[r] \in Holding \cup {"sweep away"}
          /\ Goto(r, "next") \/ Goto(r, "sweep")
          /\ Unlink(port[r])
      BY <2>p DEF PUnlock, SweepAway, history, runner, Holding
    <3>2. lock'[port[r]] = NoFile /\ \A p \in Ports : p # port[r] => lock'[p] = lock[p]
      BY <2>f, <3>1 DEF Unlink, Types, TypeOK
    <3>3. Aside(r) /\ pc'[r] \notin Locking \cup Holding \cup {"sweep away"}
      BY <2>f, <3>1 DEF Aside, Locking, Holding
    <3> QED BY <3>1, <3>2, <3>3, LeaveRace
  <2>c. CASE Call(r)
    <3>1. pc'[r] = "look" /\ lock' = lock /\ pid' = pid /\ Approach(r, Dial[at[r]])
      BY <2>c, <2>f DEF Call
    <3>0. Dial[at[r]] \in Ports
      BY <2>c, DialPort DEF Call
    <3>2. port'[r] = Dial[at[r]] /\ Aside(r) /\ raced \subseteq raced'
      BY <2>c, <2>f, <3>1 DEF Call, Approach, Aside, Types, TypeOK
    <3>3. \A o \in Runners : o # r /\ Busy(o, Dial[at[r]]) => Dial[at[r]] \in raced'
      BY <3>1 DEF Approach
    <3> QED BY <3>0, <3>1, <3>2, <3>3, ApproachRace
  <2>s. CASE SweepNext(r)
    <3>1. PICK p \in unread[r] :
              \/ Owner(p) # r /\ UNCHANGED <<pc, port, pid, raced>>
              \/ /\ lock[p] # NoFile
                 /\ \E i \in Read(r, p) :
                       /\ pid' = [pid EXCEPT ![r] = i]
                       /\ IF i = r
                          THEN Goto(r, "sweep away") /\ Approach(r, p)
                          ELSE UNCHANGED <<pc, port, raced>>
      BY <2>s DEF SweepNext
    <3>0. p \in Ports /\ lock' = lock /\ pc[r] = "sweep"
      BY <2>s DEF SweepNext, Types, TypeOK
    <3>2. CASE UNCHANGED <<pc, port, raced>>
      <4>1. \A o \in Runners : o # r => pid'[o] = pid[o]
        BY <3>1 DEF Types, TypeOK
      <4>2. Aside(r) /\ pc'[r] \notin Locking \cup Holding \cup {"sweep away"}
        BY <3>0, <3>2, <4>1 DEF Aside, Locking, Holding
      <4> QED BY <3>0, <3>2, <4>2, LeaveRace
    <3>3. CASE /\ lock[p] # NoFile /\ Goto(r, "sweep away") /\ Approach(r, p)
               /\ r \in Read(r, p) /\ pid' = [pid EXCEPT ![r] = r]
      <4>1. pc'[r] = "sweep away" /\ port'[r] = p /\ Aside(r) /\ raced \subseteq raced'
        BY <2>f, <3>3 DEF Approach, Aside, Types, TypeOK
      <4>2. \A o \in Runners : o # r /\ Busy(o, p) => p \in raced'
        BY <3>3 DEF Approach
      <4>3. lock[p].pid \in {NoPid, r}
        BY <3>3 DEF Read, Owner
      <4> QED BY <3>0, <3>3, <4>1, <4>2, <4>3, ApproachRace
    <3> QED BY <3>1, <3>2, <3>3
  <2>l. CASE Look(r)
    <3>1. /\ raced' = raced /\ port' = port /\ lock' = lock /\ pc[r] = "look"
      BY <2>l DEF Look, history
    <3>2. CASE lock[port[r]] = NoFile
      <4>1. pc'[r] = "create" /\ Aside(r)
        BY <2>f, <2>l, <3>1, <3>2 DEF Look, Aside
      <4> QED BY <3>1, <3>2, <4>1, WithinRace DEF Locking
    <3>3. CASE lock[port[r]] # NoFile
      <4>1. pc'[r] = "judge" /\ pid'[r] = lock[port[r]].pid /\ Aside(r)
        BY <2>f, <2>l, <3>1, <3>3 DEF Look, Aside, Types, TypeOK
      <4> QED BY <3>1, <3>3, <4>1, WithinRace DEF Locking
    <3> QED BY <3>2, <3>3
  <2>j. CASE Stale(r)
    <3>1. /\ raced' = raced /\ port' = port /\ lock' = lock /\ pc[r] = "judge"
          /\ pid[r] # NoPid => pc[pid[r]] \notin Live
      BY <2>j DEF Stale, history
    <3>2. pc'[r] = "remove" /\ Aside(r)
      BY <2>f, <2>j, <3>1 DEF Stale, Aside, Types, TypeOK
    <3> QED BY <3>1, <3>2, WithinRace DEF Locking
  <2>k. CASE Create(r)
    <3>1. /\ raced' = raced /\ port' = port /\ pid' = pid /\ pc[r] = "create"
      BY <2>k DEF Create, history, runner
    <3>2. pc'[r] = "write" /\ Aside(r)
      BY <2>f, <2>k, <3>1 DEF Create, Aside
    <3>3. /\ \A p \in Ports : p # port[r] => lock'[p] = lock[p]
          /\ lock'[port[r]] = [pid |-> NoPid,
                               open |-> {r} \cup IF lock[port[r]] = NoFile THEN {} ELSE lock[port[r]].open]
      BY <2>f, <2>k DEF Create, Types, TypeOK
    <3>4. lock'[port[r]] # NoFile
      <4>1. lock'[port[r]] \in [pid : Runners \cup {NoPid}, open : SUBSET Runners]
        <5>1. lock[port[r]] # NoFile => lock[port[r]].open \subseteq Runners
          BY <2>f DEF Types, TypeOK
        <5> QED BY <3>3, <5>1
      <4> QED BY <4>1, PortAssumption
    <3>5. Unraced(r) => lock'[port[r]].open = {r}
      BY <3>1, <3>3 DEF RaceInv, FileIsNew
    <3> QED BY <3>1, <3>2, <3>3, <3>4, <3>5, WithinRace DEF Locking
  <2>w. CASE Write(r)
    <3>1. /\ raced' = raced /\ port' = port /\ pid' = pid /\ pc[r] = "write"
      BY <2>w DEF Write, history, runner
    <3>2. pc'[r] = "open" /\ Aside(r)
      BY <2>f, <2>w, <3>1 DEF Write, Aside
    <3>3. /\ \A p \in Ports : p # port[r] => lock'[p] = lock[p]
          /\ lock'[port[r]] = Close(r, port[r], TRUE)
      BY <2>f, <2>w DEF Write, Types, TypeOK
    <3>4. ASSUME Unraced(r)
          PROVE  lock'[port[r]] # NoFile /\ lock'[port[r]].pid = r /\ lock'[port[r]].open = {}
      <4>1. lock[port[r]] # NoFile /\ lock[port[r]].open = {r}
        BY <3>1, <3>4 DEF RaceInv, FileIsNew
      <4>2. lock'[port[r]] = [pid |-> r, open |-> {}]
        BY <3>3, <4>1 DEF Close
      <4>3. lock'[port[r]] \in [pid : Runners \cup {NoPid}, open : SUBSET Runners]
        BY <4>2
      <4> QED BY <4>2, <4>3, PortAssumption
    <3> QED BY <3>1, <3>2, <3>3, <3>4, WithinRace DEF Locking
  <2> QED BY <1>n, <2>q, <2>e, <2>r, <2>p, <2>c, <2>s, <2>l, <2>j, <2>k, <2>w DEF Step
<1> QED BY <1>u, <1>n DEF Next

-----------------------------------------------------------------------------
(* Lock files left behind *)

LEMMA InitTrack == Init => TrackInv
  BY PortAssumption DEF Init, TrackInv, OwnIsKnown, StreamsAreKnown, Streams, Owner

\* What a step of r leaves of another runner's record of ports.
Apart(r) ==
    /\ \A o \in Runners : o # r =>
          pc'[o] = pc[o] /\ port'[o] = port[o] /\ broken'[o] = broken[o] /\ unread'[o] = unread[o]
    /\ cut \subseteq cut'

\* It is enough to look at the lock files and streams of the runner that moves.
LEMMA TrackOfOne ==
    ASSUME TrackInv, NEW r \in Runners, Apart(r),
           \A o \in Runners : o # r =>
              \A p \in Ports : (Owner(p)' = o => Owner(p) = o) /\ (Streams(o, p)' => Streams(o, p)),
           \A p \in Ports : Owner(p)' = r => Known(r, p)',
           \A p \in Ports : Streams(r, p)' =>
              \/ pc'[r] = "write" /\ p = port'[r]
              \/ pc'[r] \in Sweeping /\ r \in cut'
    PROVE  TrackInv'
<1>1. OwnIsKnown'
  <2> SUFFICES ASSUME NEW o \in Runners, NEW p \in Ports, Owner(p)' = o PROVE Known(o, p)'
    BY DEF OwnIsKnown
  <2>1. CASE o = r
    BY <2>1
  <2>2. CASE o # r
    <3>1. Known(o, p)
      BY <2>2 DEF TrackInv, OwnIsKnown
    <3> QED BY <2>2, <3>1 DEF Known, Apart
  <2> QED BY <2>1, <2>2
<1>2. StreamsAreKnown'
  <2> SUFFICES ASSUME NEW o \in Runners, NEW p \in Ports, Streams(o, p)'
               PROVE  \/ pc'[o] = "write" /\ p = port'[o]
                      \/ pc'[o] \in Sweeping /\ o \in cut'
    BY DEF StreamsAreKnown
  <2>1. CASE o = r
    BY <2>1
  <2>2. CASE o # r
    BY <2>2 DEF TrackInv, StreamsAreKnown, Apart
  <2> QED BY <2>1, <2>2
<1> QED BY <1>1, <1>2 DEF TrackInv

\* A file that did not change, and one that is gone, is no reason for concern.
LEMMA SameOrGone ==
    ASSUME NEW r \in Runners, NEW p \in Ports, lock'[p] = lock[p] \/ lock'[p] = NoFile
    PROVE  /\ Owner(p)' = r => Owner(p) = r /\ lock'[p] = lock[p]
           /\ Streams(r, p)' => Streams(r, p)
  BY PortAssumption DEF Owner, Streams

LEMMA TrackStep == Types /\ TrackInv /\ [Next]_vars => TrackInv'
<1> SUFFICES ASSUME Types, TrackInv, [Next]_vars PROVE TrackInv'
  OBVIOUS
<1>u. CASE UNCHANGED vars
  BY <1>u DEF vars, runner, history, TrackInv, OwnIsKnown, StreamsAreKnown, Known, Streams, Owner
<1>n. ASSUME NEW r \in Runners,
             Start(r) \/ Step(r) \/ Talk(r) \/ TalkInVain(r) \/ Signal(r) \/ Die(r)
      PROVE  TrackInv'
  <2>f. /\ \A x : Goto(r, x) => pc'[r] = x /\ \A o \in Runners : o # r => pc'[o] = pc[o]
        /\ port[r] \in Ports
    BY DEF Goto, Types, TypeOK
  <2>k. \A p \in Ports : Owner(p) = r => Known(r, p)
    BY DEF TrackInv, OwnIsKnown
  <2>t. \A p \in Ports : Streams(r, p) =>
           \/ pc[r] = "write" /\ p = port[r]
           \/ pc[r] \in Sweeping /\ r \in cut
    BY DEF TrackInv, StreamsAreKnown
  \* Steps that leave the lock files as they are.
  <2>q. ASSUME \/ Start(r) \/ Skip(r) \/ Finish(r) \/ Look(r) \/ Refused(r) \/ Stale(r)
               \/ OpenPort(r) \/ OpenFails(r) \/ Talk(r) \/ TalkInVain(r) \/ Call(r) \/ Signal(r)
        PROVE  TrackInv'
    <3>1. lock' = lock
      BY <2>q DEF Start, Skip, Finish, Look, Refused, Stale, OpenPort, OpenFails, Talk, TalkInVain,
                  Call, Signal
    <3>2. \E x : Goto(r, x)
      BY <2>q DEF Start, Skip, Finish, Look, Refused, Stale, OpenPort, OpenFails, Talk, TalkInVain,
                  Call, Signal, NextTerminal
    <3>3. \A o \in Runners : o # r => port'[o] = port[o]
      BY <2>q DEF Start, Skip, Finish, Look, Refused, Stale, OpenPort, OpenFails, Talk, TalkInVain,
                  Call, Approach, Signal, runner, Types, TypeOK
    <3>4. \A o \in Runners : o # r => broken'[o] = broken[o] /\ unread'[o] = unread[o]
      BY <2>q DEF Start, Skip, Finish, Look, Refused, Stale, OpenPort, OpenFails, Talk, TalkInVain,
                  Call, Signal, runner, history, Types, TypeOK
    <3>5. cut \subseteq cut'
      BY <2>q DEF Start, Skip, Finish, Look, Refused, Stale, OpenPort, OpenFails, Talk, TalkInVain,
                  Call, Signal, history
    <3>6. Apart(r)
      BY <2>f, <3>2, <3>3, <3>4, <3>5 DEF Apart
    <3>7. \A o \in Runners, p \in Ports : Owner(p)' = Owner(p) /\ (Streams(o, p)' <=> Streams(o, p))
      BY <3>1 DEF Owner, Streams
    <3>8. ASSUME NEW p \in Ports, Known(r, p) PROVE Known(r, p)'
      <4> USE DEF Known, Locking, Holding, Sweeping
      <4>1. CASE Start(r)
        BY <3>8, <4>1, <2>f DEF Start
      <4>2. CASE Skip(r)
        BY <3>8, <4>2, <2>f DEF Skip, NextTerminal, history
      <4>3. CASE Finish(r)
        <5>1. pc'[r] = "sweep" /\ unread'[r] = Ports
          BY <4>3, <2>f DEF Finish, Types, TypeOK
        <5> QED BY <5>1
      <4>4. CASE Look(r)
        <5>1. pc'[r] \in {"create", "judge"} /\ broken' = broken /\ pc[r] = "look"
          BY <4>4, <2>f DEF Look, history
        <5> QED BY <3>8, <5>1
      <4>5. CASE Refused(r)
        <5>1. pc'[r] = "next" /\ pc[r] = "judge" /\ broken' = broken
          BY <4>5, <2>f DEF Refused, NextTerminal, history
        <5> QED BY <3>8, <5>1
      <4>6. CASE Stale(r)
        <5>1. pc'[r] = "remove" /\ pc[r] = "judge" /\ broken' = broken
          BY <4>6, <2>f DEF Stale, history
        <5> QED BY <3>8, <5>1
      <4>7. CASE OpenPort(r) \/ Talk(r) \/ TalkInVain(r)
        <5>1. pc'[r] \in Holding /\ pc[r] \in Holding /\ broken' = broken /\ port' = port
          BY <4>7, <2>f DEF OpenPort, Talk, TalkInVain, runner, history
        <5> QED BY <3>8, <5>1
      <4>8. CASE OpenFails(r)
        <5>1. pc'[r] = "next" /\ pc[r] = "open"
          BY <4>8, <2>f DEF OpenFails, NextTerminal
        <5>2. broken'[r] = broken[r] \cup {port[r]}
          BY <4>8 DEF OpenFails, Types, TypeOK
        <5> QED BY <3>8, <5>1, <5>2
      <4>9. CASE Call(r)
        <5>1. pc'[r] = "look" /\ pc[r] = "next" /\ broken' = broken
          BY <4>9, <2>f DEF Call
        <5> QED BY <3>8, <5>1
      <4>10. CASE Signal(r)
        <5>1. pc'[r] = "sweep" /\ unread'[r] = Ports
          BY <4>10, <2>f DEF Signal, Types, TypeOK
        <5> QED BY <5>1
      <4> QED BY <2>q, <4>1, <4>2, <4>3, <4>4, <4>5, <4>6, <4>7, <4>8, <4>9, <4>10
    <3>9. ASSUME NEW p \in Ports, Streams(r, p)
          PROVE  \/ pc'[r] = "write" /\ p = port'[r]
                 \/ pc'[r] \in Sweeping /\ r \in cut'
      <4>1. Signal(r)
        BY <2>q, <2>t, <3>9 DEF Start, Skip, Finish, Look, Refused, Stale, OpenPort, OpenFails, Talk,
              TalkInVain, Call, Sweeping
      <4>2. pc'[r] = "sweep" /\ (pc[r] = "write" \/ r \in cut => r \in cut')
        BY <4>1, <2>f DEF Signal
      <4> QED BY <2>t, <3>9, <4>2 DEF Sweeping
    <3> QED BY <2>k, <3>6, <3>7, <3>8, <3>9, TrackOfOne
  \* Steps that remove the lock file of the port.
  <2>p. ASSUME Remove(r) \/ PUnlock(r) \/ SweepAway(r)
        PROVE  TrackInv'
    <3>1. /\ port' = port /\ broken' = broken /\ unread' = unread /\ cut' = cut
          /\ Goto(r, "next") \/ Goto(r, "create") \/ Goto(r, "sweep")
      BY <2>p DEF Remove, PUnlock, SweepAway, runner, history, NextTerminal
    <3>2. Apart(r)
      BY <2>f, <3>1 DEF Apart
    <3>3. \A p \in Ports : lock'[p] = lock[p] \/ lock'[p] = NoFile
      BY <2>p DEF Remove, PUnlock, SweepAway, Unlink, Types, TypeOK
    <3>4. PUnlock(r) \/ SweepAway(r) => lock'[port[r]] = NoFile
      BY <2>p, <2>f DEF PUnlock, SweepAway, Unlink, Types, TypeOK
    <3>5. \A p \in Ports : ~Streams(r, p) \/ (SweepAway(r) /\ r \in cut)
      BY <2>p, <2>t DEF Remove, PUnlock, SweepAway, Sweeping
    <3>6. ASSUME NEW p \in Ports, Owner(p)' = r PROVE Known(r, p)'
      <4>1. Known(r, p) /\ lock'[p] # NoFile
        BY <2>k, <3>3, <3>6, SameOrGone, PortAssumption DEF Owner
      <4>2. CASE Remove(r)
        <5>1. pc[r] = "remove" /\ pc'[r] \in {"next", "create"}
          BY <4>2, <2>f DEF Remove, NextTerminal
        <5> QED BY <3>1, <4>1, <5>1 DEF Known, Locking, Holding, Sweeping
      <4>3. CASE PUnlock(r)
        <5>1. pc[r] \in {"unlock", "unlock and stop"} /\ pc'[r] = "next"
          BY <4>3, <2>f DEF PUnlock
        <5> QED BY <3>1, <3>4, <4>1, <4>3, <5>1 DEF Known, Locking, Holding, Sweeping
      <4>4. CASE SweepAway(r)
        <5>1. pc[r] = "sweep away" /\ pc'[r] = "sweep"
          BY <4>4, <2>f DEF SweepAway
        <5> QED BY <3>1, <3>4, <4>1, <4>4, <5>1 DEF Known, Locking, Holding, Sweeping
      <4> QED BY <2>p, <4>2, <4>3, <4>4
    <3>7. SweepAway(r) => pc'[r] \in Sweeping
      BY <2>f DEF SweepAway, Sweeping
    <3>8. \A o \in Runners, p \in Ports :
             (Owner(p)' = o => Owner(p) = o) /\ (Streams(o, p)' => Streams(o, p))
      BY <3>3, SameOrGone
    <3> QED BY <3>1, <3>2, <3>5, <3>6, <3>7, <3>8, TrackOfOne
  <2>c. CASE Create(r)
    <3>1. /\ port' = port /\ broken' = broken /\ unread' = unread /\ cut' = cut
          /\ pc'[r] = "write" /\ pc[r] = "create" /\ Apart(r)
      BY <2>c, <2>f DEF Create, runner, history, Apart
    <3>2. /\ \A p \in Ports : p # port[r] => lock'[p] = lock[p]
          /\ lock'[port[r]] = [pid |-> NoPid,
                               open |-> {r} \cup IF lock[port[r]] = NoFile THEN {} ELSE lock[port[r]].open]
      BY <2>c, <2>f DEF Create, Types, TypeOK
    <3>3. \A p \in Ports : p = port[r] => Owner(p)' \notin Runners
      BY <3>2, PortAssumption DEF Owner
    <3>4. \A o \in Runners, p \in Ports : p = port[r] /\ o # r /\ Streams(o, p)' => Streams(o, p)
      BY <3>2 DEF Streams
    <3>5. \A o \in Runners, p \in Ports : p # port[r] =>
             (Owner(p)' = o => Owner(p) = o) /\ (Streams(o, p)' => Streams(o, p))
      BY <3>2, SameOrGone
    <3>6. ASSUME NEW p \in Ports, Owner(p)' = r PROVE Known(r, p)'
      <4>1. Known(r, p)
        BY <2>k, <3>3, <3>5, <3>6
      <4> QED BY <3>1, <4>1 DEF Known, Locking, Holding, Sweeping
    <3>7. \A p \in Ports : Streams(r, p)' => p = port'[r]
      BY <2>t, <3>1, <3>5 DEF Sweeping
    <3>8. \A o \in Runners : o # r =>
              \A p \in Ports : (Owner(p)' = o => Owner(p) = o) /\ (Streams(o, p)' => Streams(o, p))
      BY <3>3, <3>4, <3>5
    <3> QED BY <3>1, <3>6, <3>7, <3>8, TrackOfOne
  <2>w. CASE Write(r)
    <3>1. /\ port' = port /\ broken' = broken /\ unread' = unread /\ cut' = cut
          /\ pc'[r] = "open" /\ pc[r] = "write" /\ Apart(r)
      BY <2>w, <2>f DEF Write, runner, history, Apart
    <3>2. /\ \A p \in Ports : p # port[r] => lock'[p] = lock[p]
          /\ lock'[port[r]] = Close(r, port[r], TRUE)
      BY <2>w, <2>f DEF Write, Types, TypeOK
    <3>3. \A o \in Runners, p \in Ports : p # port[r] =>
             (Owner(p)' = o => Owner(p) = o) /\ (Streams(o, p)' => Streams(o, p))
      BY <3>2, SameOrGone
    <3>4. \A o \in Runners, p \in Ports : p = port[r] /\ o # r =>
             (Owner(p)' = o => Owner(p) = o) /\ (Streams(o, p)' => Streams(o, p))
      BY <3>2, PortAssumption DEF Owner, Streams, Close
    <3>5. ~Streams(r, port[r])' /\ \A p \in Ports : ~Streams(r, p)'
      <4>1. \A p \in Ports : p # port[r] => ~Streams(r, p)
        BY <2>t, <3>1 DEF Sweeping
      <4>2. \A p \in Ports : p = port[r] => ~Streams(r, p)'
        BY <3>2 DEF Streams, Close
      <4> QED BY <2>f, <3>1, <3>3, <4>1, <4>2
    <3>6. ASSUME NEW p \in Ports, Owner(p)' = r PROVE Known(r, p)'
      <4>1. CASE p = port[r]
        BY <3>1, <4>1 DEF Known, Locking, Holding, Sweeping
      <4>2. CASE p # port[r]
        <5>1. Known(r, p)
          BY <2>k, <3>3, <3>6, <4>2
        <5> QED BY <3>1, <5>1 DEF Known, Locking, Holding, Sweeping
      <4> QED BY <4>1, <4>2
    <3> QED BY <3>1, <3>3, <3>4, <3>5, <3>6, TrackOfOne
  <2>e. ASSUME CreateFails(r) \/ Die(r) \/ Exit(r)
        PROVE  TrackInv'
    <3>1. PICK how \in {"killed", "exited"} : End(r, how) /\ (how = "exited" => Exit(r))
      BY <2>e DEF CreateFails, Die, Exit
    <3>2. cut' = cut /\ pc'[r] = how /\ Apart(r)
      <4>1. cut' = cut
        BY <2>e DEF CreateFails, Die, Exit
      <4> QED BY <2>f, <3>1, <4>1 DEF End, Apart, Types, TypeOK
    <3>3. PICK w \in BOOLEAN : \A p \in Ports : lock'[p] = Close(r, p, w)
      <4>1. CASE CreateFails(r)
        <5>1. lock' = lock /\ pc[r] = "create"
          BY <4>1 DEF CreateFails
        <5>2. \A p \in Ports : ~Streams(r, p)
          BY <2>t, <5>1 DEF Sweeping
        <5> QED BY <5>1, <5>2 DEF Streams, Close
      <4>2. CASE Die(r) \/ Exit(r)
        BY <4>2 DEF Die, Exit
      <4> QED BY <2>e, <4>1, <4>2
    <3>7. ASSUME NEW p \in Ports
          PROVE  /\ \A o \in Runners : o # r =>
                       (Owner(p)' = o => Owner(p) = o) /\ (Streams(o, p)' => Streams(o, p))
                 /\ ~Streams(r, p)' /\ (Owner(p)' = r => Owner(p) = r \/ Streams(r, p))
      <4>1. lock'[p] = Close(r, p, w)
        BY <3>3
      <4>2. CASE Streams(r, p)
        <5>1. lock[p] # NoFile /\ lock'[p] = [pid |-> IF w THEN r ELSE lock[p].pid, open |-> lock[p].open \ {r}]
          BY <4>1, <4>2 DEF Close, Streams
        <5>2. lock'[p].pid \in {r, lock[p].pid} /\ lock'[p].open = lock[p].open \ {r}
          BY <5>1
        <5>3. lock[p].pid = Owner(p) /\ (Owner(p)' = NoFile \/ Owner(p)' = lock'[p].pid)
          BY <5>1 DEF Owner
        <5> QED BY <4>2, <5>1, <5>2, <5>3, PortAssumption DEF Streams
      <4>3. CASE ~Streams(r, p)
        <5>1. lock'[p] = lock[p]
          BY <4>1, <4>3 DEF Close, Streams
        <5> QED BY <4>3, <5>1 DEF Owner, Streams
      <4> QED BY <4>2, <4>3
    <3>4. \A o \in Runners, p \in Ports : o # r =>
             (Owner(p)' = o => Owner(p) = o) /\ (Streams(o, p)' => Streams(o, p))
      BY <3>7
    <3>5. \A p \in Ports : ~Streams(r, p)' /\ (Owner(p)' = r => Owner(p) = r \/ Streams(r, p))
      BY <3>7
    <3>6. ASSUME NEW p \in Ports, Owner(p)' = r PROVE Known(r, p)'
      <4>1. CASE how = "killed"
        BY <3>2, <4>1 DEF Known, Locking, Holding, Sweeping
      <4>2. CASE how = "exited"
        <5>1. pc[r] = "sweep" /\ unread[r] = {}
          BY <3>1, <4>2 DEF Exit
        <5>2. r \in cut
          BY <2>k, <2>t, <3>5, <3>6, <5>1 DEF Known, Sweeping
        <5> QED BY <3>2, <4>2, <5>2 DEF Known, Locking, Holding, Sweeping
      <4> QED BY <4>1, <4>2
    <3> QED BY <3>2, <3>4, <3>5, <3>6, TrackOfOne
  <2>s. CASE SweepNext(r)
    <3>1. PICK q \in unread[r] :
              /\ unread' = [unread EXCEPT ![r] = @ \ {q}]
              /\ \/ Owner(q) # r /\ UNCHANGED <<pc, port, pid, raced>>
                 \/ /\ lock[q] # NoFile
                    /\ \E i \in Read(r, q) :
                          IF i = r
                          THEN Goto(r, "sweep away") /\ Approach(r, q)
                          ELSE UNCHANGED <<pc, port, raced>>
      BY <2>s DEF SweepNext
    <3>0. /\ q \in Ports /\ lock' = lock /\ pc[r] = "sweep" /\ broken' = broken /\ cut' = cut
          /\ unread'[r] = unread[r] \ {q}
      BY <2>s, <3>1 DEF SweepNext, Types, TypeOK
    <3>2. \/ pc' = pc /\ port' = port /\ Owner(q) # r
          \/ Goto(r, "sweep away") /\ Approach(r, q)
      BY <3>1, PortAssumption DEF Read
    <3>3. /\ pc'[r] \in Sweeping
          /\ \A o \in Runners : o # r => pc'[o] = pc[o] /\ port'[o] = port[o]
          /\ Owner(q) = r => pc'[r] = "sweep away" /\ port'[r] = q
      BY <2>f, <3>0, <3>2 DEF Approach, Types, TypeOK, Sweeping
    <3>4. Apart(r)
      BY <3>0, <3>1, <3>3 DEF Apart, Types, TypeOK
    <3>5. \A o \in Runners, p \in Ports : Owner(p)' = Owner(p) /\ (Streams(o, p)' <=> Streams(o, p))
      BY <3>0 DEF Owner, Streams
    <3>6. ASSUME NEW p \in Ports, Owner(p)' = r PROVE Known(r, p)'
      <4>1. Known(r, p) /\ Owner(p) = r
        BY <2>k, <3>5, <3>6
      <4>2. r \in cut \/ p \in unread[r]
        BY <3>0, <4>1 DEF Known, Sweeping
      <4>3. r \in cut' \/ p \in unread'[r] \/ (pc'[r] = "sweep away" /\ p = port'[r])
        BY <3>0, <3>3, <4>1, <4>2
      <4> QED BY <3>3, <4>3 DEF Known, Locking, Holding, Sweeping
    <3>7. \A p \in Ports : Streams(r, p)' => r \in cut'
      BY <2>t, <3>0, <3>5
    <3> QED BY <3>3, <3>4, <3>5, <3>6, <3>7, TrackOfOne
  <2> QED BY <1>n, <2>q, <2>p, <2>c, <2>w, <2>e, <2>s DEF Step
<1> QED BY <1>u, <1>n DEF Next

-----------------------------------------------------------------------------
(* Theorems *)

\* Everything the proofs rest on.
PortInv == Types /\ RaceInv /\ TrackInv

LEMMA PortInvariant == Spec => []PortInv
<1>1. Init => PortInv
  BY InitTypes, InitRace, InitTrack DEF PortInv
<1>2. PortInv /\ [Next]_vars => PortInv'
  BY TypesStep, RaceStep, TrackStep DEF PortInv
<1> QED BY <1>1, <1>2, PTL DEF Spec

(* Every lock file is nothing, empty or holds the pid of a runner, and every   *)
(* runner is at a call of p_lock, checklocks or runqueue.                      *)
THEOREM PortTypes == Spec => []TypeOK
<1>1. PortInv => TypeOK
  BY DEF PortInv, Types
<1> QED BY <1>1, PortInvariant, PTL

(* From p_lock to p_unlock the lock file of a port holds the pid of the runner *)
(* that uses it, unless two runners were busy with that file at once.          *)
THEOREM HoldersOwnTheirLock == Spec => []LockIsOwn
<1>1. PortInv => LockIsOwn
  BY DEF PortInv, RaceInv, HolderOwns, LockIsOwn, Owner, Unraced
<1> QED BY <1>1, PortInvariant, PTL

(* Two runners drive one port only if their p_locks, or a p_lock and a         *)
(* checklocks, overlapped on its lock file.                                    *)
THEOREM OneDriverUnlessRaced == Spec => []AloneUnlessRaced
<1>1. PortInv => AloneUnlessRaced
  <2> SUFFICES ASSUME PortInv, NEW r \in Runners, NEW o \in Runners, port[r] = port[o], r # o,
                      pc[r] = "talk", pc[o] = "talk", Unraced(r)
               PROVE  FALSE
    BY DEF AloneUnlessRaced, Unraced
  <2>1. lock[port[r]].pid = r
    BY DEF PortInv, RaceInv, HolderOwns, Holding
  <2>2. lock[port[o]].pid = o
    BY DEF PortInv, RaceInv, HolderOwns, Holding, Unraced
  <2> QED BY <2>1, <2>2
<1> QED BY <1>1, PortInvariant, PTL

(* Between two terminals a runner only has lock files of ports whose device    *)
(* p_openport could not open.                                                  *)
THEOREM OnlyFailedOpensLeak == Spec => []LeakIsAFailedOpen
<1>1. PortInv => LeakIsAFailedOpen
  BY DEF PortInv, TrackInv, OwnIsKnown, Known, LeakIsAFailedOpen
<1> QED BY <1>1, PortInvariant, PTL

(* A runner that exits leaves no lock file with its pid, unless a signal came  *)
(* while it was writing one.                                                   *)
THEOREM RunnersExitClean == Spec => []ExitsClean
<1>1. PortInv => ExitsClean
  BY DEF PortInv, TrackInv, OwnIsKnown, Known, ExitsClean
<1> QED BY <1>1, PortInvariant, PTL
=============================================================================
