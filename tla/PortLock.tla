------------------------------ MODULE PortLock ------------------------------
(***************************************************************************)
(* Queue runners and the lock files of the serial ports: p_lock, p_unlock, *)
(* checklocks and checkpidfile, one system call at a time, inside the loop *)
(* of runqueue over the terminals.  A runner takes the port of a terminal, *)
(* opens and uses it, hangs up and gives the port back; at the end, and in *)
(* the handler of any signal, it removes every lock file with its pid.     *)
(*                                                                         *)
(* Abstractions: a runner is its pid, used once; what is said over an open *)
(* port is the step Talk (module TapLine); of the signals a runner gets,   *)
(* only the first one is modelled.                                         *)
(***************************************************************************)
EXTENDS Naturals, Sequences, FiniteSets

CONSTANTS
    Runners,   \* pids of the processes that run the queues
    Ports,     \* devices, "/dev/..."
    Dial,      \* Dial[t]: the port (ts) of the t-th terminal
    NoPid,     \* what fscanf finds in a file nothing was written to yet
    NoFile     \* there is no lock file

ASSUME PortAssumption ==
    /\ Ports # {} /\ Dial \in Seq(Ports)
    /\ NoPid \notin Runners
    /\ NoFile \notin Runners \cup {NoPid}
    /\ NoFile \notin [pid : Runners \cup {NoPid}, open : SUBSET Runners]

VARIABLES
    lock,      \* lock[p]: LCK..p: the pid in it, the runners with a stream on it
    pc,        \* pc[r]: the next call of r
    at,        \* t of the loop in runqueue
    port,      \* the port whose lock file r is busy with
    pid,       \* `pid' of checkpidfile, `i' of checklocks
    unread,    \* ports whose lock file readdir has yet to deliver
    \* History, read by the properties only
    raced,     \* ports with two runners busy with the lock file at once
    broken,    \* broken[r]: ports r locked and could not open
    hit,       \* runners a signal came to
    cut        \* those that were writing their pid just then

runner  == <<at, port, pid, unread>>
history == <<raced, broken, hit, cut>>
vars    == <<lock, pc, runner, history>>

\* Calls of p_lock, calls with the port in hand, and calls of checklocks.
Locking == {"look", "judge", "remove", "create", "write"}
Holding == {"open", "talk", "unlock", "unlock and stop"}
Sweeping == {"sweep", "sweep away"}
Live == {"next"} \cup Locking \cup Holding \cup Sweeping

TypeOK ==
    /\ lock \in [Ports -> {NoFile} \cup [pid : Runners \cup {NoPid}, open : SUBSET Runners]]
    /\ pc \in [Runners -> Live \cup {"new", "exited", "killed"}]
    /\ at \in [Runners -> 1..(Len(Dial) + 1)]
    /\ port \in [Runners -> Ports]
    /\ pid \in [Runners -> Runners \cup {NoPid}]
    /\ unread \in [Runners -> SUBSET Ports]
    /\ raced \subseteq Ports
    /\ broken \in [Runners -> SUBSET Ports]
    /\ hit \subseteq Runners /\ cut \subseteq hit

SomePort == CHOOSE p \in Ports : TRUE

Init ==
    /\ lock = [p \in Ports |-> NoFile]
    /\ pc = [r \in Runners |-> "new"]
    /\ at = [r \in Runners |-> 1]
    /\ port = [r \in Runners |-> SomePort]
    /\ pid = [r \in Runners |-> NoPid]
    /\ unread = [r \in Runners |-> {}]
    /\ raced = {}
    /\ broken = [r \in Runners |-> {}]
    /\ hit = {} /\ cut = {}

Goto(r, call) == pc' = [pc EXCEPT ![r] = call]

\* On to the next terminal.
NextTerminal(r) ==
    /\ Goto(r, "next")
    /\ at' = [at EXCEPT ![r] = @ + 1]

\* The process is gone, and its variables with it.
End(r, how) ==
    /\ Goto(r, how)
    /\ at' = [at EXCEPT ![r] = 1]
    /\ port' = [port EXCEPT ![r] = SomePort]
    /\ pid' = [pid EXCEPT ![r] = NoPid]
    /\ unread' = [unread EXCEPT ![r] = {}]
    /\ broken' = [broken EXCEPT ![r] = {}]

\* r is between its first look at the lock file of p and its last touch.
Busy(r, p) == port[r] = p /\ pc[r] \in Locking \cup {"sweep away"}

\* r gets busy with the lock file of p.
Approach(r, p) ==
    /\ port' = [port EXCEPT ![r] = p]
    /\ raced' = IF \E o \in Runners \ {r} : Busy(o, p) THEN raced \cup {p} ELSE raced

\* What is written in the lock file of p.
Owner(p) == IF lock[p] = NoFile THEN NoFile ELSE lock[p].pid

\* unlink(2): streams on the file now write to a file nobody sees.
Unlink(p) == lock' = [lock EXCEPT ![p] = NoFile]

-----------------------------------------------------------------------------
(* The loop of runqueue *)

Start(r) ==
    /\ pc[r] = "new"
    /\ Goto(r, "next")
    /\ UNCHANGED <<lock, runner, history>>

\* No page is waiting for the terminal, or it is reached over the network.
Skip(r) ==
    /\ pc[r] = "next" /\ at[r] <= Len(Dial)
    /\ NextTerminal(r)
    /\ UNCHANGED <<lock, port, pid, unread, history>>

Call(r) ==
    /\ pc[r] = "next" /\ at[r] <= Len(Dial)
    /\ Goto(r, "look")
    /\ Approach(r, Dial[at[r]])
    /\ UNCHANGED <<lock, at, pid, unread, broken, hit, cut>>

\* cleanmylocks, at the end: checklocks opens the directory.
Finish(r) ==
    /\ pc[r] = "next" /\ at[r] > Len(Dial)
    /\ Goto(r, "sweep")
    /\ unread' = [unread EXCEPT ![r] = Ports]
    /\ pid' = [pid EXCEPT ![r] = NoPid]
    /\ UNCHANGED <<lock, at, port, history>>

-----------------------------------------------------------------------------
(* p_lock *)

\* checkpidfile: fopen and fscanf.
Look(r) ==
    /\ pc[r] = "look"
    /\ IF lock[port[r]] = NoFile
       THEN Goto(r, "create") /\ UNCHANGED pid
       ELSE /\ Goto(r, "judge")
            /\ pid' = [pid EXCEPT ![r] = lock[port[r]].pid]
    /\ UNCHANGED <<lock, at, port, unread, history>>

\* PID_ACTIVE, also when the pid is its own.  A pid never read is any number.
Refused(r) ==
    /\ pc[r] = "judge"
    /\ pid[r] # NoPid => pc[pid[r]] \in Live
    /\ NextTerminal(r)
    /\ pid' = [pid EXCEPT ![r] = NoPid]
    /\ UNCHANGED <<lock, port, unread, history>>

\* Mutant of Stale: the process is not looked for.
StaleUnchecked(r) ==
    /\ pc[r] = "judge"
    /\ Goto(r, "remove")
    /\ pid' = [pid EXCEPT ![r] = NoPid]
    /\ UNCHANGED <<lock, at, port, unread, history>>

\* PID_STALE: kill says there is no such process.
Stale(r) ==
    /\ pc[r] = "judge"
    /\ pid[r] # NoPid => pc[pid[r]] \notin Live
    /\ Goto(r, "remove")
    /\ pid' = [pid EXCEPT ![r] = NoPid]
    /\ UNCHANGED <<lock, at, port, unread, history>>

\* The stale file is unlinked; if somebody else was faster, the port is not free.
Remove(r) ==
    /\ pc[r] = "remove"
    /\ IF lock[port[r]] = NoFile
       THEN NextTerminal(r) /\ UNCHANGED lock
       ELSE Goto(r, "create") /\ Unlink(port[r]) /\ UNCHANGED at
    /\ UNCHANGED <<port, pid, unread, history>>

\* fopen(lockfile, "w") makes the file, or empties the one that is there now.
Create(r) ==
    /\ pc[r] = "create"
    /\ Goto(r, "write")
    /\ lock' = [lock EXCEPT ![port[r]] =
                   [pid |-> NoPid, open |-> {r} \cup IF @ = NoFile THEN {} ELSE @.open]]
    /\ UNCHANGED <<runner, history>>

\* It could not be made: fprintf(NULL, ...) ends the process.
CreateFails(r) ==
    /\ pc[r] = "create"
    /\ End(r, "killed")
    /\ UNCHANGED <<lock, raced, hit, cut>>

\* The stream of r on the lock file of p is closed; w: its buffer is written.
Close(r, p, w) ==
    IF lock[p] # NoFile /\ r \in lock[p].open
    THEN [pid |-> IF w THEN r ELSE lock[p].pid, open |-> lock[p].open \ {r}]
    ELSE lock[p]

\* fprintf and fclose: only now the pid is in the file.
Write(r) ==
    /\ pc[r] = "write"
    /\ Goto(r, "open")
    /\ lock' = [lock EXCEPT ![port[r]] = Close(r, port[r], TRUE)]
    /\ UNCHANGED <<runner, history>>

-----------------------------------------------------------------------------
(* p_openport after p_lock, p_openterm, any_closeterm *)

OpenPort(r) ==
    /\ pc[r] = "open"
    /\ Goto(r, "talk")
    /\ UNCHANGED <<lock, runner, history>>

\* open(2) fails: p_openport returns, the lock file stays.
OpenFails(r) ==
    /\ pc[r] = "open"
    /\ NextTerminal(r)
    /\ broken' = [broken EXCEPT ![r] = @ \cup {port[r]}]
    /\ UNCHANGED <<lock, port, pid, unread, raced, hit, cut>>

\* No connection, or the call is over: close(s).
Talk(r) ==
    /\ pc[r] = "talk"
    /\ Goto(r, "unlock")
    /\ UNCHANGED <<lock, runner, history>>

\* The terminal does not answer s_tap_init: hang up, no other terminal is tried.
TalkInVain(r) ==
    /\ pc[r] = "talk"
    /\ Goto(r, "unlock and stop")
    /\ UNCHANGED <<lock, runner, history>>

\* Mutant of PUnlock: the lock file is left to cleanmylocks.
PUnlockLater(r) ==
    /\ pc[r] \in {"unlock", "unlock and stop"}
    /\ Goto(r, "next")
    /\ at' = [at EXCEPT ![r] = IF pc[r] = "unlock" THEN @ + 1 ELSE Len(Dial) + 1]
    /\ UNCHANGED <<lock, port, pid, unread, history>>

\* p_unlock: whoever's it is.
PUnlock(r) ==
    /\ pc[r] \in {"unlock", "unlock and stop"}
    /\ Goto(r, "next")
    /\ at' = [at EXCEPT ![r] = IF pc[r] = "unlock" THEN @ + 1 ELSE Len(Dial) + 1]
    /\ Unlink(port[r])
    /\ UNCHANGED <<port, pid, unread, history>>

-----------------------------------------------------------------------------
(* checklocks *)

\* What `i' may be after fscanf: an empty file leaves it as it was, and before
\* the first pid that is any number.
Read(r, p) ==
    IF Owner(p) # NoPid THEN {Owner(p)}
    ELSE IF pid[r] # NoPid THEN {pid[r]} ELSE {r, NoPid}

\* The next name readdir delivers; a name that appears late may be missed.
SweepNext(r) ==
    /\ pc[r] = "sweep"
    /\ \E p \in unread[r] :
          /\ unread' = [unread EXCEPT ![r] = @ \ {p}]
          /\ \/ /\ Owner(p) # r
                /\ UNCHANGED <<pc, port, pid, raced>>
             \/ /\ lock[p] # NoFile
                /\ \E i \in Read(r, p) :
                      /\ pid' = [pid EXCEPT ![r] = i]
                      /\ IF i = r
                         THEN Goto(r, "sweep away") /\ Approach(r, p)
                         ELSE UNCHANGED <<pc, port, raced>>
    /\ UNCHANGED <<lock, at, broken, hit, cut>>

\* Mutant of SweepAway: the loop ends with the first file found.
SweepAwayOnce(r) ==
    /\ pc[r] = "sweep away"
    /\ Goto(r, "sweep")
    /\ Unlink(port[r])
    /\ unread' = [unread EXCEPT ![r] = {}]
    /\ UNCHANGED <<at, port, pid, history>>

SweepAway(r) ==
    /\ pc[r] = "sweep away"
    /\ Goto(r, "sweep")
    /\ Unlink(port[r])
    /\ UNCHANGED <<runner, history>>

\* exit() writes what a stream still holds: the pid, if fprintf was reached.
Exit(r) ==
    /\ pc[r] = "sweep" /\ unread[r] = {}
    /\ End(r, "exited")
    /\ \E w \in BOOLEAN : lock' = [p \in Ports |-> Close(r, p, w)]
    /\ UNCHANGED <<raced, hit, cut>>

\* Mutant of Signal: the handler returns and the call goes on.
SignalReturns(r) ==
    /\ pc[r] \in Live /\ r \notin hit
    /\ hit' = hit \cup {r}
    /\ cut' = IF pc[r] = "write" THEN cut \cup {r} ELSE cut
    /\ UNCHANGED <<lock, pc, runner, raced, broken>>

\* del_sigint, on alarm(120) or a signal from outside: cleanmylocks, exit.
Signal(r) ==
    /\ pc[r] \in Live /\ r \notin hit
    /\ hit' = hit \cup {r}
    /\ cut' = IF pc[r] = "write" THEN cut \cup {r} ELSE cut
    /\ Goto(r, "sweep")
    /\ unread' = [unread EXCEPT ![r] = Ports]
    /\ pid' = [pid EXCEPT ![r] = NoPid]
    /\ UNCHANGED <<lock, at, port, raced, broken>>

\* kill -9, a crash: streams are closed, nothing is written.
Die(r) ==
    /\ pc[r] \in Live
    /\ End(r, "killed")
    /\ lock' = [p \in Ports |-> Close(r, p, FALSE)]
    /\ UNCHANGED <<raced, hit, cut>>

-----------------------------------------------------------------------------
\* Calls that return; a talk need not.
Step(r) ==
    \/ Skip(r) \/ Call(r) \/ Finish(r)
    \/ Look(r) \/ Refused(r) \/ Stale(r) \/ Remove(r) \/ Create(r) \/ CreateFails(r) \/ Write(r)
    \/ OpenPort(r) \/ OpenFails(r) \/ PUnlock(r)
    \/ SweepNext(r) \/ SweepAway(r) \/ Exit(r)

Next == \E r \in Runners :
    Start(r) \/ Step(r) \/ Talk(r) \/ TalkInVain(r) \/ Signal(r) \/ Die(r)

Spec == Init /\ [][Next]_vars

\* Calls return, and alarm(120) goes off.
FairSpec ==
    /\ Spec
    /\ \A r \in Runners : WF_vars(Step(r)) /\ WF_vars(Signal(r))
-----------------------------------------------------------------------------
(* Properties *)

(* A runner that has a port has a lock file with its pid in it, from p_lock to *)
(* p_unlock, unless two runners were busy with that lock file at once.         *)
LockIsOwn ==
    \A r \in Runners : pc[r] \in Holding /\ port[r] \notin raced =>
        Owner(port[r]) = r

(* Two runners drive one port only after their p_locks overlapped, or one ran  *)
(* checklocks during the p_lock of the other: looking at the lock file and     *)
(* making it are two steps, and checklocks believes an empty file is its own.  *)
AloneUnlessRaced ==
    \A r, o \in Runners :
        pc[r] = "talk" /\ pc[o] = "talk" /\ port[r] = port[o] /\ r # o => port[r] \in raced

(* Between two terminals a runner has a lock file only for a port whose device *)
(* it could not open: p_openport forgets to give that one back, and the runner *)
(* shuts itself out of the port for as long as it lives.                       *)
LeakIsAFailedOpen ==
    \A r \in Runners : pc[r] = "next" =>
        \A p \in Ports : Owner(p) = r => p \in broken[r]

(* A runner that exits leaves no lock file with its pid, whatever it had       *)
(* leaked, unless the signal that ended it came while it was writing one.      *)
ExitsClean ==
    \A r \in Runners : pc[r] = "exited" /\ r \notin cut =>
        \A p \in Ports : Owner(p) # r

(* A runner ends, also when the terminal leaves it waiting in read(): no port  *)
(* stays in the hands of a live process.                                       *)
RunnersEnd ==
    \A r \in Runners : pc[r] = "next" ~> pc[r] \in {"exited", "killed"}
=============================================================================
