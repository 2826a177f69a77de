------------------------------- MODULE Daemon -------------------------------
(***************************************************************************)
(* Servers, the pid file and the delivery daemons: writepid and detach in  *)
(* the process that starts a server, resetservtraps and the bind in the    *)
(* server, its loop that forks deliveryd, deliveryd_checkmom, and the      *)
(* command that kills the server.  A server is started twice, killed while *)
(* it starts, or dies; only the bind keeps a second one from serving.      *)
(*                                                                         *)
(* Abstractions: a server is its pid, used once; connections and the       *)
(* delivery itself are elsewhere (SnppSession, PageQueue); the pid in the  *)
(* file is that of a process deliveryd and killserver may signal, since    *)
(* all are of one user; conf.debug is 0, so that every server has a parent.*)
(***************************************************************************)
EXTENDS Naturals, FiniteSets

CONSTANTS
    Servers,    \* pids of the servers that are started
    Killers,    \* processes that run killserver
    NoPid,      \* what fscanf finds in a file nothing was written to yet
    NoFile,     \* there is no pid file
    MaxDeaths   \* bound: crashes

ASSUME DaemonAssumption ==
    /\ Servers \cap Killers = {}
    /\ NoPid \notin Servers /\ NoFile \notin Servers \cup {NoPid}
    /\ NoFile \notin [pid : Servers \cup {NoPid}, open : SUBSET Servers]
    /\ MaxDeaths \in Nat

VARIABLES
    file,      \* conf.pidfile: the pid in it, the parents with a stream on it
    parent,    \* parent[i]: the process that forked server i
    server,    \* server[i]: the server
    delivery,  \* delivery[i]: the deliveryd that server i forked last
    mom,       \* ppid of deliveryd_main
    looks,     \* i of deliveryd_checkmom
    killer,    \* killer[k]: a process in killserver
    pid,       \* the pid a parent or a killer has read
    deaths,
    \* History, read by the properties only
    since      \* since[x]: servers whose pid was written since x looked

vars == <<file, parent, server, delivery, mom, looks, killer, pid, deaths, since>>

\* A turned server is one whose fork() for deliveryd failed.
Alive == {"born", "trapped", "serving", "turned", "leaving", "quitting"}
\* The port is taken until the process is gone.
Bound == {"serving", "leaving"}
Looking == Servers \cup Killers

TypeOK ==
    /\ file \in {NoFile} \cup [pid : Servers \cup {NoPid}, open : SUBSET Servers]
    /\ parent \in [Servers -> {"new", "look", "judge", "create", "write", "over"}]
    /\ server \in [Servers -> Alive \cup {"new", "dead"}]
    /\ delivery \in [Servers -> {"none", "fresh", "following", "dead"}]
    /\ mom \in [Servers -> Servers \cup {NoPid}]
    /\ looks \in [Servers -> 0..2]
    /\ killer \in [Killers -> {"new", "signal", "look", "judge", "remove", "over"}]
    /\ pid \in [Looking -> Servers \cup {NoPid}]
    /\ deaths \in Nat
    /\ since \in [Looking -> SUBSET Servers]

Init ==
    /\ file = NoFile
    /\ parent = [i \in Servers |-> "new"]
    /\ server = [i \in Servers |-> "new"]
    /\ delivery = [i \in Servers |-> "none"]
    /\ mom = [i \in Servers |-> NoPid]
    /\ looks = [i \in Servers |-> 0]
    /\ killer = [k \in Killers |-> "new"]
    /\ pid = [x \in Looking |-> NoPid]
    /\ deaths = 0
    /\ since = [x \in Looking |-> {}]

Parent(i, where) == parent' = [parent EXCEPT ![i] = where]
Server(i, where) == server' = [server EXCEPT ![i] = where]
Delivery(i, where) == delivery' = [delivery EXCEPT ![i] = where]
Killer(k, where) == killer' = [killer EXCEPT ![k] = where]

Owner == IF file = NoFile THEN NoFile ELSE file.pid

\* checkpidfile: x reads the pid; only then it asks for the process.
Reads(x) ==
    /\ pid' = [pid EXCEPT ![x] = IF file = NoFile THEN NoPid ELSE file.pid]
    /\ since' = [since EXCEPT ![x] = {}]

\* PID_ACTIVE and PID_STALE; a pid that was not read is any number.
MaybeActive(x) == pid[x] # NoPid => server[pid[x]] \in Alive
MaybeStale(x) == pid[x] # NoPid => server[pid[x]] \notin Alive

-----------------------------------------------------------------------------
(* detach and writepid, in the parent *)

\* fork()
Start(i) ==
    /\ server[i] = "new"
    /\ Server(i, "born")
    /\ Parent(i, "look")
    /\ UNCHANGED <<file, delivery, mom, looks, killer, pid, deaths, since>>

Look(i) ==
    /\ parent[i] = "look"
    /\ Reads(i)
    /\ Parent(i, IF file = NoFile THEN "create" ELSE "judge")
    /\ UNCHANGED <<file, server, delivery, mom, looks, killer, deaths>>

\* serv_sigint takes the pid file away, whoever's it is; a server without its
\* traps, and one that has become a deliveryd, just dies.
Terminate(i) ==
    IF server[i] \in {"trapped", "serving"}
    THEN /\ Server(i, IF server[i] = "serving" THEN "leaving" ELSE "quitting")
         /\ file' = NoFile
    ELSE /\ server' = [server EXCEPT ![i] = IF @ \in {"born", "turned"} THEN "dead" ELSE @]
         /\ UNCHANGED file

\* What dies with a turned server.
DeliveryOf(i, s) == IF server[i] = "turned" THEN "dead" ELSE s

\* Mutant of Active: a running server is not minded.
ActiveIgnored(i) ==
    /\ parent[i] = "judge" /\ MaybeActive(i)
    /\ Parent(i, "create")
    /\ UNCHANGED <<file, server, delivery, mom, looks, killer, pid, deaths, since>>

\* "Active PID file found, exiting...": the child that was just forked is killed.
Active(i) ==
    /\ parent[i] = "judge" /\ MaybeActive(i)
    /\ Parent(i, "over")
    /\ Terminate(i)
    /\ Delivery(i, DeliveryOf(i, delivery[i]))
    /\ UNCHANGED <<mom, looks, killer, pid, deaths, since>>

\* "Stale PID file found, overriding."
Stale(i) ==
    /\ parent[i] = "judge" /\ MaybeStale(i)
    /\ Parent(i, "create")
    /\ UNCHANGED <<file, server, delivery, mom, looks, killer, pid, deaths, since>>

\* fopen(conf.pidfile, "w"): there is an empty file now.
Create(i) ==
    /\ parent[i] = "create"
    /\ Parent(i, "write")
    /\ file' = [pid |-> NoPid, open |-> {i} \cup IF file = NoFile THEN {} ELSE file.open]
    /\ UNCHANGED <<server, delivery, mom, looks, killer, pid, deaths, since>>

\* perror: the server runs without a pid file.
CreateFails(i) ==
    /\ parent[i] = "create"
    /\ Parent(i, "over")
    /\ UNCHANGED <<file, server, delivery, mom, looks, killer, pid, deaths, since>>

\* fprintf, fclose and exit
Write(i) ==
    /\ parent[i] = "write"
    /\ Parent(i, "over")
    /\ file' = IF file # NoFile /\ i \in file.open
               THEN [pid |-> i, open |-> file.open \ {i}] ELSE file
    /\ since' = [x \in Looking |-> since[x] \cup {i}]
    /\ UNCHANGED <<server, delivery, mom, looks, killer, pid, deaths>>

-----------------------------------------------------------------------------
(* daemon_main, in the server *)

\* resetservtraps
Trap(i) ==
    /\ server[i] = "born"
    /\ Server(i, "trapped")
    /\ UNCHANGED <<file, parent, delivery, mom, looks, killer, pid, deaths, since>>

\* getservsocket in the init of each module; a bind that fails is exit(1).
Bind(i) ==
    /\ server[i] = "trapped"
    /\ Server(i, IF \E j \in Servers : server[j] \in Bound THEN "dead" ELSE "serving")
    /\ UNCHANGED <<file, parent, delivery, mom, looks, killer, pid, deaths, since>>

\* exit(0) at the end of serv_sigint
Leave(i) ==
    /\ server[i] \in {"leaving", "quitting"}
    /\ Server(i, "dead")
    /\ UNCHANGED <<file, parent, delivery, mom, looks, killer, pid, deaths, since>>

\* Mutant of ForkDelivery: deliveryd is forked at the start only.
ForkDeliveryOnce(i) ==
    /\ server[i] = "serving" /\ delivery[i] = "none"
    /\ Delivery(i, "fresh")
    /\ looks' = [looks EXCEPT ![i] = 0]
    /\ UNCHANGED <<file, parent, server, mom, killer, pid, deaths, since>>

\* deliveryd_main, called when there is no deliveryd, or it does not answer kill().
ForkDelivery(i) ==
    /\ server[i] = "serving" /\ delivery[i] \in {"none", "dead"}
    /\ Delivery(i, "fresh")
    /\ looks' = [looks EXCEPT ![i] = 0]
    /\ UNCHANGED <<file, parent, server, mom, killer, pid, deaths, since>>

\* fork() fails, and deliveryd_main goes on in the server: its sockets are
\* closed, its traps are gone.
ForkFails(i) ==
    /\ server[i] = "serving" /\ delivery[i] \in {"none", "dead"}
    /\ deaths < MaxDeaths
    /\ deaths' = deaths + 1
    /\ Server(i, "turned")
    /\ Delivery(i, "fresh")
    /\ looks' = [looks EXCEPT ![i] = 0]
    /\ UNCHANGED <<file, parent, mom, killer, pid, since>>

-----------------------------------------------------------------------------
(* deliveryd_checkmom, in the deliveryd *)

\* A turned server that exits as a deliveryd is gone.
DeliveryEnds(i) ==
    /\ Delivery(i, "dead")
    /\ server' = [server EXCEPT ![i] = IF @ = "turned" THEN "dead" ELSE @]

\* There is no pid file: it looks three times, then it exits.
LookAgain(i) ==
    /\ delivery[i] \in {"fresh", "following"} /\ file = NoFile
    /\ IF looks[i] < 2
       THEN /\ looks' = [looks EXCEPT ![i] = @ + 1]
            /\ UNCHANGED <<server, delivery>>
       ELSE DeliveryEnds(i) /\ UNCHANGED looks
    /\ UNCHANGED <<file, parent, mom, killer, pid, deaths, since>>

\* checkmom(0): whichever pid is there is the pid to watch.
Adopt(i) ==
    /\ delivery[i] = "fresh" /\ file # NoFile
    /\ looks' = [looks EXCEPT ![i] = 0]
    /\ IF file.pid = NoPid
       THEN DeliveryEnds(i) /\ UNCHANGED mom
       ELSE /\ Delivery(i, "following")
            /\ mom' = [mom EXCEPT ![i] = file.pid]
            /\ UNCHANGED server
    /\ UNCHANGED <<file, parent, killer, pid, deaths, since>>

\* Mutant of Check: the pid in the file is not compared.
CheckAny(i) ==
    /\ delivery[i] = "following" /\ file # NoFile
    /\ looks' = [looks EXCEPT ![i] = 0]
    /\ UNCHANGED <<file, parent, server, delivery, mom, killer, pid, deaths, since>>

\* checkmom(ppid), after each sleep and each delivery.
Check(i) ==
    /\ delivery[i] = "following" /\ file # NoFile
    /\ looks' = [looks EXCEPT ![i] = 0]
    /\ IF file.pid = mom[i]
       THEN UNCHANGED <<server, delivery>>
       ELSE DeliveryEnds(i)
    /\ UNCHANGED <<file, parent, mom, killer, pid, deaths, since>>

-----------------------------------------------------------------------------
(* killserver *)

\* checkpidfile and fscanf; no file or no pid in it is an error.
FindServer(k) ==
    /\ killer[k] = "new"
    /\ Reads(k)
    /\ Killer(k, IF Owner \in Servers THEN "signal" ELSE "over")
    /\ UNCHANGED <<file, parent, server, delivery, mom, looks, deaths>>

\* kill(pid, SIGTERM), and a sleep of a second.
Signal(k) ==
    /\ killer[k] = "signal"
    /\ Killer(k, "look")
    /\ Terminate(pid[k])
    /\ Delivery(pid[k], DeliveryOf(pid[k], delivery[pid[k]]))
    /\ UNCHANGED <<parent, mom, looks, pid, deaths, since>>

LookForFile(k) ==
    /\ killer[k] = "look"
    /\ Reads(k)
    /\ Killer(k, IF file = NoFile THEN "over" ELSE "judge")
    /\ UNCHANGED <<file, parent, server, delivery, mom, looks, deaths>>

\* "Server could not be shut down"
NotShutDown(k) ==
    /\ killer[k] = "judge" /\ MaybeActive(k)
    /\ Killer(k, "over")
    /\ UNCHANGED <<file, parent, server, delivery, mom, looks, pid, deaths, since>>

ShutDown(k) ==
    /\ killer[k] = "judge" /\ MaybeStale(k)
    /\ Killer(k, "remove")
    /\ UNCHANGED <<file, parent, server, delivery, mom, looks, pid, deaths, since>>

\* "Server shut down and left its pid file, I removed it"
Remove(k) ==
    /\ killer[k] = "remove"
    /\ Killer(k, "over")
    /\ file' = NoFile
    /\ UNCHANGED <<parent, server, delivery, mom, looks, pid, deaths, since>>

-----------------------------------------------------------------------------
\* kill -9, a crash: the pid file stays.
Die(i) ==
    /\ deaths < MaxDeaths
    /\ deaths' = deaths + 1
    /\ \/ /\ server[i] \in Alive
          /\ Server(i, "dead")
          /\ Delivery(i, DeliveryOf(i, delivery[i]))
       \/ /\ delivery[i] \in {"fresh", "following"}
          /\ DeliveryEnds(i)
    /\ UNCHANGED <<file, parent, mom, looks, killer, pid, since>>

ServerStep(i) == Trap(i) \/ Bind(i) \/ Leave(i) \/ ForkDelivery(i)
ParentStep(i) == Look(i) \/ Active(i) \/ Stale(i) \/ Create(i) \/ CreateFails(i) \/ Write(i)
DeliveryStep(i) == LookAgain(i) \/ Adopt(i) \/ Check(i)
KillerStep(k) ==
    FindServer(k) \/ Signal(k) \/ LookForFile(k) \/ NotShutDown(k) \/ ShutDown(k) \/ Remove(k)

Next ==
    \/ \E i \in Servers : \/ Start(i) \/ ParentStep(i) \/ ServerStep(i) \/ ForkFails(i)
                          \/ DeliveryStep(i) \/ Die(i)
    \/ \E k \in Killers : KillerStep(k)

Spec == Init /\ [][Next]_vars

\* Every process goes on until it ends or sleeps.
FairSpec ==
    /\ Spec
    /\ \A i \in Servers : /\ WF_vars(ParentStep(i)) /\ WF_vars(ServerStep(i))
                          /\ WF_vars(DeliveryStep(i))
-----------------------------------------------------------------------------
(* Properties *)

(* The pid file of a server that serves is taken away by nobody but itself,    *)
(* another server's exit handler, which removes the file whoever's it is (a    *)
(* second start kills its own child with that handler), or a process that      *)
(* looked at the file before the server's pid was in it.                       *)
PidFileIsTaken ==
    [][\A i \in Servers :
          server[i] = "serving" /\ Owner = i /\ Owner' # i =>
            \/ \E j \in Servers : server[j] # server'[j] /\ server'[j] \in {"leaving", "quitting"}
            \/ \E j \in Servers : parent[j] \in {"create", "write"} /\ i \in since[j]
            \/ \E k \in Killers : killer[k] = "remove" /\ i \in since[k]]_vars

(* A deliveryd whose server's pid is no longer in the file exits, unless the   *)
(* pid comes back.                                                             *)
OrphansEnd ==
    \A i \in Servers :
        delivery[i] = "following" /\ Owner # mom[i]
            ~> delivery[i] # "following" \/ Owner = mom[i]

(* A server that serves and keeps its pid file has a deliveryd again and       *)
(* again, whatever becomes of the first one.                                   *)
DeliveriesGoOn ==
    \A i \in Servers :
        <>[](server[i] = "serving" /\ Owner = i) => []<>(delivery[i] = "following")
=============================================================================
