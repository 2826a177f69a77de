----------------------------- MODULE DaemonProofs -----------------------------
(***************************************************************************)
(* Who takes the pid file of a serving server away, for any number of      *)
(* servers and of processes that kill them.  The step property needs an    *)
(* invariant: a process that found the file stale, or not there, has not   *)
(* overlooked a server that serves with its pid in the file, unless that   *)
(* pid came there after it looked.                                         *)
(***************************************************************************)
EXTENDS Daemon, TLAPS

\* Only servers that were started have their pid anywhere.
PidsAreStarted ==
    /\ \A i \in Servers : server[i] = "new" => parent[i] = "new"
    /\ \A i \in Servers : Owner = i => server[i] # "new"
    /\ \A x \in Looking : pid[x] # NoPid => server[pid[x]] # "new"

\* The pid in the file is the one x read, or was written since.
HasSeen(x) ==
    \A i \in Servers : Owner = i => pid[x] = i \/ i \in since[x]

\* And the process with the pid x read is gone.
Judged(x) == HasSeen(x) /\ (pid[x] # NoPid => server[pid[x]] = "dead")

JudgesHaveSeen ==
    /\ \A i \in Servers : /\ parent[i] \in {"judge", "create", "write"} => HasSeen(i)
                          /\ parent[i] \in {"create", "write"} => Judged(i)
    /\ \A k \in Killers : /\ killer[k] \in {"judge", "remove"} => HasSeen(k)
                          /\ killer[k] = "remove" => Judged(k)
                          /\ killer[k] = "signal" => pid[k] # NoPid

DaemonInv == TypeOK /\ PidsAreStarted /\ JudgesHaveSeen

-----------------------------------------------------------------------------
LEMMA InitDaemon == Init => DaemonInv
  BY DaemonAssumption DEF Init, DaemonInv, TypeOK, PidsAreStarted, JudgesHaveSeen, HasSeen, Judged,
     Owner, Looking, Alive

\* The pid in the file is a server's or nobody's.
LEMMA OwnerType ==
    ASSUME TypeOK
    PROVE  /\ Owner \in Servers \cup {NoPid, NoFile}
           /\ file # NoFile => Owner = file.pid /\ file.pid \in Servers \cup {NoPid}
           /\ file # NoFile => file \in [pid : Servers \cup {NoPid}, open : SUBSET Servers]
           /\ \A i \in Servers : Owner = i => file # NoFile
  BY DaemonAssumption DEF TypeOK, Owner

\* SIGTERM to a server.
LEMMA TerminateType ==
    ASSUME TypeOK, NEW i \in Servers, Terminate(i)
    PROVE  /\ server' \in [Servers -> Alive \cup {"new", "dead"}]
           /\ file' \in {file, NoFile}
           /\ \A j \in Servers : j # i => server'[j] = server[j]
           /\ server[i] \in {"dead", "new"} => server'[i] = server[i]
           /\ server[i] # "new" => server'[i] # "new"
           /\ file' # file => server'[i] # server[i] /\ server'[i] \in {"leaving", "quitting"}
<1>1. CASE server[i] \in {"trapped", "serving"}
  BY <1>1 DEF Terminate, Server, TypeOK, Alive
<1>2. CASE server[i] \notin {"trapped", "serving"}
  <2>1. file' = file /\ server' = [server EXCEPT ![i] = IF server[i] \in {"born", "turned"}
                                                         THEN "dead" ELSE server[i]]
    BY <1>2 DEF Terminate
  <2>2. CASE server[i] \in {"born", "turned"}
    BY <2>1, <2>2 DEF TypeOK, Alive
  <2>3. CASE server[i] \notin {"born", "turned"}
    BY <2>1, <2>3 DEF TypeOK, Alive
  <2> QED BY <2>2, <2>3
<1> QED BY <1>1, <1>2

\* A deliveryd ends, and with it the server that has become one.
LEMMA EndsType ==
    ASSUME TypeOK, NEW i \in Servers, DeliveryEnds(i)
    PROVE  /\ server' \in [Servers -> Alive \cup {"new", "dead"}]
           /\ delivery' \in [Servers -> {"none", "fresh", "following", "dead"}]
           /\ \A j \in Servers : /\ server[j] \in {"dead", "new"} => server'[j] = server[j]
                                 /\ server[j] # "new" => server'[j] # "new"
<1>1. /\ delivery' = [delivery EXCEPT ![i] = "dead"]
      /\ server' = [server EXCEPT ![i] = IF server[i] = "turned" THEN "dead" ELSE server[i]]
  BY DEF DeliveryEnds, Delivery
<1> QED BY <1>1 DEF TypeOK, Alive

-----------------------------------------------------------------------------
(* What every step leaves alone *)

\* Servers do not come back, nor do they appear in the file unnoticed.
Onward ==
    /\ \A i \in Servers : /\ server[i] = "dead" => server'[i] = "dead"
                          /\ server[i] # "new" => server'[i] # "new"
                          /\ parent'[i] = "new" => parent[i] = "new"
                          /\ server'[i] # "new" \/ parent'[i] = parent[i]
    /\ \A i \in Servers : Owner' = i =>
          \/ Owner = i
          \/ server[i] # "new" /\ \A x \in Looking : i \in since'[x]

\* x has not looked.
Unmoved(x) == pid'[x] = pid[x] /\ since[x] \subseteq since'[x]

LEMMA Carry ==
    ASSUME DaemonInv, Onward, NEW x \in Looking, Unmoved(x)
    PROVE  (HasSeen(x) => HasSeen(x)') /\ (Judged(x) => Judged(x)')
<1>1. HasSeen(x) => HasSeen(x)'
  BY DEF Onward, Unmoved, HasSeen
<1>2. pid[x] # NoPid => pid[x] \in Servers
  BY DEF DaemonInv, TypeOK
<1>3. (pid[x] # NoPid => server[pid[x]] = "dead") => (pid'[x] # NoPid => server'[pid'[x]] = "dead")
  BY <1>2 DEF Onward, Unmoved
<1> QED BY <1>1, <1>3 DEF Judged

\* x has just read the pid file.
LEMMA Looked ==
    ASSUME DaemonInv, NEW x \in Looking, Reads(x), file' = file
    PROVE  /\ HasSeen(x)'
           /\ file = NoFile => Judged(x)'
           /\ pid' \in [Looking -> Servers \cup {NoPid}]
           /\ since' \in [Looking -> SUBSET Servers]
           /\ pid'[x] # NoPid => server[pid'[x]] # "new"
           /\ \A y \in Looking : y # x => Unmoved(y)
<1> DEFINE read == IF file = NoFile THEN NoPid ELSE file.pid
<1>1. pid' = [pid EXCEPT ![x] = read] /\ since' = [since EXCEPT ![x] = {}]
  BY DEF Reads
<1>2. read \in Servers \cup {NoPid} /\ (read # NoPid => Owner = read)
  BY OwnerType DEF DaemonInv, Owner
<1>3. \A i \in Servers : Owner = i => read = i
  BY DaemonAssumption, OwnerType DEF DaemonInv
<1>4. Owner' = Owner
  BY DEF Owner
<1> HIDE DEF read
<1>5. pid'[x] = read /\ pid \in [Looking -> Servers \cup {NoPid}] /\ since \in [Looking -> SUBSET Servers]
  BY <1>1 DEF DaemonInv, TypeOK
<1>6. HasSeen(x)'
  BY <1>3, <1>4, <1>5 DEF HasSeen
<1>7. file = NoFile => Judged(x)'
  BY <1>5, <1>6 DEF Judged, read
<1>8. pid'[x] # NoPid => server[pid'[x]] # "new"
  BY <1>2, <1>5 DEF DaemonInv, PidsAreStarted
<1>9. \A y \in Looking : y # x => Unmoved(y)
  BY <1>1, <1>5 DEF Unmoved
<1> QED BY <1>1, <1>2, <1>5, <1>6, <1>7, <1>8, <1>9

\* A step after which everybody has still seen what he judges.
LEMMA SeenByAll ==
    ASSUME DaemonInv, Onward, TypeOK',
           \A x \in Looking : Unmoved(x) \/ (pid'[x] # NoPid => server[pid'[x]] # "new"),
           \A i \in Servers :
              \/ /\ Unmoved(i)
                 /\ \/ parent'[i] = parent[i]
                    \/ parent'[i] = "over"
                    \/ parent'[i] = "look"
                    \/ parent[i] = "judge" /\ Judged(i)
                    \/ parent[i] = "create"
              \/ /\ parent'[i] = "judge" => HasSeen(i)'
                 /\ parent'[i] = "create" => Judged(i)'
                 /\ parent'[i] # "write",
           \A k \in Killers :
              \/ /\ Unmoved(k)
                 /\ \/ killer'[k] = killer[k] /\ pid'[k] = pid[k]
                    \/ killer'[k] = "over"
                    \/ killer'[k] = "look"
                    \/ killer'[k] = "remove" /\ Judged(k)
              \/ /\ killer'[k] = "judge" => HasSeen(k)'
                 /\ killer'[k] = "signal" => pid'[k] # NoPid
                 /\ killer'[k] # "remove"
    PROVE  DaemonInv'
<1>0. \A i \in Servers : i \in Looking
  BY DEF Looking
<1>00. \A k \in Killers : k \in Looking
  BY DEF Looking
<1>1. PidsAreStarted'
  <2>1. \A x \in Looking : pid'[x] # NoPid => server'[pid'[x]] # "new"
    <3> SUFFICES ASSUME NEW x \in Looking, pid'[x] # NoPid PROVE server'[pid'[x]] # "new"
      OBVIOUS
    <3>1. server[pid'[x]] # "new"
      BY DEF DaemonInv, PidsAreStarted, Unmoved
    <3>2. pid'[x] \in Servers
      BY DEF TypeOK
    <3> QED BY <3>1, <3>2 DEF Onward
  <2>2. \A i \in Servers : server'[i] = "new" => parent'[i] = "new"
    BY DEF DaemonInv, PidsAreStarted, Onward
  <2>3. \A i \in Servers : Owner' = i => server'[i] # "new"
    BY DEF DaemonInv, PidsAreStarted, Onward
  <2> QED BY <2>1, <2>2, <2>3 DEF PidsAreStarted
<1>2. ASSUME NEW i \in Servers
      PROVE  /\ parent'[i] \in {"judge", "create", "write"} => HasSeen(i)'
             /\ parent'[i] \in {"create", "write"} => Judged(i)'
  <2>1. CASE Unmoved(i)
    <3>1. (HasSeen(i) => HasSeen(i)') /\ (Judged(i) => Judged(i)')
      BY <1>0, <2>1, Carry
    <3>2. /\ parent[i] \in {"judge", "create", "write"} => HasSeen(i)
          /\ parent[i] \in {"create", "write"} => Judged(i)
      BY DEF DaemonInv, JudgesHaveSeen
    <3>3. Judged(i)' => HasSeen(i)'
      BY DEF Judged
    <3> QED BY <3>1, <3>2, <3>3
  <2>2. CASE ~Unmoved(i)
    BY <2>2 DEF Judged
  <2> QED BY <2>1, <2>2
<1>3. ASSUME NEW k \in Killers
      PROVE  /\ killer'[k] \in {"judge", "remove"} => HasSeen(k)'
             /\ killer'[k] = "remove" => Judged(k)'
             /\ killer'[k] = "signal" => pid'[k] # NoPid
  <2>1. CASE Unmoved(k)
    <3>1. (HasSeen(k) => HasSeen(k)') /\ (Judged(k) => Judged(k)')
      BY <1>00, <2>1, Carry
    <3>2. /\ killer[k] \in {"judge", "remove"} => HasSeen(k)
          /\ killer[k] = "remove" => Judged(k)
          /\ killer[k] = "signal" => pid[k] # NoPid
      BY DEF DaemonInv, JudgesHaveSeen
    <3>3. Judged(k)' => HasSeen(k)'
      BY DEF Judged
    <3> QED BY <3>1, <3>2, <3>3
  <2>2. CASE ~Unmoved(k)
    BY <2>2
  <2> QED BY <2>1, <2>2
<1> QED BY <1>1, <1>2, <1>3 DEF DaemonInv, JudgesHaveSeen

\* What x judged stale or dead is dead.
LEMMA StaleIsDead ==
    ASSUME DaemonInv, NEW x \in Looking, HasSeen(x), MaybeStale(x)
    PROVE  Judged(x)
<1>1. pid[x] # NoPid => pid[x] \in Servers /\ server[pid[x]] # "new"
  BY DEF DaemonInv, TypeOK, PidsAreStarted
<1>2. pid[x] # NoPid => server[pid[x]] = "dead"
  BY <1>1 DEF MaybeStale, DaemonInv, TypeOK
<1> QED BY <1>2 DEF Judged

\* Steps that touch neither what is read nor what is judged.
LEMMA Bystanders ==
    ASSUME UNCHANGED <<pid, since>>
    PROVE  \A x \in Looking : Unmoved(x)
  BY DEF Unmoved

LEMMA DaemonStep == DaemonInv /\ [Next]_vars => DaemonInv'
<1> SUFFICES ASSUME DaemonInv, [Next]_vars PROVE DaemonInv'
  OBVIOUS
<1>t. TypeOK
  BY DEF DaemonInv
<1>l. /\ \A i \in Servers : i \in Looking
      /\ \A k \in Killers : k \in Looking
      /\ \A i \in Servers : i \notin Killers
  BY DaemonAssumption DEF Looking
<1>o. file' \in {file, NoFile} => \A i \in Servers : Owner' = i => Owner = i
  BY DaemonAssumption DEF Owner
<1>u. CASE UNCHANGED vars
  BY <1>u DEF vars, DaemonInv, TypeOK, PidsAreStarted, JudgesHaveSeen, HasSeen, Judged, Owner
<1>s. ASSUME NEW i \in Servers, Start(i) PROVE DaemonInv'
  <2>1. TypeOK'
    BY <1>s, <1>t DEF Start, TypeOK, Server, Parent, Alive
  <2>2. Onward
    BY <1>s, <1>t, <1>o DEF Start, TypeOK, Server, Parent, Onward
  <2>3. \A x \in Looking : Unmoved(x)
    BY <1>s, Bystanders DEF Start
  <2>4. killer' = killer /\ pid' = pid /\ \A j \in Servers : parent'[j] = parent[j] \/ parent'[j] = "look"
    BY <1>s, <1>t DEF Start, TypeOK, Parent
  <2> QED BY <2>1, <2>2, <2>3, <2>4, <1>l, SeenByAll
<1>k. ASSUME NEW i \in Servers, Look(i) PROVE DaemonInv'
  <2>1. i \in Looking /\ Reads(i) /\ file' = file /\ server' = server /\ killer' = killer
    BY <1>k, <1>l DEF Look
  <2>2. /\ parent' = [parent EXCEPT ![i] = IF file = NoFile THEN "create" ELSE "judge"]
        /\ parent[i] = "look"
    BY <1>k DEF Look, Parent
  <2>3. TypeOK'
    BY <1>k, <1>t, <2>1, <2>2, Looked DEF Look, TypeOK
  <2>4. Onward
    <3>1. server[i] # "new"
      BY <2>2 DEF DaemonInv, PidsAreStarted
    <3> QED BY <1>t, <1>o, <2>1, <2>2, <3>1 DEF Onward, TypeOK
  <2>5. (parent'[i] = "judge" => HasSeen(i)') /\ (parent'[i] = "create" => Judged(i)') /\ parent'[i] # "write"
    BY <1>t, <2>1, <2>2, Looked DEF TypeOK
  <2>6. \A j \in Servers : j # i => parent'[j] = parent[j] /\ Unmoved(j)
    BY <1>t, <1>l, <2>1, <2>2, Looked DEF TypeOK
  <2>7. \A k \in Killers : Unmoved(k) /\ pid'[k] = pid[k]
    BY <1>l, <2>1, Looked DEF Unmoved
  <2>8. \A x \in Looking : Unmoved(x) \/ (pid'[x] # NoPid => server[pid'[x]] # "new")
    BY <2>1, Looked
  <2> QED BY <2>1, <2>3, <2>4, <2>5, <2>6, <2>7, <2>8, SeenByAll
<1>a. ASSUME NEW i \in Servers, Active(i) PROVE DaemonInv'
  <2>1. /\ server' \in [Servers -> Alive \cup {"new", "dead"}]
        /\ file' \in {file, NoFile}
        /\ \A j \in Servers : server[j] \in {"dead", "new"} => server'[j] = server[j]
        /\ \A j \in Servers : server[j] # "new" => server'[j] # "new"
    BY <1>a, <1>t, TerminateType DEF Active
  <2>2. /\ parent' = [parent EXCEPT ![i] = "over"] /\ parent[i] = "judge"
        /\ UNCHANGED <<mom, looks, killer, pid, deaths, since>>
    BY <1>a DEF Active, Parent
  <2>3. delivery' \in [Servers -> {"none", "fresh", "following", "dead"}]
    BY <1>a, <1>t DEF Active, Delivery, DeliveryOf, TypeOK
  <2>4. TypeOK'
    BY <1>t, <2>1, <2>2, <2>3 DEF TypeOK
  <2>5. Onward
    <3>1. server[i] # "new"
      BY <2>2 DEF DaemonInv, PidsAreStarted
    <3> QED BY <1>t, <1>o, <2>1, <2>2, <3>1 DEF Onward, TypeOK
  <2>6. \A j \in Servers : parent'[j] = parent[j] \/ parent'[j] = "over"
    BY <1>t, <2>2 DEF TypeOK
  <2> QED BY <1>l, <2>2, <2>4, <2>5, <2>6, Bystanders, SeenByAll
<1>p. ASSUME NEW i \in Servers, Stale(i) \/ CreateFails(i) PROVE DaemonInv'
  <2>1. /\ UNCHANGED <<file, server, delivery, mom, looks, killer, pid, deaths, since>>
        /\ parent' = [parent EXCEPT ![i] = IF Stale(i) THEN "create" ELSE "over"]
        /\ parent[i] \in {"judge", "create"}
        /\ Stale(i) => parent[i] = "judge" /\ MaybeStale(i)
    BY <1>p DEF Stale, CreateFails, Parent
  <2>2. TypeOK'
    BY <1>t, <2>1 DEF TypeOK
  <2>3. Onward
    <3>1. server[i] # "new"
      BY <2>1 DEF DaemonInv, PidsAreStarted
    <3> QED BY <1>t, <1>o, <2>1, <3>1 DEF Onward, TypeOK
  <2>4. Stale(i) => Judged(i)
    BY <1>l, <2>1, StaleIsDead DEF DaemonInv, JudgesHaveSeen
  <2>5. \A j \in Servers : j # i => parent'[j] = parent[j]
    BY <1>t, <2>1 DEF TypeOK
  <2>6. parent'[i] = "over" \/ (parent[i] = "judge" /\ Judged(i))
    BY <1>t, <2>1, <2>4 DEF TypeOK
  <2> QED BY <1>l, <2>1, <2>2, <2>3, <2>5, <2>6, Bystanders, SeenByAll
<1>c. ASSUME NEW i \in Servers, Create(i) PROVE DaemonInv'
  <2>1. /\ UNCHANGED <<server, delivery, mom, looks, killer, pid, deaths, since>>
        /\ parent' = [parent EXCEPT ![i] = "write"] /\ parent[i] = "create"
    BY <1>c DEF Create, Parent
  <2>2. /\ file' \in [pid : Servers \cup {NoPid}, open : SUBSET Servers]
        /\ file' # NoFile /\ file'.pid = NoPid
    <3>1. file # NoFile => file.open \subseteq Servers
      BY <1>t, OwnerType
    <3>2. file' = [pid |-> NoPid, open |-> {i} \cup IF file = NoFile THEN {} ELSE file.open]
      BY <1>c DEF Create
    <3>3. file' \in [pid : Servers \cup {NoPid}, open : SUBSET Servers]
      BY <3>1, <3>2
    <3> QED BY <3>2, <3>3, DaemonAssumption
  <2>3. TypeOK'
    BY <1>t, <2>1, <2>2 DEF TypeOK
  <2>4. Owner' = NoPid
    BY <2>2 DEF Owner
  <2>5. Onward
    <3>1. server[i] # "new"
      BY <2>1 DEF DaemonInv, PidsAreStarted
    <3> QED BY <1>t, <2>1, <2>4, <3>1, DaemonAssumption DEF Onward, TypeOK
  <2>6. \A j \in Servers : parent'[j] = parent[j] \/ parent[j] = "create"
    BY <1>t, <2>1 DEF TypeOK
  <2> QED BY <1>l, <2>1, <2>3, <2>5, <2>6, Bystanders, SeenByAll
<1>w. ASSUME NEW i \in Servers, Write(i) PROVE DaemonInv'
  <2>1. /\ UNCHANGED <<server, delivery, mom, looks, killer, pid, deaths>>
        /\ parent' = [parent EXCEPT ![i] = "over"] /\ parent[i] = "write"
        /\ since' = [x \in Looking |-> since[x] \cup {i}]
    BY <1>w DEF Write, Parent
  <2>2. file' = file \/ (file' = [pid |-> i, open |-> file.open \ {i}] /\ file # NoFile)
    <3>1. CASE file # NoFile /\ i \in file.open
      BY <1>w, <3>1 DEF Write
    <3>2. CASE ~(file # NoFile /\ i \in file.open)
      BY <1>w, <3>2 DEF Write
    <3> QED BY <3>1, <3>2
  <2>3. file' \in {NoFile} \cup [pid : Servers \cup {NoPid}, open : SUBSET Servers]
    <3>1. CASE file' = file
      BY <1>t, <3>1 DEF TypeOK
    <3>2. CASE file' = [pid |-> i, open |-> file.open \ {i}] /\ file # NoFile
      <4>1. file.open \ {i} \subseteq Servers
        BY <1>t, <3>2, OwnerType
      <4> QED BY <3>2, <4>1
    <3> QED BY <2>2, <3>1, <3>2
  <2>4. since' \in [Looking -> SUBSET Servers]
    BY <1>t, <2>1 DEF TypeOK
  <2>5. TypeOK'
    BY <1>t, <2>1, <2>3, <2>4 DEF TypeOK
  <2>6. Owner' = Owner \/ Owner' \in {i, NoFile}
    <3>1. CASE file' = file
      BY <3>1 DEF Owner
    <3>2. CASE file' = [pid |-> i, open |-> file.open \ {i}]
      <4>1. file'.pid = i
        BY <3>2
      <4> QED BY <4>1 DEF Owner
    <3> QED BY <2>2, <3>1, <3>2
  <2>7. Onward
    <3>1. server[i] # "new"
      BY <2>1 DEF DaemonInv, PidsAreStarted
    <3>2. \A j \in Servers : Owner' = j => Owner = j \/ j = i
      BY <2>6, DaemonAssumption
    <3>3. \A x \in Looking : i \in since'[x]
      BY <2>1
    <3> QED BY <1>t, <2>1, <3>1, <3>2, <3>3 DEF Onward, TypeOK
  <2>8. \A x \in Looking : Unmoved(x)
    BY <1>t, <2>1 DEF Unmoved, TypeOK
  <2>9. \A j \in Servers : parent'[j] = parent[j] \/ parent'[j] = "over"
    BY <1>t, <2>1 DEF TypeOK
  <2> QED BY <1>l, <2>1, <2>5, <2>7, <2>8, <2>9, SeenByAll
<1>d. ASSUME NEW i \in Servers, ServerStep(i) \/ ForkFails(i) \/ DeliveryStep(i) \/ Die(i)
      PROVE  DaemonInv'
  <2>1. UNCHANGED <<file, parent, killer, pid, since>>
    BY <1>d DEF ServerStep, DeliveryStep, Trap, Bind, Leave, ForkDelivery, ForkFails, LookAgain,
                Adopt, Check, Die
  <2>2. /\ server' \in [Servers -> Alive \cup {"new", "dead"}]
        /\ \A j \in Servers : /\ server[j] = "dead" => server'[j] = "dead"
                              /\ server[j] # "new" => server'[j] # "new"
                              /\ server'[j] # "new" \/ server[j] = "new"
    <3>1. CASE server' = server
      BY <1>t, <3>1 DEF TypeOK
    <3>2. CASE \E s \in {"trapped", "dead", "serving", "turned"} :
                  Server(i, s) /\ server[i] \in Alive
      BY <1>t, <3>2 DEF TypeOK, Server, Alive
    <3>3. CASE DeliveryEnds(i)
      BY <1>t, <3>3, EndsType
    <3>4. server' = server \/ DeliveryEnds(i)
             \/ \E s \in {"trapped", "dead", "serving", "turned"} : Server(i, s) /\ server[i] \in Alive
      BY <1>d DEF ServerStep, DeliveryStep, Trap, Bind, Leave, ForkDelivery, ForkFails, LookAgain,
                  Adopt, Check, Die, Alive
    <3> QED BY <3>1, <3>2, <3>3, <3>4
  <2>3. /\ delivery' \in [Servers -> {"none", "fresh", "following", "dead"}]
        /\ mom' \in [Servers -> Servers \cup {NoPid}]
        /\ looks' \in [Servers -> 0..2]
        /\ deaths' \in Nat
    <3>1. CASE ServerStep(i) \/ ForkFails(i)
      BY <1>t, <3>1 DEF ServerStep, Trap, Bind, Leave, ForkDelivery, ForkFails, Delivery, TypeOK
    <3>2. CASE LookAgain(i) \/ Check(i)
      BY <1>t, <3>2 DEF LookAgain, Check, DeliveryEnds, Delivery, TypeOK
    <3>3. CASE Adopt(i)
      <4>1. file.pid \in Servers \cup {NoPid}
        BY <1>t, <3>3, OwnerType DEF Adopt
      <4> QED BY <1>t, <3>3, <4>1 DEF Adopt, DeliveryEnds, Delivery, TypeOK
    <3>4. CASE Die(i)
      BY <1>t, <3>4 DEF Die, DeliveryEnds, Delivery, DeliveryOf, TypeOK
    <3> QED BY <1>d, <3>1, <3>2, <3>3, <3>4 DEF DeliveryStep
  <2>4. TypeOK'
    BY <1>t, <2>1, <2>2, <2>3 DEF TypeOK
  <2>5. Onward
    BY <1>o, <2>1, <2>2 DEF Onward
  <2> QED BY <1>l, <2>1, <2>4, <2>5, Bystanders, SeenByAll
<1>f. ASSUME NEW k \in Killers, FindServer(k) \/ LookForFile(k) PROVE DaemonInv'
  <2>1. k \in Looking /\ Reads(k) /\ file' = file /\ UNCHANGED <<server, parent, delivery, mom, looks, deaths>>
    BY <1>f, <1>l DEF FindServer, LookForFile
  <2>2. \E where \in {"signal", "judge", "over"} : killer' = [killer EXCEPT ![k] = where]
    BY <1>f DEF FindServer, LookForFile, Killer
  <2>3. TypeOK'
    BY <1>t, <2>1, <2>2, Looked DEF TypeOK
  <2>4. Onward
    BY <1>o, <2>1 DEF Onward
  <2>5. HasSeen(k)' /\ killer'[k] # "remove"
    BY <1>t, <2>1, <2>2, Looked DEF TypeOK
  <2>9. killer'[k] = "signal" => pid'[k] # NoPid
    <3>1. CASE FindServer(k)
      <4>1. killer'[k] = "signal" => Owner \in Servers
        BY <1>t, <3>1 DEF FindServer, Killer, TypeOK
      <4>2. Owner \in Servers => pid'[k] = Owner
        BY <1>t, <2>1, DaemonAssumption DEF Reads, Owner, TypeOK
      <4> QED BY <4>1, <4>2, DaemonAssumption
    <3>2. CASE LookForFile(k)
      BY <1>t, <3>2 DEF LookForFile, Killer, TypeOK
    <3> QED BY <1>f, <3>1, <3>2
  <2>6. \A j \in Killers : j # k => killer'[j] = killer[j] /\ Unmoved(j) /\ pid'[j] = pid[j]
    BY <1>t, <1>l, <2>1, <2>2, Looked DEF TypeOK, Unmoved
  <2>7. \A j \in Servers : Unmoved(j)
    BY <1>l, <2>1, Looked
  <2>8. \A x \in Looking : Unmoved(x) \/ (pid'[x] # NoPid => server[pid'[x]] # "new")
    BY <2>1, Looked
  <2> QED BY <2>1, <2>3, <2>4, <2>5, <2>6, <2>7, <2>8, <2>9, SeenByAll
<1>g. ASSUME NEW k \in Killers, Signal(k) PROVE DaemonInv'
  <2>0. pid[k] \in Servers
    BY <1>g, <1>l, <1>t DEF Signal, DaemonInv, JudgesHaveSeen, TypeOK
  <2>1. DaemonInv'
    <3>1. /\ server' \in [Servers -> Alive \cup {"new", "dead"}]
          /\ file' \in {file, NoFile}
          /\ \A j \in Servers : server[j] \in {"dead", "new"} => server'[j] = server[j]
          /\ \A j \in Servers : server[j] # "new" => server'[j] # "new"
      BY <1>g, <1>t, <2>0, TerminateType DEF Signal
    <3>2. /\ killer' = [killer EXCEPT ![k] = "look"]
          /\ UNCHANGED <<parent, mom, looks, pid, deaths, since>>
      BY <1>g DEF Signal, Killer
    <3>3. delivery' \in [Servers -> {"none", "fresh", "following", "dead"}]
      BY <1>g, <1>t, <2>0 DEF Signal, Delivery, DeliveryOf, TypeOK
    <3>4. TypeOK'
      BY <1>t, <3>1, <3>2, <3>3 DEF TypeOK
    <3>5. Onward
      BY <1>t, <1>o, <3>1, <3>2 DEF Onward, TypeOK
    <3>6. \A j \in Killers : killer'[j] = killer[j] \/ killer'[j] = "look"
      BY <1>t, <3>2 DEF TypeOK
    <3> QED BY <1>l, <3>2, <3>4, <3>5, <3>6, Bystanders, SeenByAll
  <2> QED BY <2>1
<1>h. ASSUME NEW k \in Killers, NotShutDown(k) \/ ShutDown(k) \/ Remove(k) PROVE DaemonInv'
  <2>1. /\ UNCHANGED <<parent, server, delivery, mom, looks, pid, deaths, since>>
        /\ file' \in {file, NoFile}
        /\ killer' = [killer EXCEPT ![k] = IF ShutDown(k) THEN "remove" ELSE "over"]
        /\ ShutDown(k) => killer[k] = "judge" /\ MaybeStale(k)
    BY <1>h DEF NotShutDown, ShutDown, Remove, Killer
  <2>2. TypeOK'
    BY <1>t, <2>1 DEF TypeOK
  <2>3. Onward
    BY <1>o, <2>1 DEF Onward
  <2>4. ShutDown(k) => Judged(k)
    BY <1>l, <2>1, StaleIsDead DEF DaemonInv, JudgesHaveSeen
  <2>5. \A j \in Killers : j # k => killer'[j] = killer[j]
    BY <1>t, <2>1 DEF TypeOK
  <2>6. killer'[k] = "over" \/ (killer'[k] = "remove" /\ Judged(k))
    BY <1>t, <2>1, <2>4 DEF TypeOK
  <2> QED BY <1>l, <2>1, <2>2, <2>3, <2>5, <2>6, Bystanders, SeenByAll
<1> QED BY <1>u, <1>s, <1>k, <1>a, <1>p, <1>c, <1>w, <1>d, <1>f, <1>g, <1>h
        DEF Next, ParentStep, KillerStep

-----------------------------------------------------------------------------
LEMMA DaemonInvariant == Spec => []DaemonInv
  BY InitDaemon, DaemonStep, PTL DEF Spec

(* The pid file holds the pid of a server or nothing, and every process is at  *)
(* one of its calls.                                                           *)
THEOREM DaemonTypes == Spec => []TypeOK
<1>1. DaemonInv => TypeOK
  BY DEF DaemonInv
<1> QED BY <1>1, DaemonInvariant, PTL

(* Only the exit handler of a server, a parent that writes its child's pid and *)
(* a killserver that found the file stale take the pid file of a serving       *)
(* server away, and the last two looked before the server's pid was in it.     *)
THEOREM WhoTakesThePidFile == Spec => PidFileIsTaken
<1>1. DaemonInv /\ [Next]_vars =>
         [\A i \in Servers :
            server[i] = "serving" /\ Owner = i /\ Owner' # i =>
              \/ \E j \in Servers : server[j] # server'[j] /\ server'[j] \in {"leaving", "quitting"}
              \/ \E j \in Servers : parent[j] \in {"create", "write"} /\ i \in since[j]
              \/ \E k \in Killers : killer[k] = "remove" /\ i \in since[k]]_vars
  <2> SUFFICES ASSUME DaemonInv, Next, NEW i \in Servers,
                      server[i] = "serving", Owner = i, Owner' # i
               PROVE  \/ \E j \in Servers : server[j] # server'[j] /\ server'[j] \in {"leaving", "quitting"}
                      \/ \E j \in Servers : parent[j] \in {"create", "write"} /\ i \in since[j]
                      \/ \E k \in Killers : killer[k] = "remove" /\ i \in since[k]
    OBVIOUS
  <2>0. file' # file
    BY DEF Owner
  <2>1. \A x \in Looking : Judged(x) => i \in since[x]
    BY DaemonAssumption DEF Judged, HasSeen
  <2>2. ASSUME NEW j \in Servers, Active(j) PROVE server[j] # server'[j] /\ server'[j] \in {"leaving", "quitting"}
    BY <2>0, <2>2, TerminateType DEF Active, DaemonInv
  <2>3. ASSUME NEW j \in Servers, Create(j) \/ Write(j) PROVE parent[j] \in {"create", "write"} /\ i \in since[j]
    BY <2>1, <2>3 DEF Create, Write, DaemonInv, JudgesHaveSeen, Looking
  <2>4. ASSUME NEW k \in Killers, Signal(k)
        PROVE  \E j \in Servers : server[j] # server'[j] /\ server'[j] \in {"leaving", "quitting"}
    <3>1. pid[k] \in Servers
      BY <2>4 DEF Signal, DaemonInv, JudgesHaveSeen, TypeOK, Looking
    <3> QED BY <2>0, <2>4, <3>1, TerminateType DEF Signal, DaemonInv
  <2>5. ASSUME NEW k \in Killers, Remove(k) PROVE killer[k] = "remove" /\ i \in since[k]
    BY <2>1, <2>5 DEF Remove, DaemonInv, JudgesHaveSeen, Looking
  <2>6. \/ \E j \in Servers : Active(j) \/ Create(j) \/ Write(j)
        \/ \E k \in Killers : Signal(k) \/ Remove(k)
    BY <2>0 DEF Next, Start, ParentStep, Look, Stale, CreateFails, ServerStep, Trap, Bind, Leave,
                ForkDelivery, ForkFails, DeliveryStep, LookAgain, Adopt, Check, Die, KillerStep,
                FindServer, LookForFile, NotShutDown, ShutDown
  <2> QED BY <2>2, <2>3, <2>4, <2>5, <2>6
<1> QED BY <1>1, DaemonInvariant, PTL DEF PidFileIsTaken, Spec
===============================================================================
