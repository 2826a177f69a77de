--------------------------- MODULE PageQueueInv ---------------------------
(* The inductive invariants behind the safety properties of PageQueue.  TLC  *)
(* checks them on the instances of MCPageQueue, PageQueueProofs proves them. *)
EXTENDS PageQueue

\* A page somebody has read is complete: in the spool, or gone but not swept.
Whole(m) == file[m] = "full" \/ (file[m] = "gone" /\ fate[m] # "swept")

\* Every copy of a page a process keeps in its memory was read whole, and what
\* has left the spool for a reason does not come back.
CopiesAreWhole ==
    /\ \A m \in Pages : fate[m] # "none" => file[m] = "gone"
    /\ \A p \in Procs : \A m \in list[p] : Whole(m)
    /\ \A r \in Runners : pc[r] \in {"read", "lock", "lockwrite", "settle"} => Whole(cur[r])
    /\ \A m \in asked \cup acked : Whole(m)

\* Outside listqueue and the sending loop a runner has no list, and the page
\* just transmitted is no longer on it.
ListsAreLocal ==
    \A r \in Runners :
        /\ pc[r] \in {"off", "clean"} => list[r] = {}
        /\ pc[r] = "settle" => cur[r] \notin list[r]

\* Who has a lock file open, and what the file then looks like.
LockFiles ==
    \A m \in Pages :
        /\ lock[m] = "free" => writers[m] = {}
        /\ \A r \in writers[m] :
              \/ pc[r] = "lockwrite" /\ cur[r] = m
              \/ pc[r] = "clean" /\ torn
        /\ m \notin clash /\ writers[m] # {} =>
              lock[m] = "unwritten" /\ \A r, s \in writers[m] : r = s

\* A page in hand that is still in the spool is protected by a lock, written
\* or about to be written.
HandsAreLocked ==
    \A m \in Pages \ clash : \A r \in Runners :
        file[m] = "full" =>
          /\ m \in list[r] \/ (pc[r] = "settle" /\ cur[r] = m) => lock[m] = r
          /\ pc[r] = "lockwrite" /\ cur[r] = m => r \in writers[m]

LockInv == TypeOK /\ CopiesAreWhole /\ ListsAreLocal /\ LockFiles
           /\ HandsAreLocked /\ OneRunnerPerPage

\* The locks of a runner are its own to remove until it is gone.
LocksHaveOwners ==
    \A m \in Pages : \A r \in Runners :
        lock[m] = r => pc[r] # "off" /\ (pc[r] = "clean" => m \in todo[r])

OrphanInv == LocksHaveOwners /\ NoOrphanLock

\* An acknowledged page that is still in the spool: its runner has yet to act
\* on the answer, or was cut off.
AnswersAreKept ==
    \A m \in Pages \ clash :
        /\ m \in acked /\ file[m] = "full" /\ m \notin cut =>
              \E r \in Runners : pc[r] = "settle" /\ res[r] = "ack" /\ cur[r] = m
        /\ \A r \in Runners :
              m \in acked /\ (m \in list[r] \/ (pc[r] = "lockwrite" /\ cur[r] = m))
                 => m \in cut

\* deliveryd and the runner it forks, and nobody else who takes pages off the queue.
LoneDaemon ==
    /\ \E c \in Checkers, r \in Runners : Checkers = {c} /\ Runners = {r} /\ Child[c] = r
    /\ Farklers = {} /\ Owned = {}
    /\ ~LockCanFail

\* Then the daemon waits while its child runs, and what the child has read or listed
\* is still in the spool.
AloneInSpool ==
    /\ clash = {} /\ asked = {}
    /\ \A c \in Checkers : pc[Child[c]] # "off" => pc[c] = "wait"
    /\ \A r \in Runners :
          /\ pc[r] \in {"read", "lock", "lockwrite"} =>
                cur[r] \notin list[r] \cup todo[r] /\ file[cur[r]] = "full"
          /\ pc[r] = "lock" => lock[cur[r]] = "free"
          /\ pc[r] = "settle" => file[cur[r]] = "full"
          /\ list[r] \cap todo[r] = {}
          /\ \A m \in list[r] : file[m] = "full"

\* What a runner has just transmitted, and the answer it has in hand, are on record.
HandsAreRecorded ==
    \A r \in Runners : pc[r] = "settle" =>
        cur[r] \in aired /\ (res[r] = "ack" => cur[r] \in acked)

IInv == LockInv /\ OrphanInv /\ AnswersAreKept
=============================================================================
