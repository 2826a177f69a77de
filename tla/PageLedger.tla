----------------------------- MODULE PageLedger -----------------------------
(***************************************************************************)
(* What the spool promises for each page, without processes or locks: a    *)
(* page is written once, is queued, may be transmitted any number of       *)
(* times, and is taken off the queue exactly once, for a reason that is    *)
(* true at that moment.  PageQueue is shown to implement this.             *)
(***************************************************************************)
CONSTANT Pages

VARIABLES status,   \* status[m]: "absent", "partial", "full" or "gone"
          reason,   \* reason[m]: why it is gone
          sent,     \* pages transmitted at least once
          answered, \* pages a terminal acknowledged at least once
          overdue   \* pages past their lifetime

ledger == <<status, reason, sent, answered, overdue>>

LedgerInit ==
    /\ status = [m \in Pages |-> "absent"]
    /\ reason = [m \in Pages |-> "none"]
    /\ sent = {} /\ answered = {} /\ overdue = {}

Submit(m) ==
    /\ status[m] = "absent"
    /\ status' = [status EXCEPT ![m] = "partial"]
    /\ UNCHANGED <<reason, sent, answered, overdue>>

Commit(m) ==
    /\ status[m] = "partial"
    /\ status' = [status EXCEPT ![m] = "full"]
    /\ UNCHANGED <<reason, sent, answered, overdue>>

Lapse(m) ==
    /\ status[m] # "absent"
    /\ overdue' = overdue \cup {m}
    /\ UNCHANGED <<status, reason, sent, answered>>

\* Only a page that was once complete is transmitted, though it may be off
\* the queue by then.
Transmit(m) ==
    /\ status[m] = "full" \/ (status[m] = "gone" /\ reason[m] # "swept")
    /\ sent' = sent \cup {m}
    /\ answered' \in {answered, answered \cup {m}}
    /\ UNCHANGED <<status, reason, overdue>>

\* The grounds on which a page may be taken off the queue.
Grounds(m, why) ==
    CASE why = "delivered" -> status[m] = "full" /\ m \in answered
      [] why \in {"probably", "failed"} -> status[m] = "full" /\ m \in sent
      [] why = "expired" -> status[m] = "full" /\ m \in overdue
      [] why \in {"user", "farkled"} -> status[m] = "full"
      [] why = "swept" -> status[m] = "partial"

Leave(m, why) ==
    /\ Grounds(m, why)
    /\ status' = [status EXCEPT ![m] = "gone"]
    /\ reason' = [reason EXCEPT ![m] = why]
    /\ UNCHANGED <<sent, answered, overdue>>

Reasons == {"delivered", "probably", "failed", "expired", "user", "farkled", "swept"}

LedgerNext ==
    \E m \in Pages : \/ Submit(m) \/ Commit(m) \/ Lapse(m) \/ Transmit(m)
                     \/ \E why \in Reasons : Leave(m, why)

LedgerSpec == LedgerInit /\ [][LedgerNext]_ledger
=============================================================================
