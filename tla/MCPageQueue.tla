---------------------------- MODULE MCPageQueue ----------------------------
(* Instances of PageQueue for TLC: two pages, one or two terminals.          *)
EXTENDS PageQueueInv, QueueText, TLC

CONSTANTS r1, r2, cron, printq, m1, m2, f1

OneTerm == <<"alpha">>
TwoTerms == <<"alpha", "beta">>

\* Both pages for one terminal; m2 is the more urgent one.
SameStation == [m \in Pages |-> "alpha"]
\* One page for each terminal.
TwoStations == (m1 :> "alpha") @@ (m2 :> "beta")
\* The terminal of m2 is not in the terminal database.
LostStation == (m1 :> "alpha") @@ (m2 :> "nowhere")

Priorities == (m1 :> 10) @@ (m2 :> 5)
Equal == [m \in Pages |-> 10]
Stamps == [m \in Pages |-> 0]

DaemonOnly == (cron :> r1)
DaemonAndPrinter == (cron :> r1) @@ (printq :> NoChild)
PrinterOnly == (printq :> NoChild)
SlotsAndPages == Permutations(Runners) \cup Permutations(Pages)

\* State constraint: no page outlives its lifetime.
Young == \A m \in Pages : age[m] # "old"

NoChildren == [c \in {} |-> NoChild]

(* The algorithms of QueueText, for lists of up to four pages of two           *)
(* priorities and two seconds, and for texts of up to seven characters.        *)
ASSUME AlgorithmsAssumption ==
    /\ ListsAreSorted([priority : {5, 10}, submitted : {0, 1}], 4)
    /\ TextIsKept(7)
=============================================================================
