----------------------------- MODULE QueueText -----------------------------
(***************************************************************************)
(* The algorithms the spool rests on, as functions of their arguments: the *)
(* two quicksorts, one of which scans without a bound, and the cutting of  *)
(* a long message into pages.  PageQueue takes the foremost page of its    *)
(* list and SnppSession a number of parts; here is what the code computes. *)
(*                                                                         *)
(* Abstractions: an array of n entries is a function on 0..n-1; of a text  *)
(* only the places of its blanks matter.                                   *)
(***************************************************************************)
EXTENDS Integers, FiniteSets, FiniteSetsExt

-----------------------------------------------------------------------------
(* queuesort and quicksort *)

\* queuecompare
QueueBefore(e, f) ==
    IF e.priority # f.priority THEN e.priority < f.priority ELSE e.submitted < f.submitted

\* Where the two scans of queuesort stop.  The one to the left has no bound: it
\* goes on below the array unless an entry before the pivot stops it.
QueueStops(q, i, j, v) ==
    <<Min({k \in DOMAIN q : k > i /\ ~QueueBefore(q[k], v)}),
      Max({k \in DOMAIN q : k < j /\ QueueBefore(q[k], v)})>>

\* Where those of quicksort stop: there is "i < r", and "j > 0" for any l.
StringStops(a, i, j, r, v) ==
    <<Min({k \in DOMAIN a : k > i /\ (a[k] >= v \/ k >= r)}),
      Max({k \in DOMAIN a : k < j /\ (a[k] <= v \/ k <= 0)})>>

\* The last exchange, which came too late, and the three assignments after the
\* loop that take it back and put the pivot, q[r], at i.
Settled(q, i, j, r) ==
    LET s == [q EXCEPT ![i] = q[j], ![j] = q[i]]
        t == [s EXCEPT ![j] = s[i]]
    IN  [[t EXCEPT ![i] = t[r]] EXCEPT ![r] = q[i]]

\* One partition: the array after it and the place of the pivot.
RECURSIVE Partition(_, _, _, _, _)
Partition(strings, q, i, j, r) ==
    LET s == IF strings THEN StringStops(q, i, j, r, q[r]) ELSE QueueStops(q, i, j, q[r])
    IN  IF s[2] > s[1]
        THEN Partition(strings, [q EXCEPT ![s[1]] = q[s[2]], ![s[2]] = q[s[1]]], s[1], s[2], r)
        ELSE [array |-> Settled(q, s[1], s[2], r), pivot |-> s[1]]

RECURSIVE QuickSort(_, _, _, _)
QuickSort(strings, q, l, r) ==
    IF r <= l THEN q
    ELSE LET p == Partition(strings, q, l - 1, r, r)
         IN  QuickSort(strings, QuickSort(strings, p.array, l, p.pivot - 1), p.pivot + 1, r)

-----------------------------------------------------------------------------
(* storequeue and _splitsq: a text of n characters, blanks: the places of its blanks *)

\* get_maxlen: tuning.maxMessageLength, or 250.  The limit of the page's own
\* terminal is looked up in q.u, which no caller of storequeue has filled in.
MaxLen(tuning) == IF tuning = 0 THEN 250 ELSE tuning

\* Where the page that begins at sofar ends, and where the next one begins: at
\* the last blank that leaves something before it, or in the middle of a word.
Cut(blanks, n, sofar, maxlen) ==
    LET inner == {p \in 1..(maxlen - 1) : sofar + p \in blanks}
    IN  IF n - sofar <= maxlen THEN [to |-> n, next |-> n]
        ELSE IF inner = {} THEN [to |-> sofar + maxlen, next |-> sofar + maxlen]
        ELSE [to |-> sofar + Max(inner), next |-> sofar + Max(inner) + 1]

\* The pages, each the places from .. to - 1 of the text.
RECURSIVE Split(_, _, _, _)
Split(blanks, n, sofar, maxlen) ==
    LET c == Cut(blanks, n, sofar, maxlen)
    IN  {[from |-> sofar, to |-> c.to]}
        \cup (IF c.next = n THEN {} ELSE Split(blanks, n, c.next, maxlen))

\* storequeue: a text that fits is stored as it is, a longer one in pages or
\* without what is beyond maxlen - 1.
StoredText(blanks, n, tuning, wrap) ==
    IF n <= MaxLen(tuning) THEN {[from |-> 0, to |-> n]}
    ELSE IF wrap THEN Split(blanks, n, 0, MaxLen(tuning))
    ELSE {[from |-> 0, to |-> MaxLen(tuning) - 1]}

-----------------------------------------------------------------------------
(* Properties: MCPageQueue evaluates them for small inputs *)

\* An entry that sorts before all others: what stops the scan below the array,
\* if something does before the process is killed.
Below == [priority |-> -1, submitted |-> 0]

\* Two arrays have the same entries.
Rearranged(a, b) ==
    \A e \in {a[k] : k \in DOMAIN a} \cup {b[k] : k \in DOMAIN b} :
        Cardinality({k \in DOMAIN a : a[k] = e}) = Cardinality({k \in DOMAIN b : b[k] = e})

(* queuesort puts the pages of every list in the order of queuecompare, loses  *)
(* none and leaves what it reads below the array as it was; stringListSort     *)
(* sorts without ever leaving its array.                                       *)
ListsAreSorted(entries, size) ==
    \A n \in 1..size :
        /\ \A a \in [0..(n - 1) -> entries] :
              LET q == [k \in -1..(n - 1) |-> IF k = -1 THEN Below ELSE a[k]]
                  s == QuickSort(FALSE, q, 0, n - 1)
              IN  /\ s[-1] = Below
                  /\ Rearranged(s, q)
                  /\ \A k \in 1..(n - 1) : ~QueueBefore(s[k], s[k - 1])
        /\ \A a \in [0..(n - 1) -> 1..3] :
              LET s == QuickSort(TRUE, a, 0, n - 1)
              IN  Rearranged(s, a) /\ \A k \in 1..(n - 1) : s[k - 1] <= s[k]

(* A message that is wrapped arrives: no page is empty or longer than the      *)
(* limit, the pages do not overlap, and all that is missing is one blank       *)
(* between two pages.                                                          *)
TextIsKept(size) ==
    \A n \in 1..size : \A blanks \in SUBSET (0..(n - 1)) : \A tuning \in 0..n :
        LET pages == StoredText(blanks, n, tuning, TRUE)
            lost == {k \in 0..(n - 1) : \A p \in pages : ~(p.from <= k /\ k < p.to)}
        IN  /\ \A p \in pages : p.from < p.to /\ p.to - p.from <= MaxLen(tuning)
            /\ \A p, o \in pages : p # o => p.to <= o.from \/ o.to <= p.from
            /\ lost \subseteq blanks
            /\ \A k \in lost : \E p, o \in pages : p.to = k /\ o.from = k + 1
=============================================================================
