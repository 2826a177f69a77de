------------------------- MODULE SnppSessionProofs -------------------------
(***************************************************************************)
(* What SnppSession promises its client, for any set of users and texts    *)
(* and for any limits.  The invariants are not inductive one by one: what  *)
(* a reply says after SEND depends on the counter good in the middle of    *)
(* it, so Bookkeeping says what good stands for at every step of the loop. *)
(***************************************************************************)
EXTENDS SnppSession, SequenceTheorems, TLAPS

(* The array of pagers is unallocated, or has at least four entries. *)
Room == room = 0 \/ room >= 4

(* What storequeue made of pager i's page, when it returned 0. *)
Stored(i) ==
    /\ copies[i] >= 1
    /\ i \in whole \cup unwritten \/ Truncated(message)

(* Inside SEND, good counts the pagers before next whose page was stored, and  *)
(* has fallen behind as soon as one was not.  A page that this SEND has not    *)
(* reached was stored at most once for each SEND that failed before.           *)
Bookkeeping ==
    /\ lastsend => pc # "sending"
    /\ pc = "sending" =>
          /\ next <= Len(pagers) + 1
          /\ good <= next - 1
          /\ good = next - 1 => \A i \in 1..(next - 1) : Stored(i)
          /\ \A i \in 1..Len(pagers) : i >= next => copies[i] <= failures
          /\ good = next - 1 /\ failures = 0 => partial \subseteq unwritten \/ Truncated(message)
    /\ pc = "command" /\ ~lastsend => \A i \in 1..Len(pagers) : copies[i] <= failures

(* Each RESEt buys one more SEND that can be answered "queued". *)
Tries ==
    pc # "closed" => /\ queued <= tries + (IF lastsend THEN 1 ELSE 0)
                     /\ tries <= MaxTries

SInv == TypeOK /\ Room /\ RoomForOneMore /\ QueuedForAll /\ OneCopyEach
        /\ FragmentIsReported /\ Bookkeeping /\ Tries /\ TransactionsAreLimited

LEMMA EmptyBooks ==
    /\ <<>> \in Seq(Users) /\ <<>> \in Seq(Nat)
    /\ Len(<<>>) = 0
  BY EmptySeq

LEMMA Start == Init => SInv
<1> SUFFICES ASSUME Init PROVE SInv
  OBVIOUS
<1>1. TypeOK
  <2>1. /\ pagers \in Seq(Users) /\ copies \in Seq(Nat) /\ Len(copies) = Len(pagers)
        /\ whole = {} /\ partial = {} /\ unwritten = {}
    BY EmptyBooks DEF Init
  <2>2. /\ pc = "command" /\ lastsend \in BOOLEAN /\ wraps \in BOOLEAN /\ priority = PR_NORMAL
        /\ message = NoMessage /\ logname = NoUser
        /\ hold = 0 /\ room = 0 /\ tries = 0 /\ next = 1 /\ good = 0
        /\ asked = 0 /\ failures = 0 /\ sends = 0 /\ queued = 0
    BY DEF Init
  <2> QED BY <2>1, <2>2 DEF TypeOK
<1>2. Room /\ RoomForOneMore /\ QueuedForAll
  BY DEF Init, Room, RoomForOneMore, QueuedForAll
<1>3. OneCopyEach /\ FragmentIsReported /\ Bookkeeping
  BY EmptyBooks DEF Init, OneCopyEach, FragmentIsReported, Bookkeeping
<1>4. Tries /\ TransactionsAreLimited
  BY SessionAssumption DEF Init, Tries, TransactionsAreLimited
<1> QED BY <1>1, <1>2, <1>3, <1>4 DEF SInv

LEMMA KeepTries ==
    ASSUME SInv, UNCHANGED <<pc, tries, queued, lastsend>>
    PROVE  Tries' /\ TransactionsAreLimited'
  BY DEF SInv, Tries, TransactionsAreLimited

-----------------------------------------------------------------------------
(* The commands *)

\* The parts of SInv that a command which touches neither pagers nor the books
\* leaves alone.
books == <<pagers, lastsend, pc, loop, files, asked, failures>>

LEMMA KeepBooks ==
    ASSUME SInv, UNCHANGED books, Truncated(message) => Truncated(message)'
    PROVE  QueuedForAll' /\ OneCopyEach' /\ FragmentIsReported' /\ Bookkeeping'
  BY DEF SInv, books, loop, files, QueuedForAll, OneCopyEach, FragmentIsReported, Bookkeeping,
      Stored

LEMMA PageStep ==
    ASSUME SInv, NEW u \in Users, Page(u)
    PROVE  SInv'
<1> USE DEF Page, loop
<1>1. /\ pagers \in Seq(Users) /\ copies \in Seq(Nat)
      /\ whole \subseteq 1..Len(pagers) /\ partial \subseteq 1..Len(pagers)
      /\ unwritten \subseteq 1..Len(pagers)
      /\ Len(copies) = Len(pagers)
      /\ Len(pagers) \in Nat /\ room \in Nat /\ failures \in Nat /\ asked \in Nat
  BY LenProperties DEF SInv, TypeOK
<1>2. /\ pagers' \in Seq(Users) /\ Len(pagers') = Len(pagers) + 1
      /\ pagers' # <<>>
  BY <1>1, AppendProperties
<1>3. /\ copies' \in Seq(Nat) /\ Len(copies') = Len(pagers) + 1
      /\ \A i \in 1..Len(pagers) : copies'[i] = copies[i]
      /\ copies'[Len(pagers) + 1] = 0
  BY <1>1, AppendProperties
<1>4. /\ whole' \subseteq 1..Len(pagers') /\ partial' \subseteq 1..Len(pagers')
      /\ unwritten' \subseteq 1..Len(pagers')
  BY <1>1, <1>2
<1>a. message' = message /\ (Truncated(message)' <=> Truncated(message))
  BY DEF Truncated, Pages
<1>5. room' \in Nat /\ Room' /\ RoomForOneMore'
  BY <1>1, <1>2, EmptySeq DEF SInv, Room, RoomForOneMore, Grown, Allocated
<1>6. TypeOK'
  BY <1>2, <1>3, <1>4, <1>5 DEF SInv, TypeOK
<1>7. QueuedForAll'
  BY <1>1, <1>2, <1>3, <1>a DEF SInv, QueuedForAll
<1>8. OneCopyEach'
  BY <1>1, <1>3 DEF SInv, OneCopyEach
<1>9. FragmentIsReported'
  BY <1>a DEF SInv, FragmentIsReported
<1>10. Bookkeeping'
  BY <1>1, <1>2, <1>3 DEF SInv, Bookkeeping
<1>11. Tries' /\ TransactionsAreLimited'
  BY KeepTries
<1> QED BY <1>5, <1>6, <1>7, <1>8, <1>9, <1>10, <1>11 DEF SInv

\* "550 No such user" leaves an array of four entries behind.
LEMMA PageRefusedStep ==
    ASSUME SInv, PageRefused
    PROVE  SInv'
<1> USE DEF PageRefused, draft, history, files, loop
<1>1. UNCHANGED books /\ (Truncated(message) => Truncated(message)')
  BY DEF books, Truncated, Pages
<1>2. TypeOK'
  BY DEF SInv, TypeOK, Allocated
<1>3. Room' /\ RoomForOneMore'
  BY EmptySeq DEF SInv, TypeOK, Room, RoomForOneMore, Allocated
<1>4. UNCHANGED <<pc, tries, queued, lastsend>>
  OBVIOUS
<1> QED BY <1>1, <1>2, <1>3, <1>4, KeepBooks, KeepTries DEF SInv

\* Message, priority, hold time and login do not touch the pagers.
LEMMA DraftStep ==
    ASSUME SInv,
           \/ \E x \in Messages : Mess(x)
           \/ Priority
           \/ \E t \in HoldTimes : HoldUntil(t)
           \/ \E who \in Users \cup {NoUser} : Login(who)
    PROVE  SInv'
<1> USE DEF Mess, Priority, HoldUntil, Login, history, files, loop
<1>1. UNCHANGED books /\ UNCHANGED room /\ (Truncated(message) => Truncated(message)')
  BY DEF books, Truncated, Pages
<1>2. TypeOK'
  BY SessionAssumption DEF SInv, TypeOK, PR_HIGH
<1>3. Room' /\ RoomForOneMore'
  BY <1>1 DEF SInv, Room, RoomForOneMore, books
<1>4. UNCHANGED <<pc, tries, queued, lastsend>>
  OBVIOUS
<1> QED BY <1>1, <1>2, <1>3, <1>4, KeepBooks, KeepTries DEF SInv

\* RESEt and QUIT start from the empty draft again.
LEMMA CleanStep ==
    ASSUME SInv, Reset \/ Quit
    PROVE  SInv'
<1> USE DEF Reset, Quit, CleanStuff, loop
<1>1. TypeOK'
  <2>1. /\ pagers' \in Seq(Users) /\ copies' \in Seq(Nat)
        /\ Len(copies') = Len(pagers')
        /\ whole' = {} /\ partial' = {} /\ unwritten' = {}
    BY EmptyBooks
  <2>2. /\ pc' \in {"command", "closed"} /\ lastsend' \in BOOLEAN
        /\ priority' = PR_NORMAL /\ message' = NoMessage /\ logname' = NoUser
        /\ hold' = 0 /\ room' = 0 /\ asked' = 0 /\ failures' = 0
        /\ next' = next /\ good' = good /\ sends' = sends /\ wraps' = wraps
    OBVIOUS
  <2>3. tries' \in Nat
    BY DEF SInv, TypeOK
  <2> QED BY <2>1, <2>2, <2>3 DEF SInv, TypeOK
<1>2. pc' # "sending" /\ pagers' = <<>> /\ copies' = <<>> /\ partial' = {}
      /\ room' = 0 /\ lastsend' = FALSE
  OBVIOUS
<1>3. Tries' /\ TransactionsAreLimited'
  <2>1. /\ queued' = queued /\ ~lastsend'
        /\ queued \in Nat /\ tries \in Nat /\ MaxTries \in Nat
        /\ tries <= MaxTries /\ queued <= tries + 1 /\ queued <= MaxTries + 1
    BY SessionAssumption DEF SInv, TypeOK, Tries, TransactionsAreLimited
  <2>2. CASE Reset
    <3>1. /\ tries' = tries + 1
          /\ pc' # "closed" => tries + 1 <= MaxTries
      BY <2>1, <2>2
    <3> QED BY <2>1, <3>1 DEF Tries, TransactionsAreLimited
  <2>3. CASE Quit
    <3>1. pc' = "closed" /\ tries' = tries
      BY <2>3
    <3> QED BY <2>1, <3>1 DEF Tries, TransactionsAreLimited
  <2> QED BY <2>2, <2>3
<1> QED
  BY <1>1, <1>2, <1>3, EmptySeq DEF SInv, Room, RoomForOneMore, QueuedForAll, OneCopyEach,
      FragmentIsReported, Bookkeeping

LEMMA AlarmStep ==
    ASSUME SInv, Alarm
    PROVE  SInv'
  BY DEF Alarm, draft, loop, history, files, SInv, TypeOK, Room, RoomForOneMore, QueuedForAll,
      OneCopyEach, FragmentIsReported, Bookkeeping, Stored, Truncated, Pages, Tries,
      TransactionsAreLimited

-----------------------------------------------------------------------------
(* SEND *)

LEMMA SendStep ==
    ASSUME SInv, Send
    PROVE  SInv'
<1> USE DEF Send, draft, files
<1>1. Len(pagers) \in Nat /\ Len(pagers) = Len(copies)
  BY LenProperties DEF SInv, TypeOK
<1>2. TypeOK' /\ Room' /\ RoomForOneMore'
  BY DEF SInv, TypeOK, Room, RoomForOneMore
<1>a. Truncated(message)' <=> Truncated(message)
  BY DEF Truncated, Pages
<1>3. QueuedForAll' /\ OneCopyEach' /\ FragmentIsReported'
  BY <1>a DEF SInv, QueuedForAll, OneCopyEach, FragmentIsReported
<1>4. Bookkeeping'
  BY <1>1, <1>a DEF SInv, Bookkeeping, FragmentIsReported
<1>5. Tries' /\ TransactionsAreLimited'
  BY DEF SInv, Tries, TransactionsAreLimited
<1> QED BY <1>2, <1>3, <1>4, <1>5 DEF SInv

LEMMA StoreSucceedsStep ==
    ASSUME SInv, NEW written \in BOOLEAN, StoreSucceeds(written)
    PROVE  SInv'
<1> USE DEF StoreSucceeds, draft
<1>1. /\ Len(pagers) \in Nat /\ Len(copies) = Len(pagers) /\ copies \in Seq(Nat)
      /\ next \in 1..Len(pagers) /\ good \in Nat /\ failures \in Nat
      /\ whole \subseteq 1..Len(pagers) /\ partial \subseteq 1..Len(pagers)
      /\ unwritten \subseteq 1..Len(pagers)
  BY LenProperties DEF SInv, TypeOK
<1>2. \A i \in 1..Len(pagers) : copies[i] \in Nat
  BY <1>1, ElementOfSeq
<1>3. /\ copies' \in Seq(Nat) /\ Len(copies') = Len(pagers)
      /\ \A i \in 1..Len(pagers) :
            copies'[i] = IF i = next THEN copies[i] + 1 ELSE copies[i]
  BY <1>1, <1>2, ExceptSeq
<1>a. Truncated(message)' <=> Truncated(message)
  BY DEF Truncated, Pages
<1>b. /\ next \in whole' \cup unwritten' \/ Truncated(message)
      /\ whole \subseteq whole' /\ unwritten \subseteq unwritten'
      /\ partial' \subseteq partial \cup {next}
      /\ partial' = partial \/ next \in unwritten' \/ Truncated(message)
      /\ whole' \subseteq 1..Len(pagers) /\ partial' \subseteq 1..Len(pagers)
      /\ unwritten' \subseteq 1..Len(pagers)
  BY <1>1
<1>4. TypeOK' /\ Room' /\ RoomForOneMore'
  BY <1>3, <1>b DEF SInv, TypeOK, Room, RoomForOneMore
<1>5. QueuedForAll' /\ FragmentIsReported'
  BY DEF SInv, QueuedForAll, FragmentIsReported, Bookkeeping
<1>6. OneCopyEach'
  BY <1>1, <1>2, <1>3 DEF SInv, OneCopyEach, Bookkeeping
<1>7. Bookkeeping'
  <2>1. good' = next' - 1 => \A i \in 1..(next' - 1) : Stored(i)'
    <3> SUFFICES ASSUME good' = next' - 1, NEW i \in 1..(next' - 1) PROVE Stored(i)'
      OBVIOUS
    <3>1. CASE i = next
      BY <1>1, <1>2, <1>3, <1>a, <1>b, <3>1 DEF Stored
    <3>2. CASE i # next
      <4>1. i \in 1..(next - 1) /\ good = next - 1 /\ i \in 1..Len(pagers)
        BY <1>1, <3>2
      <4>2. Stored(i)
        BY <4>1 DEF SInv, Bookkeeping
      <4> QED BY <1>3, <1>a, <1>b, <3>2, <4>1, <4>2 DEF Stored
    <3> QED BY <3>1, <3>2
  <2>2. good' = next' - 1 /\ failures' = 0 => partial' \subseteq unwritten' \/ Truncated(message)'
    BY <1>1, <1>a, <1>b DEF SInv, Bookkeeping
  <2> QED BY <1>1, <1>2, <1>3, <2>1, <2>2 DEF SInv, Bookkeeping
<1>8. Tries' /\ TransactionsAreLimited'
  BY DEF SInv, Tries, TransactionsAreLimited
<1> QED BY <1>4, <1>5, <1>6, <1>7, <1>8 DEF SInv

LEMMA StoreFailsStep ==
    ASSUME SInv, StoreFails
    PROVE  SInv'
<1> USE DEF StoreFails, draft
<1>1. /\ Len(pagers) \in Nat /\ partial \subseteq 1..Len(pagers)
      /\ Len(copies) = Len(pagers)
      /\ next \in 1..Len(pagers) /\ good \in Nat /\ failures \in Nat
  BY LenProperties DEF SInv, TypeOK
<1>2. partial' \subseteq 1..Len(pagers)
  BY <1>1
<1>3. TypeOK' /\ Room' /\ RoomForOneMore' /\ FragmentIsReported'
  BY <1>2 DEF SInv, TypeOK, Room, RoomForOneMore, FragmentIsReported
<1>4. QueuedForAll' /\ OneCopyEach'
  BY DEF SInv, QueuedForAll, OneCopyEach, Bookkeeping
<1>5. Bookkeeping'
  BY <1>1 DEF SInv, Bookkeeping
<1>6. Tries' /\ TransactionsAreLimited'
  BY DEF SInv, Tries, TransactionsAreLimited
<1> QED BY <1>3, <1>4, <1>5, <1>6 DEF SInv

LEMMA SendReplyStep ==
    ASSUME SInv, SendReply
    PROVE  SInv'
<1> USE DEF SendReply, loop, files
<1>1. /\ Len(pagers) \in Nat /\ Len(copies) = Len(pagers)
      /\ copies \in Seq(Nat)
      /\ next = Len(pagers) + 1 /\ good \in Nat /\ failures \in Nat
      /\ lastsend = FALSE
  BY LenProperties DEF SInv, TypeOK, Bookkeeping
<1>2. \A i \in 1..Len(pagers) : copies[i] \in Nat
  BY <1>1, ElementOfSeq
<1>3. TypeOK' /\ Room' /\ RoomForOneMore'
  BY <1>1 DEF SInv, TypeOK, Room, RoomForOneMore
<1>4. /\ good <= next - 1
      /\ good = next - 1 => \A i \in 1..(next - 1) : Stored(i)
      /\ good = next - 1 /\ failures = 0 => partial \subseteq unwritten \/ Truncated(message)
  BY DEF SInv, Bookkeeping
<1>5. \A i \in 1..Len(pagers) : copies[i] <= failures + 1
  BY <1>1 DEF SInv, OneCopyEach
<1>6. /\ queued \in Nat /\ tries \in Nat /\ MaxTries \in Nat /\ tries' = tries
      /\ queued <= tries /\ tries <= MaxTries /\ pc' = "command"
  BY <1>1, SessionAssumption DEF SInv, TypeOK, Tries
<1>a. Truncated(message)' <=> Truncated(message)
  BY DEF Truncated, Pages
<1>7. CASE good = Len(pagers)
  <2>1. /\ lastsend' /\ asked' = Len(pagers) /\ failures' = failures
        /\ queued' = queued + 1
    BY <1>7
  <2>2. QueuedForAll' /\ FragmentIsReported'
    BY <1>1, <1>4, <1>7, <1>a, <2>1 DEF QueuedForAll, FragmentIsReported, Stored
  <2>3. OneCopyEach' /\ Bookkeeping'
    BY <1>1, <1>5, <2>1 DEF OneCopyEach, Bookkeeping
  <2>4. Tries' /\ TransactionsAreLimited'
    BY <1>6, <2>1 DEF Tries, TransactionsAreLimited
  <2> QED BY <1>3, <2>2, <2>3, <2>4 DEF SInv
<1>8. CASE good # Len(pagers)
  <2>1. /\ ~lastsend' /\ asked' = asked /\ failures' = failures + 1
        /\ queued' = queued
    BY <1>8
  <2>2. QueuedForAll' /\ FragmentIsReported'
    BY <1>1, <2>1 DEF QueuedForAll, FragmentIsReported
  <2>3. OneCopyEach' /\ Bookkeeping'
    BY <1>1, <1>2, <1>5, <2>1 DEF OneCopyEach, Bookkeeping
  <2>4. Tries' /\ TransactionsAreLimited'
    BY <1>6, <2>1 DEF Tries, TransactionsAreLimited
  <2> QED BY <1>3, <2>2, <2>3, <2>4 DEF SInv
<1> QED BY <1>7, <1>8

-----------------------------------------------------------------------------
(* The theorems *)

LEMMA SInvStep == SInv /\ [Next]_vars => SInv'
<1> SUFFICES ASSUME SInv, [Next]_vars PROVE SInv'
  OBVIOUS
<1>1. CASE UNCHANGED vars
  BY <1>1 DEF vars, draft, loop, history, files, SInv, TypeOK, Room, RoomForOneMore, QueuedForAll,
      OneCopyEach, FragmentIsReported, Bookkeeping, Stored, Truncated, Pages, Tries,
      TransactionsAreLimited
<1>2. CASE \E u \in Users : Page(u)
  BY <1>2, PageStep
<1>3. CASE PageRefused
  BY <1>3, PageRefusedStep
<1>4. CASE \/ \E x \in Messages : Mess(x)
           \/ Priority
           \/ \E t \in HoldTimes : HoldUntil(t)
           \/ \E who \in Users \cup {NoUser} : Login(who)
  BY <1>4, DraftStep
<1>5. CASE Reset \/ Quit
  BY <1>5, CleanStep
<1>6. CASE Alarm
  BY <1>6, AlarmStep
<1>7. CASE Send
  BY <1>7, SendStep
<1>8. CASE \E written \in BOOLEAN : StoreSucceeds(written)
  BY <1>8, StoreSucceedsStep
<1>9. CASE StoreFails
  BY <1>9, StoreFailsStep
<1>10. CASE SendReply
  BY <1>10, SendReplyStep
<1> QED
  BY <1>1, <1>2, <1>3, <1>4, <1>5, <1>6, <1>7, <1>8, <1>9, <1>10 DEF Next

(* The bookkeeping of snpp_send and snpp_setpageid is inductive. *)
THEOREM SessionInvariant == Spec => []SInv
  BY Start, SInvStep, PTL DEF Spec

(* snpp_setpageid never writes past the array it allocated, for any number of  *)
(* pagers, refusals and RESEts.                                                *)
THEOREM ArrayHasRoom == Spec => []RoomForOneMore
<1>1. SInv => RoomForOneMore
  BY DEF SInv
<1> QED BY <1>1, SessionInvariant, PTL

(* What the client may conclude from the reply to SEND: "queued" means all     *)
(* pages for every pager, whole unless a write failed or the text was cut off, *)
(* and a second copy or any other fragment comes only with a "failed".         *)
THEOREM RepliesAreTrue == Spec => [](QueuedForAll /\ OneCopyEach /\ FragmentIsReported)
<1>1. SInv => QueuedForAll /\ OneCopyEach /\ FragmentIsReported
  BY DEF SInv
<1> QED BY <1>1, SessionInvariant, PTL

(* "queued" means that all pages of the message were created for every pager,  *)
(* and that a page which is not whole met a full disk or a text too long: no   *)
(* order of PAGE, failed SENDs and repeated ones adds another way.             *)
THEOREM QueuedIsTrue == Spec => []QueuedForAll
<1>1. SInv => QueuedForAll
  BY DEF SInv
<1> QED BY <1>1, SessionInvariant, PTL

(* Part of a message is left in the spool only after a "failed", or by a write *)
(* that failed or a text cut off, which storequeue takes for success.          *)
THEOREM FragmentsAreFailures == Spec => []FragmentIsReported
<1>1. SInv => FragmentIsReported
  BY DEF SInv
<1> QED BY <1>1, SessionInvariant, PTL

(* The commands of a session leave each of its globals a value of its type.    *)
THEOREM SessionTypes == Spec => []TypeOK
<1>1. SInv => TypeOK
  BY DEF SInv
<1> QED BY <1>1, SessionInvariant, PTL

(* However a client mixes SEND, RESEt and failures, one session is told        *)
(* "queued" at most maxtries + 1 times.                                        *)
THEOREM TriesLimitTransactions == Spec => []TransactionsAreLimited
<1>1. SInv => TransactionsAreLimited
  BY DEF SInv
<1> QED BY <1>1, SessionInvariant, PTL
=============================================================================
