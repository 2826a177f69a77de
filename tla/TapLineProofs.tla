--------------------------- MODULE TapLineProofs ---------------------------
(* Proofs about TapLine, for every finite set of pages and every bound: how   *)
(* the answers on a line relate to the pages they are taken for.              *)
EXTENDS TapLine, TLAPS, FiniteSetTheorems, SequenceTheorems

\* What the runner or the terminal may take for a packet or for an answer.
Hot == Answers \cup {"p", "PG1", "packet"}

\* The entries of s it may take for one, but for those about packet n.
HotIn(s, n) == {i \in DOMAIN s : s[i].is \in Hot /\ s[i].to # n}

\* Those under way in either direction.
Pending(n) == Cardinality(HotIn(asked, n)) + Cardinality(HotIn(line, n))

\* Packets are numbered as they are sent, and only answers to them have a number.
Numbered ==
    /\ \A i \in DOMAIN asked :
          IF asked[i].is = "packet" THEN asked[i].to \in 1..Len(sent) ELSE asked[i].to = 0
    /\ \A i \in DOMAIN line :
          line[i].to > 0 => line[i].is \in Answers /\ line[i].to <= Len(sent)

\* Between two pages nothing is under way but what a stray word has put out of
\* step; while the runner waits, there is one more, and that one is for the page
\* it waits for.
Books ==
    /\ Pending(Len(sent) + 1) <= strays + (IF pc \in {"p", "answer", "over"} THEN 1 ELSE 0)
    /\ sent # <<>> => Pending(Len(sent)) <= strays /\ pc \in {"page", "answer", "over"}

\* The rest of the list is in the spool, once each; the page the runner waits
\* for is the last one sent.
Lists ==
    /\ \A i, j \in DOMAIN todo : todo[i] = todo[j] => i = j
    /\ \A i \in DOMAIN todo : todo[i] \in queue
    /\ pc = "answer" => todo # <<>> /\ sent # <<>> /\ sent[Len(sent)] = Head(todo)

\* An ACK to a packet is on its way only if the terminal accepted the packet.
AcksAreTrue ==
    \A i \in DOMAIN line : line[i].is = "ACK" /\ line[i].to > 0 => accepts[sent[line[i].to]] > 0

\* Without stray words: a page that was accepted has left the spool, or is the one
\* the runner waits for; no packet under way and no refusal is about a page that
\* was accepted.
Straight ==
    /\ \A m \in Pages : fate[m] = "delivered" => accepts[m] > 0
    /\ \A m \in Pages : accepts[m] <= 1
    /\ \A m \in queue : accepts[m] > 0 =>
          pc \in {"answer", "over"} /\ sent # <<>> /\ m = sent[Len(sent)]
    /\ \A i \in DOMAIN asked : asked[i].is = "packet" => accepts[sent[asked[i].to]] = 0
    /\ \A i \in DOMAIN line :
          line[i].to > 0 /\ line[i].is # "ACK" => accepts[sent[line[i].to]] = 0

\* The runner guesses once, and the call is over.
OneGuess ==
    \A m, n \in Pages :
        fate[m] = "probably delivered" =>
            pc = "over" /\ (fate[n] = "probably delivered" => m = n)

LineInv ==
    TypeOK /\ Numbered /\ Books /\ Lists /\ AcksAreTrue /\ (strays = 0 => Straight) /\ OneGuess

-----------------------------------------------------------------------------
(* Sequences *)

LEMMA TailFacts ==
  ASSUME NEW S, NEW s \in Seq(S), s # <<>>
  PROVE  /\ Tail(s) \in Seq(S) /\ Len(Tail(s)) = Len(s) - 1
         /\ \A i \in DOMAIN Tail(s) : i \in Nat /\ i + 1 \in DOMAIN s /\ Tail(s)[i] = s[i + 1]
         /\ 1 \in DOMAIN s /\ Head(s) = s[1] /\ s[1] \in S
  <1>1. /\ Len(s) \in Nat \ {0} /\ DOMAIN s = 1..Len(s)
    BY EmptySeq, LenProperties
  <1>2. /\ Tail(s) \in Seq(S) /\ Len(Tail(s)) = Len(s) - 1
        /\ \A i \in 1..Len(Tail(s)) : Tail(s)[i] = s[i + 1]
        /\ DOMAIN Tail(s) = 1..Len(Tail(s))
    BY HeadTailProperties, LenProperties
  <1>3. Head(s) = s[1] /\ s[1] \in S
    BY <1>1, ElementOfSeq
  <1> QED BY <1>1, <1>2, <1>3

LEMMA AppendFacts ==
  ASSUME NEW S, NEW s \in Seq(S), NEW x \in S
  PROVE  /\ Append(s, x) \in Seq(S) /\ Len(Append(s, x)) = Len(s) + 1
         /\ Len(s) \in Nat /\ Append(s, x) # <<>>
         /\ DOMAIN s = 1..Len(s) /\ DOMAIN Append(s, x) = 1..(Len(s) + 1)
         /\ \A i \in DOMAIN s : Append(s, x)[i] = s[i]
         /\ Append(s, x)[Len(s) + 1] = x
  <1>1. Len(s) \in Nat /\ DOMAIN s = 1..Len(s)
    BY LenProperties
  <1> QED BY <1>1

LEMMA HotCount ==
  ASSUME NEW S, NEW s \in Seq(S), NEW n
  PROVE  IsFiniteSet(HotIn(s, n)) /\ Cardinality(HotIn(s, n)) \in Nat
  <1>1. Len(s) \in Nat /\ DOMAIN s = 1..Len(s)
    BY LenProperties
  <1>2. IsFiniteSet(DOMAIN s)
    BY <1>1, FS_Interval
  <1>3. HotIn(s, n) \in SUBSET (DOMAIN s)
    BY DEF HotIn
  <1> QED BY <1>2, <1>3, FS_Subset, FS_CardinalityType

LEMMA HotNone ==
  ASSUME NEW s, NEW n, \A i \in DOMAIN s : s[i].is \notin Hot
  PROVE  Cardinality(HotIn(s, n)) = 0
  BY FS_EmptySet DEF HotIn

LEMMA HotAppend ==
  ASSUME NEW S, NEW s \in Seq(S), NEW x \in S, NEW n
  PROVE  Cardinality(HotIn(Append(s, x), n)) =
            Cardinality(HotIn(s, n)) + (IF x.is \in Hot /\ x.to # n THEN 1 ELSE 0)
  <1>1. Len(s) + 1 \notin HotIn(s, n) /\ Len(s) + 1 \in DOMAIN Append(s, x)
    BY AppendFacts DEF HotIn
  <1>2. CASE x.is \in Hot /\ x.to # n
    <2>1. HotIn(Append(s, x), n) = HotIn(s, n) \cup {Len(s) + 1}
      BY <1>2, AppendFacts DEF HotIn
    <2> QED BY <1>1, <1>2, <2>1, HotCount, FS_AddElement
  <1>3. CASE ~(x.is \in Hot /\ x.to # n)
    <2>1. HotIn(Append(s, x), n) = HotIn(s, n)
      BY <1>3, AppendFacts DEF HotIn
    <2> QED BY <1>3, <2>1, HotCount
  <1> QED BY <1>2, <1>3

LEMMA HotTail ==
  ASSUME NEW S, NEW s \in Seq(S), s # <<>>, NEW n
  PROVE  Cardinality(HotIn(Tail(s), n)) + (IF s[1].is \in Hot /\ s[1].to # n THEN 1 ELSE 0)
            <= Cardinality(HotIn(s, n))
  <1> DEFINE A == HotIn(Tail(s), n)
             B == HotIn(s, n) \ {1}
             up1 == [i \in A |-> i + 1]
  <1>1. up1 \in [A -> B]
    BY TailFacts DEF HotIn
  <1>2. \A i, j \in A : up1[i] = up1[j] => i = j
    BY TailFacts DEF HotIn
  <1>3. up1 \in Injection(A, B)
    BY <1>1, <1>2 DEF Injection, IsInjective
  <1>4. IsFiniteSet(B) /\ Cardinality(B) \in Nat
    BY HotCount, FS_RemoveElement, FS_CardinalityType
  <1>5. Cardinality(A) <= Cardinality(B)
    BY <1>3, <1>4, FS_Injection
  <1>6. Cardinality(A) \in Nat /\ Cardinality(HotIn(s, n)) \in Nat
    BY HotCount, TailFacts
  <1>7. Cardinality(B) = Cardinality(HotIn(s, n)) -
                            (IF s[1].is \in Hot /\ s[1].to # n THEN 1 ELSE 0)
    <2>1. 1 \in HotIn(s, n) <=> s[1].is \in Hot /\ s[1].to # n
      BY TailFacts DEF HotIn
    <2>2. IsFiniteSet(HotIn(s, n))
      BY HotCount
    <2>3. Cardinality(HotIn(s, n) \ {1}) =
             IF 1 \in HotIn(s, n) THEN Cardinality(HotIn(s, n)) - 1 ELSE Cardinality(HotIn(s, n))
      BY <2>2, FS_RemoveElement
    <2> QED BY <2>1, <2>3, <1>6
  <1> HIDE DEF A, B
  <1>8. Cardinality(A) + (IF s[1].is \in Hot /\ s[1].to # n THEN 1 ELSE 0)
           <= Cardinality(HotIn(s, n))
    BY <1>4, <1>5, <1>6, <1>7
  <1> QED BY <1>8 DEF A

-----------------------------------------------------------------------------
(* Types *)

\* TypeOK without the Booleans, which the arithmetic of the SMT solver does not bear.
LEMMA Typed ==
  ASSUME TypeOK
  PROVE  /\ tries \in Nat /\ strays \in Nat
         /\ queue \subseteq Pages /\ todo \in Seq(Pages)
         /\ asked \in Seq(Request) /\ line \in Seq(Word)
         /\ sent \in Seq(Pages) /\ accepts \in [Pages -> Nat]
  BY DEF TypeOK

LEMMA AskType ==
  ASSUME TypeOK, NEW request \in Request, Write(request)
  PROVE  asked' \in Seq(Request)
  BY AppendFacts DEF TypeOK, Write

LEMMA DoneType ==
  ASSUME TypeOK, todo # <<>>,
         NEW what \in {"waiting", "delivered", "probably delivered", "failed"},
         Done(Head(todo), what)
  PROVE  /\ queue' \subseteq Pages /\ todo' \in Seq(Pages) /\ first' \in BOOLEAN
         /\ fate' \in [Pages -> {"waiting", "delivered", "probably delivered", "failed"}]
  <1>1. Head(todo) \in Pages /\ Tail(todo) \in Seq(Pages)
    BY TailFacts DEF TypeOK
  <1> QED BY <1>1 DEF TypeOK, Done

LEMMA ListFacts ==
  ASSUME TypeOK, List(queue)
  PROVE  /\ todo' \in Seq(Pages) /\ first' \in BOOLEAN
         /\ \A i \in DOMAIN todo' : todo'[i] \in queue
         /\ \A i, j \in DOMAIN todo' : todo'[i] = todo'[j] => i = j
  <1>1. Cardinality(queue) \in Nat
    BY LineAssumption, FS_Subset, FS_CardinalityType DEF LineAssumption, TypeOK
  <1>2. /\ todo' \in [1..Cardinality(queue) -> queue] /\ first' = TRUE
        /\ \A i, j \in DOMAIN todo' : todo'[i] = todo'[j] => i = j
    BY DEF List
  <1>3. todo' \in Seq(Pages)
    <2>1. todo' \in [1..Cardinality(queue) -> Pages]
      BY <1>2 DEF TypeOK
    <2> QED BY <1>1, <2>1, SeqDef
  <1> QED BY <1>2, <1>3

LEMMA InitType == Init => TypeOK
  <1> SUFFICES ASSUME Init PROVE TypeOK
    OBVIOUS
  <1>1. <<>> \in Seq(Pages) /\ <<>> \in Seq(Request) /\ <<>> \in Seq(Word)
    BY EmptySeq
  <1> QED BY <1>1 DEF Init, TypeOK

\* What a Reply does when the terminal says word.
AnsweredBy(word) ==
    /\ asked # <<>> /\ asked' = Tail(asked)
    /\ word \in Replies(asked[1].is)
    /\ \/ line' = line
       \/ line' = Append(line, [is |-> word, to |-> asked[1].to])
    /\ accepts' = IF asked[1].is = "packet" /\ word = "ACK"
                  THEN [accepts EXCEPT ![sent[asked[1].to]] = @ + 1]
                  ELSE accepts

LEMMA ReplyIs ==
  ASSUME TypeOK, Reply
  PROVE  \E word \in Words : AnsweredBy(word)
  <1>1. asked # <<>> /\ Head(asked) = asked[1] /\ asked[1] \in Request
    BY Typed, TailFacts DEF Reply
  <1>2. PICK word \in Replies(Head(asked).is) : AnsweredBy(word)
    BY <1>1 DEF Reply, AnsweredBy
  <1>3. word \in Words
    BY <1>1, <1>2 DEF Request, Replies, Words, Results, Answers
  <1> QED BY <1>2, <1>3

LEMMA TypeStep == TypeOK /\ Lists /\ [Next]_vars => TypeOK'
  <1> SUFFICES ASSUME TypeOK, Lists, [Next]_vars PROVE TypeOK'
    OBVIOUS
  <1>0. \A what \in {"atz", "atdt", "CR", "PG1"} : [is |-> what, to |-> 0] \in Request
    BY DEF Request
  <1>1. CASE Connected
    <2>1. asked' \in Seq(Request)
      <3>1. [is |-> "atz", to |-> 0] \in Request
        BY <1>0
      <3>2. <<[is |-> "atz", to |-> 0]>> \in Seq(Request)
        BY <3>1
      <3> QED BY <1>1, <3>2 DEF Connected
    <2>2. tries' \in Nat
      BY <1>1 DEF Connected
    <2> QED BY <1>1, <2>1, <2>2 DEF TypeOK, Connected, history
  <1>2. CASE NoPort \/ ConnectFails \/ Unconnected
    <2>1. tries' \in Nat
      BY <1>2, Typed DEF NoPort, ConnectFails, Unconnected
    <2> QED BY <1>2, <2>1 DEF TypeOK, NoPort, ConnectFails, Unconnected, history
  <1>3. ASSUME NEW words, Heard(words) PROVE line' \in Seq(Word)
    BY <1>3, Typed, TailFacts DEF Heard
  <1>4. CASE Ignore \/ HearNoCarrier
    BY <1>4, <1>3 DEF TypeOK, Ignore, HearNoCarrier, runner, history
  <1>5. CASE HearOK
    BY <1>5, <1>3, <1>0, AskType DEF TypeOK, HearOK, Ask, history
  <1>6. CASE HearConnect
    <2>1. asked' \in Seq(Request)
      BY <1>6, <1>0, AskType DEF HearConnect, Ask
    <2> QED BY <1>6, <1>3, <2>1 DEF TypeOK, HearConnect, history
  <1>7. CASE HearID
    BY <1>7, <1>3, <1>0, AskType DEF TypeOK, HearID, Ask, history
  <1>8. CASE HearGoAhead
    BY <1>8, <1>3, ListFacts DEF TypeOK, HearGoAhead, history
  <1>9. CASE WaitFails
    <2>1. asked' \in Seq(Request) /\ tries' \in Nat
      <3>1. CASE pc = "ID=" /\ tries + 1 < RETRY_1
        <4>1. Ask("CR") /\ tries' = tries + 1
          BY <1>9, <3>1 DEF WaitFails
        <4>2. asked' \in Seq(Request)
          BY <4>1, <1>0, AskType DEF Ask
        <4> QED BY <4>1, <4>2, Typed
      <3>2. CASE ~(pc = "ID=" /\ tries + 1 < RETRY_1)
        BY <1>9, <3>2, Typed DEF WaitFails
      <3> QED BY <3>1, <3>2, Typed
    <2> QED BY <1>9, <2>1 DEF TypeOK, WaitFails, history
  <1>10. CASE Send
    <2>1. Head(todo) \in Pages /\ Len(sent) + 1 \in Nat
      <3>1. todo \in Seq(Pages) /\ todo # <<>> /\ sent \in Seq(Pages)
        BY <1>10, Typed DEF Send
      <3>2. Len(sent) \in Nat
        BY <3>1, LenProperties
      <3>3. Head(todo) \in Pages
        BY <3>1, TailFacts
      <3> QED BY <3>2, <3>3
    <2>2. sent' \in Seq(Pages)
      BY <1>10, <2>1, Typed, AppendFacts DEF Send
    <2>3. [is |-> "packet", to |-> Len(sent) + 1] \in Request
      BY <2>1 DEF Request
    <2>4. asked' \in Seq(Request)
      BY <1>10, <2>3, AskType DEF Send
    <2>5. line' \in Seq(Word)
      BY <1>10, EmptySeq, Typed DEF Send, Flushed
    <2> QED BY <1>10, <2>2, <2>4, <2>5 DEF TypeOK, Send
  <1>11. CASE SendTooLong
    <2>1. /\ queue' \subseteq Pages /\ todo' \in Seq(Pages) /\ first' \in BOOLEAN
          /\ fate' \in [Pages -> {"waiting", "delivered", "probably delivered", "failed"}]
      BY <1>11, DoneType DEF SendTooLong
    <2> QED BY <1>11, <2>1 DEF TypeOK, SendTooLong
  <1>12. CASE HearAnswer
    <2>1. todo # <<>>
      BY <1>12 DEF HearAnswer, Lists
    <2>2. \A word : Outcome(word) \in {"waiting", "delivered", "probably delivered", "failed"}
      BY DEF Outcome
    <2>3. /\ queue' \subseteq Pages /\ todo' \in Seq(Pages) /\ first' \in BOOLEAN
          /\ fate' \in [Pages -> {"waiting", "delivered", "probably delivered", "failed"}]
      BY <1>12, <2>1, <2>2, DoneType DEF HearAnswer
    <2>4. line' \in Seq(Word)
      BY <1>12, EmptySeq, Typed, TailFacts, LineAssumption DEF HearAnswer, LineAssumption
    <2> QED BY <1>12, <2>3, <2>4 DEF TypeOK, HearAnswer
  <1>13. CASE HearNothing
    <2>1. todo # <<>>
      BY <1>13 DEF HearNothing, Lists
    <2>2. /\ queue' \subseteq Pages /\ todo' \in Seq(Pages) /\ first' \in BOOLEAN
          /\ fate' \in [Pages -> {"waiting", "delivered", "probably delivered", "failed"}]
      BY <1>13, <2>1, DoneType DEF HearNothing
    <2> QED BY <1>13, <2>2 DEF TypeOK, HearNothing
  <1>14. CASE Relist
    BY <1>14, ListFacts DEF TypeOK, Relist, history
  <1>15. CASE Killed
    BY <1>15 DEF TypeOK, Killed, history
  <1>16. CASE Reply
    <2>1. PICK word \in Words : AnsweredBy(word)
      BY <1>16, ReplyIs
    <2>2. asked' \in Seq(Request) /\ asked[1] \in Request
      BY <2>1, Typed, TailFacts DEF AnsweredBy
    <2>3. [is |-> word, to |-> asked[1].to] \in Word
      BY <2>2 DEF Word, Request
    <2>4. line' \in Seq(Word)
      <3>1. Append(line, [is |-> word, to |-> asked[1].to]) \in Seq(Word)
        BY <2>3, Typed, AppendFacts
      <3> QED BY <2>1, <3>1, Typed DEF AnsweredBy
    <2>5. accepts' \in [Pages -> Nat]
      <3>1. accepts \in [Pages -> Nat]
        BY Typed
      <3>2. ASSUME NEW x PROVE [accepts EXCEPT ![x] = @ + 1] \in [Pages -> Nat]
        <4>1. \A m \in Pages : accepts[m] \in Nat /\ accepts[m] + 1 \in Nat
          BY <3>1
        <4>2. [accepts EXCEPT ![x] = @ + 1] =
                 [m \in Pages |-> IF m = x THEN accepts[m] + 1 ELSE accepts[m]]
          BY <3>1
        <4> QED BY <4>1, <4>2
      <3> QED BY <2>1, <3>1, <3>2 DEF AnsweredBy
    <2> QED BY <1>16, <2>2, <2>4, <2>5 DEF TypeOK, Reply, runner
  <1>17. CASE Stray
    <2>1. PICK word \in Words : line' = Append(line, [is |-> word, to |-> 0])
      BY <1>17 DEF Stray
    <2>2. [is |-> word, to |-> 0] \in Word
      BY DEF Word
    <2>3. line' \in Seq(Word)
      BY <2>1, <2>2, Typed, AppendFacts
    <2>4. strays' \in Nat
      BY <1>17, Typed DEF Stray
    <2> QED BY <1>17, <2>3, <2>4 DEF TypeOK, Stray, runner
  <1>18. CASE HangUp
    BY <1>18, EmptySeq DEF TypeOK, HangUp, runner, history
  <1>19. CASE UNCHANGED vars
    BY <1>19 DEF TypeOK, vars, runner, history
  <1> QED BY <1>1, <1>2, <1>4, <1>5, <1>6, <1>7, <1>8, <1>9, <1>10, <1>11, <1>12, <1>13,
             <1>14, <1>15, <1>16, <1>17, <1>18, <1>19 DEF Next, Step

-----------------------------------------------------------------------------
(* What is under way *)

\* The same entries or fewer, and commands of the login.
Fewer(s, t) == \A i \in DOMAIN s : \E j \in DOMAIN t : s[i] = t[j]

LoginOnly(s, t) ==
    \A i \in DOMAIN s : \/ s[i].is \in {"atz", "atdt", "CR", "PG1"} /\ s[i].to = 0
                        \/ \E j \in DOMAIN t : s[i] = t[j]

\* Steps that neither send a packet nor write to the line.
Quiet ==
    /\ UNCHANGED <<sent, accepts, strays>>
    /\ LoginOnly(asked', asked) /\ Fewer(line', line)
    /\ \A n \in Nat : Pending(n)' <= Pending(n) + (IF pc' = "p" /\ pc # "p" THEN 1 ELSE 0)

LEMMA PendingType ==
  ASSUME TypeOK, NEW n
  PROVE  /\ Cardinality(HotIn(asked, n)) \in Nat /\ Cardinality(HotIn(line, n)) \in Nat
         /\ Pending(n) \in Nat
  BY Typed, HotCount DEF Pending

LEMMA PendingTypeNext ==
  ASSUME TypeOK', NEW n
  PROVE  /\ Cardinality(HotIn(asked', n)) \in Nat /\ Cardinality(HotIn(line', n)) \in Nat
         /\ Pending(n)' \in Nat
  <1>1. asked' \in Seq(Request) /\ line' \in Seq(Word)
    BY DEF TypeOK
  <1>2. Cardinality(HotIn(asked', n)) \in Nat /\ Cardinality(HotIn(line', n)) \in Nat
    BY <1>1, HotCount
  <1> QED BY <1>2 DEF Pending

LEMMA WriteCount ==
  ASSUME TypeOK, NEW request \in Request, Write(request), NEW n
  PROVE  /\ Cardinality(HotIn(asked', n)) <=
               Cardinality(HotIn(asked, n)) + (IF request.is \in Hot /\ request.to # n THEN 1 ELSE 0)
         /\ \A i \in DOMAIN asked' : asked'[i] = request \/ \E j \in DOMAIN asked : asked'[i] = asked[j]
  <1>1. asked \in Seq(Request) /\ Cardinality(HotIn(asked, n)) \in Nat
    BY Typed, PendingType
  <1>2. CASE asked' = Append(asked, request)
    BY <1>1, <1>2, HotAppend, AppendFacts
  <1>3. CASE asked' = asked
    BY <1>1, <1>3
  <1> QED BY <1>2, <1>3 DEF Write

LEMMA HeardCount ==
  ASSUME TypeOK, NEW words, Heard(words)
  PROVE  /\ line # <<>> /\ Head(line) = line[1] /\ line[1] \in Word /\ 1 \in DOMAIN line
         /\ line' = Tail(line) /\ line[1].is \in words
         /\ Fewer(line', line)
         /\ \A n : Cardinality(HotIn(line', n)) +
                        (IF line[1].is \in Hot /\ line[1].to # n THEN 1 ELSE 0)
                     <= Cardinality(HotIn(line, n))
         /\ \A n : /\ Cardinality(HotIn(line', n)) <= Cardinality(HotIn(line, n))
                   /\ Cardinality(HotIn(line', n)) \in Nat
  <1>1. line # <<>> /\ line' = Tail(line) /\ Head(line).is \in words /\ line \in Seq(Word)
    BY Typed DEF Heard
  <1>2. Head(line) = line[1] /\ line[1] \in Word /\ 1 \in DOMAIN line /\ Fewer(line', line)
    BY <1>1, TailFacts DEF Fewer
  <1>3. ASSUME NEW n
        PROVE  /\ Cardinality(HotIn(line', n)) +
                        (IF line[1].is \in Hot /\ line[1].to # n THEN 1 ELSE 0)
                     <= Cardinality(HotIn(line, n))
               /\ Cardinality(HotIn(line', n)) \in Nat /\ Cardinality(HotIn(line, n)) \in Nat
    BY <1>1, HotTail, HotCount, TailFacts
  <1>4. ASSUME NEW n
        PROVE  /\ Cardinality(HotIn(line', n)) <= Cardinality(HotIn(line, n))
               /\ Cardinality(HotIn(line', n)) \in Nat
    BY <1>3
  <1> QED BY <1>1, <1>2, <1>3, <1>4

LEMMA SameEntries == \A s : Fewer(s, s) /\ LoginOnly(s, s)
  BY DEF Fewer, LoginOnly

LEMMA NothingPending == \A n : Cardinality(HotIn(<<>>, n)) = 0
  BY HotNone

LEMMA AskSteps ==
  ASSUME TypeOK, NEW what \in {"atz", "atdt", "CR", "PG1"}, Ask(what)
  PROVE  /\ LoginOnly(asked', asked)
         /\ \A n : /\ Cardinality(HotIn(asked', n)) <=
                         Cardinality(HotIn(asked, n)) + (IF what = "PG1" THEN 1 ELSE 0)
                   /\ Cardinality(HotIn(asked', n)) \in Nat
  <1>1. [is |-> what, to |-> 0] \in Request /\ Write([is |-> what, to |-> 0])
    BY DEF Request, Ask
  <1>2. LoginOnly(asked', asked)
    BY <1>1, WriteCount DEF LoginOnly
  <1>3. what \in Hot <=> what = "PG1"
    BY DEF Hot, Answers
  <1>4. ASSUME NEW n
        PROVE  /\ Cardinality(HotIn(asked', n)) <=
                     Cardinality(HotIn(asked, n)) + (IF what = "PG1" THEN 1 ELSE 0)
               /\ Cardinality(HotIn(asked', n)) \in Nat
    <2>1. Cardinality(HotIn(asked', n)) <=
             Cardinality(HotIn(asked, n)) + (IF what \in Hot /\ 0 # n THEN 1 ELSE 0)
      BY <1>1, WriteCount
    <2>2. Cardinality(HotIn(asked', n)) \in Nat /\ Cardinality(HotIn(asked, n)) \in Nat
      BY <1>1, AskType, HotCount, PendingType
    <2> QED BY <1>3, <2>1, <2>2
  <1> QED BY <1>2, <1>4

LEMMA QuietSteps ==
  ASSUME TypeOK,
         \/ Connected \/ NoPort \/ ConnectFails \/ Unconnected \/ WaitFails \/ Ignore
         \/ HearOK \/ HearNoCarrier \/ HearConnect \/ HearID \/ HearGoAhead \/ HearAnswer
         \/ HearNothing \/ SendTooLong \/ Relist \/ Killed \/ HangUp \/ UNCHANGED vars
  PROVE  Quiet
  <1> DEFINE a(n) == Cardinality(HotIn(asked, n))
             l(n) == Cardinality(HotIn(line, n))
             more == IF pc' = "p" /\ pc # "p" THEN 1 ELSE 0
  <1>0. ASSUME NEW n PROVE a(n) \in Nat /\ l(n) \in Nat /\ Pending(n) = a(n) + l(n)
    BY PendingType DEF Pending
  <1>1. CASE UNCHANGED <<sent, accepts, strays, asked, line>>
    BY <1>1, <1>0, SameEntries DEF Quiet, Pending
  <1>2. CASE \/ NoPort \/ ConnectFails \/ Unconnected \/ SendTooLong \/ HearNothing
             \/ Relist \/ Killed \/ UNCHANGED vars
    <2>1. UNCHANGED <<sent, accepts, strays, asked, line>>
      BY <1>2 DEF NoPort, ConnectFails, Unconnected, SendTooLong, HearNothing, Relist, Killed,
                  vars, runner, history
    <2> QED BY <1>1, <2>1
  <1>3. CASE Connected
    <2>1. asked' = <<[is |-> "atz", to |-> 0]>> /\ UNCHANGED <<sent, accepts, strays, line>>
      BY <1>3 DEF Connected, history
    <2>2. \A i \in DOMAIN asked' : asked'[i].is = "atz" /\ asked'[i].to = 0
      BY <2>1
    <2>3. \A n : Cardinality(HotIn(asked', n)) = 0
      BY <2>2, HotNone DEF Hot, Answers
    <2> QED BY <2>1, <2>2, <2>3, <1>0, SameEntries DEF Quiet, LoginOnly, Pending
  <1>4. CASE HangUp
    <2>1. asked' = <<>> /\ UNCHANGED <<sent, accepts, strays, line>>
      BY <1>4 DEF HangUp, history
    <2> QED BY <2>1, <1>0, NothingPending, SameEntries DEF Quiet, LoginOnly, Pending
  <1>5. CASE Ignore \/ HearNoCarrier \/ HearGoAhead
    <2>1. (\E words : Heard(words)) /\ UNCHANGED <<sent, accepts, strays, asked>>
      BY <1>5 DEF Ignore, HearNoCarrier, HearGoAhead, history
    <2>2. /\ Fewer(line', line)
          /\ \A n : /\ Cardinality(HotIn(line', n)) <= Cardinality(HotIn(line, n))
                    /\ Cardinality(HotIn(line', n)) \in Nat
      BY <2>1, HeardCount
    <2> QED BY <2>1, <2>2, <1>0, SameEntries DEF Quiet, Pending
  <1>6. CASE HearOK \/ HearConnect \/ HearID
    <2>1. PICK what \in {"atdt", "CR", "PG1"} :
             Ask(what) /\ (what = "PG1" => pc' = "p" /\ pc # "p")
      BY <1>6 DEF HearOK, HearConnect, HearID
    <2>2. (\E words : Heard(words)) /\ UNCHANGED <<sent, accepts, strays>>
      BY <1>6 DEF HearOK, HearConnect, HearID, history
    <2>3. /\ Fewer(line', line)
          /\ \A n : /\ Cardinality(HotIn(line', n)) <= Cardinality(HotIn(line, n))
                    /\ Cardinality(HotIn(line', n)) \in Nat
      BY <2>2, HeardCount
    <2>4. /\ LoginOnly(asked', asked)
          /\ \A n : /\ Cardinality(HotIn(asked', n)) <=
                          Cardinality(HotIn(asked, n)) + (IF what = "PG1" THEN 1 ELSE 0)
                    /\ Cardinality(HotIn(asked', n)) \in Nat
      BY <2>1, AskSteps
    <2> QED BY <2>1, <2>2, <2>3, <2>4, <1>0 DEF Quiet, Pending
  <1>7. CASE WaitFails
    <2>1. CASE Ask("CR")
      <3>1. /\ LoginOnly(asked', asked)
            /\ \A n : /\ Cardinality(HotIn(asked', n)) <= Cardinality(HotIn(asked, n))
                      /\ Cardinality(HotIn(asked', n)) \in Nat
        <4>1. /\ LoginOnly(asked', asked)
              /\ \A n : /\ Cardinality(HotIn(asked', n)) <= Cardinality(HotIn(asked, n)) + 0
                        /\ Cardinality(HotIn(asked', n)) \in Nat
          BY <2>1, AskSteps
        <4> QED BY <4>1, <1>0
      <3>2. UNCHANGED <<sent, accepts, strays, line>>
        BY <1>7 DEF WaitFails, history
      <3> QED BY <3>1, <3>2, <1>0, SameEntries DEF Quiet, Pending
    <2>2. CASE UNCHANGED asked
      <3>1. UNCHANGED <<sent, accepts, strays, line, asked>>
        BY <1>7, <2>2 DEF WaitFails, history
      <3> QED BY <3>1, <1>1
    <2> QED BY <1>7, <2>1, <2>2 DEF WaitFails
  <1>8. CASE HearAnswer
    <2>1. UNCHANGED <<sent, accepts, strays, asked>>
      BY <1>8 DEF HearAnswer
    <2>2. CASE line' = <<>>
      BY <2>1, <2>2, <1>0, NothingPending, SameEntries DEF Quiet, Fewer, Pending
    <2>3. CASE Heard(Expected)
      <3>1. /\ Fewer(line', line)
            /\ \A n : /\ Cardinality(HotIn(line', n)) <= Cardinality(HotIn(line, n))
                      /\ Cardinality(HotIn(line', n)) \in Nat
        BY <2>3, HeardCount
      <3> QED BY <2>1, <3>1, <1>0, SameEntries DEF Quiet, Pending
    <2> QED BY <1>8, <2>2, <2>3 DEF HearAnswer, Heard
  <1> QED BY <1>2, <1>3, <1>4, <1>5, <1>6, <1>7, <1>8

\* The word a wait ends with was under way.
LEMMA HeardIsGone ==
  ASSUME TypeOK, HearGoAhead \/ HearAnswer
  PROVE  /\ line # <<>> /\ line[1] \in Word /\ line[1].is \in Hot /\ 1 \in DOMAIN line
         /\ Head(line) = line[1]
         /\ \A n : line[1].to # n => Pending(n)' + 1 <= Pending(n)
  <1>1. /\ line # <<>> /\ line \in Seq(Word) /\ asked' = asked
        /\ Head(line).is \in Answers \cup {"p"}
        /\ line' = <<>> \/ line' = Tail(line)
    BY Typed DEF HearGoAhead, HearAnswer, Heard, Expected
  <1>2. Head(line) = line[1] /\ line[1] \in Word /\ line[1].is \in Hot /\ 1 \in DOMAIN line
    BY <1>1, TailFacts DEF Hot
  <1>3. ASSUME NEW n, line[1].to # n PROVE Pending(n)' + 1 <= Pending(n)
    <2>1. Cardinality(HotIn(Tail(line), n)) + 1 <= Cardinality(HotIn(line, n))
      BY <1>1, <1>2, <1>3, HotTail
    <2>2. /\ Cardinality(HotIn(Tail(line), n)) \in Nat /\ Cardinality(HotIn(line, n)) \in Nat
          /\ Cardinality(HotIn(asked, n)) \in Nat
      BY <1>1, PendingType, HotCount, TailFacts
    <2>3. /\ Cardinality(HotIn(line', n)) + 1 <= Cardinality(HotIn(line, n))
          /\ Cardinality(HotIn(line', n)) \in Nat
      <3>1. CASE line' = <<>>
        <4>1. Cardinality(HotIn(line', n)) = 0
          BY <3>1, NothingPending
        <4> QED BY <4>1, <2>1, <2>2
      <3>2. CASE line' = Tail(line)
        BY <3>2, <2>1, <2>2
      <3> QED BY <1>1, <3>1, <3>2
    <2>4. asked' = asked
      BY <1>1
    <2> QED BY <2>2, <2>3, <2>4 DEF Pending
  <1> QED BY <1>1, <1>2, <1>3

\* Every step but those that write a packet or to the line.
QuietStep ==
    \/ Connected \/ NoPort \/ ConnectFails \/ Unconnected \/ WaitFails \/ Ignore
    \/ HearOK \/ HearNoCarrier \/ HearConnect \/ HearID \/ HearGoAhead \/ HearAnswer
    \/ HearNothing \/ SendTooLong \/ Relist \/ Killed \/ HangUp \/ UNCHANGED vars

LEMMA QuietOrNot == [Next]_vars => QuietStep \/ Send \/ Reply \/ Stray
  BY DEF Next, Step, QuietStep

\* Where a step leaves the runner.
LEMMA Moves ==
  ASSUME TypeOK, QuietStep
  PROVE  /\ pc = "over" => pc' = "over"
         /\ pc \in {"page", "answer", "over"} => pc' \in {"page", "answer", "over"}
         /\ pc' = "answer" => pc = "answer"
         /\ pc = "p" => HearGoAhead \/ pc' \in {"p", "over"}
         /\ pc = "answer" => HearAnswer \/ pc' \in {"answer", "over"}
         /\ pc' = "p" /\ pc # "p" => pc \notin {"page", "answer", "over"}
  BY DEF QuietStep, TypeOK, Connected, NoPort, ConnectFails, Unconnected, WaitFails, Ignore,
         HearOK, HearNoCarrier, HearConnect, HearID, HearGoAhead, HearAnswer, HearNothing,
         SendTooLong, Relist, Killed, HangUp, vars, runner, Heard, Expected

LEMMA EntryTypes ==
  ASSUME TypeOK
  PROVE  /\ \A i \in DOMAIN line : line[i] \in Word /\ line[i].to \in Nat
         /\ \A i \in DOMAIN asked : asked[i] \in Request /\ asked[i].to \in Nat
  <1>1. line \in Seq(Word) /\ asked \in Seq(Request)
    BY Typed
  <1>2. DOMAIN line = 1..Len(line) /\ DOMAIN asked = 1..Len(asked)
    BY <1>1, LenProperties
  <1>3. (\A i \in DOMAIN line : line[i] \in Word) /\ (\A i \in DOMAIN asked : asked[i] \in Request)
    BY <1>1, <1>2, ElementOfSeq
  <1> QED BY <1>3 DEF Word, Request

\* The words an answer may make of a request.
LEMMA Answered ==
  ASSUME TypeOK, NEW word \in Words, AnsweredBy(word)
  PROVE  /\ asked # <<>> /\ 1 \in DOMAIN asked /\ asked[1] \in Request /\ asked' = Tail(asked)
         /\ Tail(asked) \in Seq(Request) /\ line' \in Seq(Word)
         /\ [is |-> word, to |-> asked[1].to] \in Word
         /\ \A i \in DOMAIN asked' : i \in Nat /\ i + 1 \in DOMAIN asked /\ asked'[i] = asked[i + 1]
         /\ \A i \in DOMAIN line' : \/ line'[i] = [is |-> word, to |-> asked[1].to]
                                    \/ i \in DOMAIN line /\ line'[i] = line[i]
  <1> DEFINE y == [is |-> word, to |-> asked[1].to]
  <1>1. asked # <<>> /\ asked' = Tail(asked) /\ asked \in Seq(Request) /\ line \in Seq(Word)
    BY Typed DEF AnsweredBy
  <1>2. /\ 1 \in DOMAIN asked /\ asked[1] \in Request /\ Tail(asked) \in Seq(Request)
        /\ \A i \in DOMAIN asked' : i \in Nat /\ i + 1 \in DOMAIN asked /\ asked'[i] = asked[i + 1]
    BY <1>1, TailFacts
  <1>3. y \in Word
    BY <1>2 DEF Word, Request
  <1>4. line' = line \/ line' = Append(line, y)
    BY DEF AnsweredBy
  <1> HIDE DEF y
  <1>5. line' \in Seq(Word)
    BY <1>1, <1>3, <1>4, AppendFacts
  <1>6. \A i \in DOMAIN line' : line'[i] = y \/ (i \in DOMAIN line /\ line'[i] = line[i])
    <2>1. CASE line' = line
      BY <2>1
    <2>2. CASE line' = Append(line, y)
      <3>1. /\ Len(line) \in Nat /\ DOMAIN line = 1..Len(line) /\ DOMAIN line' = 1..(Len(line) + 1)
            /\ \A i \in DOMAIN line : line'[i] = line[i]
            /\ line'[Len(line) + 1] = y
        BY <1>1, <1>3, <2>2, AppendFacts
      <3> QED BY <3>1
    <2> QED BY <1>4, <2>1, <2>2
  <1> QED BY <1>1, <1>2, <1>3, <1>5, <1>6 DEF y

\* A reply takes the place of the request.
LEMMA ReplyCount ==
  ASSUME TypeOK, NEW word \in Words, AnsweredBy(word), NEW n
  PROVE  Pending(n)' <= Pending(n)
  <1> DEFINE x == asked[1]
             y == [is |-> word, to |-> x.to]
             one == IF x.is \in Hot /\ x.to # n THEN 1 ELSE 0
  <1>1. /\ asked \in Seq(Request) /\ asked # <<>> /\ asked' = Tail(asked) /\ line \in Seq(Word)
        /\ Tail(asked) \in Seq(Request) /\ line' \in Seq(Word) /\ x \in Request /\ y \in Word
    BY Typed, Answered
  <1>2. Cardinality(HotIn(asked', n)) + one <= Cardinality(HotIn(asked, n))
    BY <1>1, HotTail
  <1>3. y.is \in Hot /\ y.to # n => x.is \in Hot /\ x.to # n
    BY <1>1 DEF AnsweredBy, Replies, Hot, Answers, Results, Request
  <1>4. Cardinality(HotIn(line', n)) <= Cardinality(HotIn(line, n)) + one
    <2>1. CASE line' = line
      BY <2>1, PendingType
    <2>2. CASE line' = Append(line, y)
      <3>1. Cardinality(HotIn(line', n)) =
               Cardinality(HotIn(line, n)) + (IF y.is \in Hot /\ y.to # n THEN 1 ELSE 0)
        BY <1>1, <2>2, HotAppend
      <3> QED BY <3>1, <1>3, PendingType
    <2> QED BY <2>1, <2>2 DEF AnsweredBy
  <1>5. Cardinality(HotIn(asked', n)) \in Nat /\ Cardinality(HotIn(line', n)) \in Nat
    BY <1>1, HotCount
  <1>6. one \in {0, 1}
    OBVIOUS
  <1> HIDE DEF one
  <1> QED BY <1>2, <1>4, <1>5, <1>6, PendingType DEF Pending

\* A stray word is one more.
LEMMA StrayCount ==
  ASSUME TypeOK, Stray, NEW n
  PROVE  /\ Pending(n)' <= Pending(n) + 1
         /\ strays' = strays + 1 /\ UNCHANGED <<runner, asked, sent, accepts, fate>>
         /\ \A i \in DOMAIN line' : line'[i].to = 0 \/ \E j \in DOMAIN line : line'[i] = line[j]
  <1>1. PICK word \in Words : line' = Append(line, [is |-> word, to |-> 0])
    BY DEF Stray
  <1>2. [is |-> word, to |-> 0] \in Word /\ line \in Seq(Word)
    BY Typed DEF Word
  <1>3. asked' = asked
    BY DEF Stray
  <1>4. Cardinality(HotIn(line', n)) <= Cardinality(HotIn(line, n)) + 1
    <2>1. Cardinality(HotIn(line', n)) =
             Cardinality(HotIn(line, n)) + (IF word \in Hot /\ 0 # n THEN 1 ELSE 0)
      BY <1>1, <1>2, HotAppend
    <2> QED BY <2>1, PendingType
  <1>5. Cardinality(HotIn(line', n)) \in Nat
    BY <1>1, <1>2, AppendFacts, HotCount
  <1>6. Pending(n)' <= Pending(n) + 1
    BY <1>3, <1>4, <1>5, PendingType DEF Pending
  <1>7. \A i \in DOMAIN line' : line'[i].to = 0 \/ \E j \in DOMAIN line : line'[i] = line[j]
    BY <1>1, <1>2, AppendFacts
  <1> QED BY <1>6, <1>7 DEF Stray

-----------------------------------------------------------------------------
(* Each part of the invariant *)

LEMMA NumberStep == TypeOK /\ TypeOK' /\ Numbered /\ [Next]_vars => Numbered'
  <1> SUFFICES ASSUME TypeOK, TypeOK', Numbered, [Next]_vars PROVE Numbered'
    OBVIOUS
  <1>0. Len(sent) \in Nat
    BY Typed, LenProperties
  <1>1. CASE QuietStep
    <2>1. Quiet
      BY <1>1, QuietSteps DEF QuietStep
    <2> QED BY <2>1 DEF Quiet, LoginOnly, Fewer, Numbered
  <1>2. CASE Send
    <2>1. Head(todo) \in Pages /\ Len(sent') = Len(sent) + 1
      BY <1>2, Typed, TailFacts, AppendFacts DEF Send
    <2>2. [is |-> "packet", to |-> Len(sent) + 1] \in Request
      BY <1>0 DEF Request
    <2>3. \A i \in DOMAIN asked' :
             \/ asked'[i] = [is |-> "packet", to |-> Len(sent) + 1]
             \/ \E j \in DOMAIN asked : asked'[i] = asked[j]
      BY <1>2, <2>2, WriteCount DEF Send
    <2>4. ASSUME NEW i \in DOMAIN asked'
          PROVE  IF asked'[i].is = "packet" THEN asked'[i].to \in 1..Len(sent') ELSE asked'[i].to = 0
      BY <2>1, <2>3, <1>0 DEF Numbered
    <2>5. ASSUME NEW i \in DOMAIN line', line'[i].to > 0
          PROVE  line'[i].is \in Answers /\ line'[i].to <= Len(sent')
      <3>1. i \in DOMAIN line /\ line'[i] = line[i]
        BY <1>2, <2>5 DEF Send, Flushed
      <3>2. line[i].to \in Nat
        BY <3>1, EntryTypes
      <3> QED BY <3>1, <3>2, <2>1, <2>5, <1>0 DEF Numbered
    <2> QED BY <2>4, <2>5 DEF Numbered
  <1>3. CASE Reply
    <2>1. PICK word \in Words : AnsweredBy(word)
      BY <1>3, ReplyIs
    <2>2. /\ sent' = sent /\ 1 \in DOMAIN asked
          /\ \A i \in DOMAIN asked' : \E j \in DOMAIN asked : asked'[i] = asked[j]
      BY <1>3, <2>1, Answered DEF Reply
    <2>3. ASSUME NEW i \in DOMAIN line', line'[i].to > 0
          PROVE  line'[i].is \in Answers /\ line'[i].to <= Len(sent)
      <3>1. CASE i \in DOMAIN line /\ line'[i] = line[i]
        BY <3>1, <2>3 DEF Numbered
      <3>2. CASE line'[i] = [is |-> word, to |-> asked[1].to]
        <4>1. asked[1].is = "packet" /\ asked[1].to \in 1..Len(sent)
          BY <3>2, <2>3, <2>2 DEF Numbered
        <4>2. word \in Answers
          BY <4>1, <2>1 DEF AnsweredBy, Replies
        <4> QED BY <3>2, <4>1, <4>2, <1>0
      <3> QED BY <3>1, <3>2, <2>1, Answered
    <2> QED BY <2>2, <2>3 DEF Numbered
  <1>4. CASE Stray
    BY <1>4, StrayCount DEF Numbered
  <1> QED BY <1>1, <1>2, <1>3, <1>4, QuietOrNot

LEMMA CountStep ==
  TypeOK /\ TypeOK' /\ Numbered /\ Books /\ [Next]_vars => Books'
  <1> SUFFICES ASSUME TypeOK, TypeOK', Numbered, Books, [Next]_vars PROVE Books'
    OBVIOUS
  <1> DEFINE more == IF pc \in {"p", "answer", "over"} THEN 1 ELSE 0
  <1>l. PICK L \in Nat : L = Len(sent)
    BY Typed, LenProperties
  <1>0. L = Len(sent) /\ strays \in Nat /\ \A n : Pending(n) \in Nat /\ Pending(n)' \in Nat
    BY <1>l, Typed, PendingType, PendingTypeNext
  <1>1. CASE QuietStep
    <2>1. Quiet
      BY <1>1, QuietSteps DEF QuietStep
    <2>2. /\ sent' = sent /\ strays' = strays
          /\ \A n \in Nat : Pending(n)' <= Pending(n) + (IF pc' = "p" /\ pc # "p" THEN 1 ELSE 0)
      BY <2>1 DEF Quiet
    <2>3. Pending(L + 1)' <= strays + more'
      <3>1. CASE pc' \in {"p", "answer", "over"} /\ pc \in {"p", "answer", "over"}
        <4>1. ~(pc' = "p" /\ pc # "p")
          BY <1>1, <3>1, Moves
        <4> QED BY <4>1, <3>1, <2>2, <1>0 DEF Books
      <3>2. CASE pc' \in {"p", "answer", "over"} /\ pc \notin {"p", "answer", "over"}
        BY <3>2, <2>2, <1>0 DEF Books
      <3>3. CASE pc' \notin {"p", "answer", "over"} /\ pc \notin {"p", "answer", "over"}
        BY <3>3, <2>2, <1>0 DEF Books
      <3>4. CASE pc' \notin {"p", "answer", "over"} /\ pc \in {"p", "answer", "over"}
        <4>1. HearGoAhead \/ HearAnswer
          BY <1>1, <3>4, Moves
        <4>2. /\ line[1].to \in Nat /\ 1 \in DOMAIN line
              /\ \A n : line[1].to # n => Pending(n)' + 1 <= Pending(n)
          BY <4>1, HeardIsGone, EntryTypes
        <4>3. line[1].to # L + 1
          BY <4>2, <1>0 DEF Numbered
        <4> QED BY <4>2, <4>3, <3>4, <1>0 DEF Books
      <3> QED BY <3>1, <3>2, <3>3, <3>4
    <2>4. sent # <<>> => Pending(L)' <= strays /\ pc' \in {"page", "answer", "over"}
      <3>1. ASSUME sent # <<>> PROVE Pending(L)' <= strays /\ pc' \in {"page", "answer", "over"}
        <4>1. pc \in {"page", "answer", "over"} /\ Pending(L) <= strays
          BY <3>1, <1>0 DEF Books
        <4>2. pc' \in {"page", "answer", "over"} /\ ~(pc' = "p" /\ pc # "p")
          BY <1>1, <4>1, Moves
        <4> QED BY <4>1, <4>2, <2>2, <1>0
      <3> QED BY <3>1
    <2> QED BY <2>2, <2>3, <2>4, <1>0 DEF Books
  <1>2. CASE Send
    <2>1. /\ pc = "page" /\ pc' = "answer" /\ strays' = strays /\ Len(sent') = L + 1
          /\ line' = <<>> \/ line' = line
      BY <1>2, <1>0, Typed, TailFacts, AppendFacts DEF Send, Flushed
    <2>2. [is |-> "packet", to |-> L + 1] \in Request /\ Write([is |-> "packet", to |-> L + 1])
      BY <1>2, <1>0 DEF Send, Request
    <2>3. Pending(L + 1) <= strays
      BY <2>1, <1>0 DEF Books
    <2>4. ASSUME NEW n \in {L + 1, L + 2}
          PROVE  Pending(n)' <= Pending(n) + (IF n = L + 1 THEN 0 ELSE 1)
      <3>1. Cardinality(HotIn(asked', n)) <=
               Cardinality(HotIn(asked, n)) + (IF n = L + 1 THEN 0 ELSE 1)
        <4>1. Cardinality(HotIn(asked', n)) <=
                 Cardinality(HotIn(asked, n)) + (IF "packet" \in Hot /\ L + 1 # n THEN 1 ELSE 0)
          BY <2>2, WriteCount
        <4> QED BY <4>1, <1>0 DEF Hot
      <3>2. Cardinality(HotIn(line', n)) <= Cardinality(HotIn(line, n))
        BY <2>1, NothingPending, PendingType
      <3>3. Cardinality(HotIn(asked', n)) \in Nat /\ Cardinality(HotIn(line', n)) \in Nat
        BY PendingTypeNext
      <3> QED BY <3>1, <3>2, <3>3, PendingType DEF Pending
    <2>5. Pending(L + 2) = Pending(L + 1)
      <3>1. \A i \in DOMAIN asked : asked[i].to # L + 1 /\ asked[i].to # L + 2
        BY <1>0, EntryTypes DEF Numbered
      <3>2. \A i \in DOMAIN line : line[i].to # L + 1 /\ line[i].to # L + 2
        BY <1>0, EntryTypes DEF Numbered
      <3>3. HotIn(asked, L + 2) = HotIn(asked, L + 1) /\ HotIn(line, L + 2) = HotIn(line, L + 1)
        BY <3>1, <3>2 DEF HotIn
      <3> QED BY <3>3 DEF Pending
    <2>6. Pending(L + 1)' <= strays /\ Pending(L + 2)' <= strays + 1
      BY <2>3, <2>4, <2>5, <1>0
    <2> QED BY <2>1, <2>6, <1>0 DEF Books
  <1>3. CASE Reply
    <2>1. UNCHANGED <<sent, strays, pc>>
      BY <1>3 DEF Reply, runner
    <2>2. PICK word \in Words : AnsweredBy(word)
      BY <1>3, ReplyIs
    <2>3. \A n : Pending(n)' <= Pending(n)
      BY <2>2, ReplyCount
    <2>4. Pending(L + 1)' <= strays + more /\ (sent # <<>> => Pending(L)' <= strays)
      BY <2>3, <1>0 DEF Books
    <2> QED BY <2>1, <2>4, <1>0 DEF Books
  <1>4. CASE Stray
    <2>1. UNCHANGED <<sent, pc>> /\ strays' = strays + 1 /\ \A n : Pending(n)' <= Pending(n) + 1
      BY <1>4, StrayCount DEF runner
    <2>2. Pending(L + 1)' <= strays + 1 + more /\ (sent # <<>> => Pending(L)' <= strays + 1)
      BY <2>1, <1>0 DEF Books
    <2> QED BY <2>1, <2>2, <1>0 DEF Books
  <1> QED BY <1>1, <1>2, <1>3, <1>4, QuietOrNot

LEMMA DoneList ==
  ASSUME TypeOK, Lists, todo # <<>>, NEW what, Done(Head(todo), what)
  PROVE  /\ \A i, j \in DOMAIN todo' : todo'[i] = todo'[j] => i = j
         /\ \A i \in DOMAIN todo' : todo'[i] \in queue'
  <1>1. /\ todo' = Tail(todo) /\ Head(todo) = todo[1] /\ 1 \in DOMAIN todo
        /\ \A i \in DOMAIN todo' : i \in Nat /\ i + 1 \in DOMAIN todo /\ todo'[i] = todo[i + 1]
    BY Typed, TailFacts DEF Done
  <1>2. DOMAIN todo' \subseteq Nat \ {0}
    BY <1>1, Typed, TailFacts, LenProperties
  <1>3. ASSUME NEW i \in DOMAIN todo', NEW j \in DOMAIN todo', todo'[i] = todo'[j] PROVE i = j
    <2>1. i + 1 = j + 1
      BY <1>1, <1>3 DEF Lists
    <2> QED BY <2>1, <1>1
  <1>4. ASSUME NEW i \in DOMAIN todo' PROVE todo'[i] \in queue'
    <2>1. i + 1 \in DOMAIN todo /\ todo'[i] = todo[i + 1] /\ todo[i + 1] \in queue
      BY <1>1 DEF Lists
    <2>2. i + 1 # 1
      BY <1>2
    <2>3. todo[i + 1] # todo[1]
      BY <2>1, <2>2, <1>1 DEF Lists
    <2> QED BY <2>1, <2>3, <1>1 DEF Done
  <1> QED BY <1>3, <1>4

LEMMA ListStep == TypeOK /\ Lists /\ [Next]_vars => Lists'
  <1> SUFFICES ASSUME TypeOK, Lists, [Next]_vars PROVE Lists'
    OBVIOUS
  <1>1. CASE HearGoAhead
    <2>1. pc' # "answer" /\ queue' = queue /\ List(queue)
      BY <1>1 DEF HearGoAhead
    <2> QED BY <2>1, ListFacts DEF Lists
  <1>2. CASE Relist
    <2>1. pc' # "answer" /\ queue' = queue /\ List(queue)
      BY <1>2 DEF Relist
    <2> QED BY <2>1, ListFacts DEF Lists
  <1>3. CASE SendTooLong \/ HearAnswer \/ HearNothing
    <2>1. todo # <<>> /\ pc' # "answer"
      BY <1>3 DEF SendTooLong, HearAnswer, HearNothing, Lists
    <2>2. PICK what : Done(Head(todo), what)
      BY <1>3 DEF SendTooLong, HearAnswer, HearNothing
    <2> QED BY <2>1, <2>2, DoneList DEF Lists
  <1>4. CASE Send
    <2>1. /\ sent' = Append(sent, Head(todo)) /\ Head(todo) \in Pages /\ todo # <<>>
          /\ UNCHANGED <<queue, todo>>
      BY <1>4, Typed, TailFacts DEF Send
    <2>2. sent' # <<>> /\ sent'[Len(sent')] = Head(todo)
      <3>1. PICK m \in Pages : m = Head(todo) /\ sent' = Append(sent, m)
        BY <2>1
      <3>2. /\ Append(sent, m) # <<>> /\ Len(Append(sent, m)) = Len(sent) + 1
            /\ Append(sent, m)[Len(sent) + 1] = m
        <4>1. sent \in Seq(Pages)
          BY Typed
        <4>2. Append(sent, m) # <<>>
          BY <4>1, AppendFacts
        <4>3. Len(Append(sent, m)) = Len(sent) + 1
          BY <4>1, AppendFacts
        <4>4. Append(sent, m)[Len(sent) + 1] = m
          BY <4>1, AppendFacts
        <4> QED BY <4>2, <4>3, <4>4
      <3> QED BY <3>1, <3>2
    <2> QED BY <2>1, <2>2 DEF Lists
  <1>5. CASE UNCHANGED <<queue, todo, sent>> /\ (pc' = "answer" => pc = "answer")
    BY <1>5 DEF Lists
  <1>6. CASE \/ Connected \/ NoPort \/ ConnectFails \/ Unconnected \/ WaitFails \/ Ignore
             \/ HearOK \/ HearNoCarrier \/ HearConnect \/ HearID \/ Killed \/ HangUp
             \/ UNCHANGED vars
    <2>1. pc' = "answer" => pc = "answer"
      BY <1>6, Moves DEF QuietStep
    <2>2. UNCHANGED <<queue, todo, sent>>
      BY <1>6 DEF Connected, NoPort, ConnectFails, Unconnected, WaitFails, Ignore, HearOK,
                  HearNoCarrier, HearConnect, HearID, Killed, HangUp, vars, runner, history
    <2> QED BY <1>5, <2>1, <2>2
  <1>7. CASE Reply \/ Stray
    <2>1. UNCHANGED <<queue, todo, sent, pc>>
      BY <1>7 DEF Reply, Stray, runner
    <2> QED BY <1>5, <2>1
  <1> QED BY <1>1, <1>2, <1>3, <1>4, <1>6, <1>7, QuietOrNot DEF QuietStep

\* A terminal that accepts a packet.
LEMMA AcceptFacts ==
  ASSUME TypeOK, Numbered, NEW word \in Words, AnsweredBy(word)
  PROVE  /\ \A m \in Pages : accepts'[m] \in {accepts[m], accepts[m] + 1}
         /\ IF asked[1].is = "packet" /\ word = "ACK"
            THEN /\ asked[1].to \in 1..Len(sent) /\ sent[asked[1].to] \in Pages
                 /\ accepts'[sent[asked[1].to]] = accepts[sent[asked[1].to]] + 1
                 /\ \A m \in Pages \ {sent[asked[1].to]} : accepts'[m] = accepts[m]
            ELSE accepts' = accepts
  <1>1. /\ 1 \in DOMAIN asked /\ asked[1] \in Request
        /\ accepts \in [Pages -> Nat] /\ sent \in Seq(Pages)
    BY Answered, Typed
  <1>2. CASE asked[1].is = "packet" /\ word = "ACK"
    <2>1. asked[1].to \in 1..Len(sent)
      BY <1>1, <1>2 DEF Numbered
    <2>2. sent[asked[1].to] \in Pages
      BY <1>1, <2>1, ElementOfSeq
    <2>3. accepts' = [accepts EXCEPT ![sent[asked[1].to]] = accepts[sent[asked[1].to]] + 1]
      BY <1>2 DEF AnsweredBy
    <2> QED BY <1>1, <1>2, <2>1, <2>2, <2>3
  <1>3. CASE ~(asked[1].is = "packet" /\ word = "ACK")
    BY <1>1, <1>3 DEF AnsweredBy
  <1> QED BY <1>2, <1>3

\* The page an entry with a number is about.
LEMMA Abouts ==
  ASSUME TypeOK, Numbered
  PROVE  /\ \A i \in DOMAIN asked : asked[i].is = "packet" =>
               asked[i].to \in 1..Len(sent) /\ sent[asked[i].to] \in Pages
         /\ \A i \in DOMAIN line : line[i].to > 0 =>
               line[i].to \in 1..Len(sent) /\ sent[line[i].to] \in Pages
  <1>1. Len(sent) \in Nat /\ \A k \in 1..Len(sent) : sent[k] \in Pages
    BY Typed, LenProperties, ElementOfSeq
  <1>2. \A i \in DOMAIN line : line[i].to > 0 => line[i].to \in 1..Len(sent)
    BY <1>1, EntryTypes DEF Numbered
  <1>3. \A i \in DOMAIN asked : asked[i].is = "packet" => asked[i].to \in 1..Len(sent)
    BY DEF Numbered
  <1> QED BY <1>1, <1>2, <1>3

LEMMA AckStep == TypeOK /\ Numbered /\ AcksAreTrue /\ [Next]_vars => AcksAreTrue'
  <1> SUFFICES ASSUME TypeOK, Numbered, AcksAreTrue, [Next]_vars PROVE AcksAreTrue'
    OBVIOUS
  <1>1. CASE QuietStep
    <2>1. UNCHANGED <<sent, accepts>> /\ Fewer(line', line)
      BY <1>1, QuietSteps DEF QuietStep, Quiet
    <2> QED BY <2>1 DEF AcksAreTrue, Fewer
  <1>2. CASE Send
    <2>1. /\ sent' = Append(sent, Head(todo)) /\ Head(todo) \in Pages /\ accepts' = accepts
          /\ \A i \in DOMAIN line' : i \in DOMAIN line /\ line'[i] = line[i]
      BY <1>2, Typed, TailFacts DEF Send, Flushed
    <2>2. \A k \in 1..Len(sent) : sent'[k] = sent[k]
      BY <2>1, Typed, AppendFacts
    <2> QED BY <2>1, <2>2, Abouts DEF AcksAreTrue
  <1>3. CASE Reply
    <2>1. sent' = sent
      BY <1>3 DEF Reply
    <2>2. PICK word \in Words : AnsweredBy(word)
      BY <1>3, ReplyIs
    <2>3. ASSUME NEW i \in DOMAIN line', line'[i].is = "ACK", line'[i].to > 0
          PROVE  accepts'[sent'[line'[i].to]] > 0
      <3>1. CASE i \in DOMAIN line /\ line'[i] = line[i]
        <4>1. accepts[sent[line[i].to]] > 0 /\ sent[line[i].to] \in Pages
          BY <3>1, <2>3, Abouts DEF AcksAreTrue
        <4>2. accepts[sent[line[i].to]] \in Nat
          BY <4>1, Typed
        <4>3. accepts'[sent[line[i].to]] \in {accepts[sent[line[i].to]], accepts[sent[line[i].to]] + 1}
          BY <2>2, <4>1, AcceptFacts
        <4> QED BY <3>1, <2>1, <4>1, <4>2, <4>3
      <3>2. CASE line'[i] = [is |-> word, to |-> asked[1].to]
        <4>1. word = "ACK" /\ asked[1].to > 0 /\ 1 \in DOMAIN asked
          BY <3>2, <2>3, <2>2, Answered
        <4>2. asked[1].is = "packet"
          BY <4>1 DEF Numbered
        <4>3. /\ sent[asked[1].to] \in Pages
              /\ accepts'[sent[asked[1].to]] = accepts[sent[asked[1].to]] + 1
          BY <2>2, <4>1, <4>2, AcceptFacts
        <4>4. accepts[sent[asked[1].to]] \in Nat
          BY <4>3, Typed
        <4> QED BY <3>2, <2>1, <4>3, <4>4
      <3> QED BY <2>2, <3>1, <3>2, Answered
    <2> QED BY <2>3 DEF AcksAreTrue
  <1>4. CASE Stray
    BY <1>4, StrayCount DEF AcksAreTrue
  <1> QED BY <1>1, <1>2, <1>3, <1>4, QuietOrNot

LEMMA GuessStep == TypeOK /\ Lists /\ OneGuess /\ [Next]_vars => OneGuess'
  <1> SUFFICES ASSUME TypeOK, Lists, OneGuess, [Next]_vars PROVE OneGuess'
    OBVIOUS
  <1>1. CASE HearNothing
    <2>1. /\ pc = "answer" /\ pc' = "over" /\ todo # <<>>
          /\ \E what : Done(Head(todo), what)
      BY <1>1 DEF HearNothing, Lists
    <2>2. Head(todo) \in Pages
      BY <2>1, Typed, TailFacts
    <2>4. \A m \in Pages \ {Head(todo)} : fate'[m] = fate[m]
      BY <2>1 DEF Done, TypeOK
    <2>3. \A m \in Pages : fate[m] # "probably delivered"
      BY <2>1 DEF OneGuess
    <2> QED BY <2>1, <2>2, <2>3, <2>4 DEF OneGuess
  <1>2. CASE SendTooLong \/ HearAnswer
    <2>1. /\ pc \in {"page", "answer"} /\ todo # <<>>
          /\ \E what \in {"waiting", "delivered", "failed"} : Done(Head(todo), what)
      BY <1>2 DEF SendTooLong, HearAnswer, Lists, Outcome
    <2>2. Head(todo) \in Pages
      BY <2>1, Typed, TailFacts
    <2>3. \A m \in Pages : fate'[m] = "probably delivered" => fate[m] = "probably delivered"
      BY <2>1, <2>2 DEF Done, TypeOK
    <2>4. \A m \in Pages : fate[m] # "probably delivered"
      BY <2>1 DEF OneGuess
    <2> QED BY <2>3, <2>4 DEF OneGuess
  <1>3. CASE UNCHANGED fate /\ (pc = "over" => pc' = "over")
    BY <1>3 DEF OneGuess
  <1>4. CASE \/ Connected \/ NoPort \/ ConnectFails \/ Unconnected \/ WaitFails \/ Ignore
             \/ HearOK \/ HearNoCarrier \/ HearConnect \/ HearID \/ HearGoAhead \/ Relist
             \/ Killed \/ HangUp \/ UNCHANGED vars
    <2>1. pc = "over" => pc' = "over"
      BY <1>4, Moves DEF QuietStep
    <2>2. UNCHANGED fate
      BY <1>4 DEF Connected, NoPort, ConnectFails, Unconnected, WaitFails, Ignore, HearOK,
                  HearNoCarrier, HearConnect, HearID, HearGoAhead, Relist, Killed, HangUp,
                  vars, runner, history
    <2> QED BY <1>3, <2>1, <2>2
  <1>5. CASE Send \/ Reply \/ Stray
    <2>1. UNCHANGED fate /\ (pc = "over" => pc' = "over")
      BY <1>5 DEF Send, Reply, Stray, runner
    <2> QED BY <1>3, <2>1
  <1> QED BY <1>1, <1>2, <1>4, <1>5, QuietOrNot DEF QuietStep

\* Without stray words one packet at most is under way, or the answer to it, and
\* it is the last one sent.
LEMMA NoneAstray ==
  ASSUME TypeOK, Numbered, Books, strays = 0
  PROVE  /\ \A i \in DOMAIN asked : asked[i].is \in Hot =>
               /\ pc \in {"p", "answer", "over"}
               /\ sent # <<>> => asked[i].to = Len(sent)
               /\ \A j \in DOMAIN asked : asked[j].is \in Hot => i = j
               /\ \A j \in DOMAIN line : line[j].is \notin Hot
         /\ \A i \in DOMAIN line : line[i].is \in Hot => (sent # <<>> => line[i].to = Len(sent))
  <1>l. PICK L \in Nat : L = Len(sent)
    BY Typed, LenProperties
  <1> DEFINE A(n) == HotIn(asked, n)
             B(n) == HotIn(line, n)
  <1>1. ASSUME NEW n
        PROVE  /\ IsFiniteSet(A(n)) /\ IsFiniteSet(B(n))
               /\ Cardinality(A(n)) \in Nat /\ Cardinality(B(n)) \in Nat
    BY Typed, HotCount
  <1>2. /\ \A i \in DOMAIN asked : asked[i].is \in Hot => i \in A(L + 1)
        /\ \A i \in DOMAIN line : line[i].is \in Hot => i \in B(L + 1)
    BY <1>l, EntryTypes DEF Numbered, HotIn
  <1>3. \A i \in DOMAIN asked : asked[i].is \in Hot /\ asked[i].to # L => i \in A(L)
    BY DEF HotIn
  <1>4. \A i \in DOMAIN line : line[i].is \in Hot /\ line[i].to # L => i \in B(L)
    BY DEF HotIn
  <1>5. /\ Cardinality(A(L + 1)) + Cardinality(B(L + 1)) <= (IF pc \in {"p", "answer", "over"} THEN 1 ELSE 0)
        /\ sent # <<>> => Cardinality(A(L)) + Cardinality(B(L)) <= 0
    BY <1>l DEF Books, Pending
  <1> HIDE DEF A, B
  <1>6. ASSUME sent # <<>> PROVE A(L) = {} /\ B(L) = {}
    <2>1. Cardinality(A(L)) = 0 /\ Cardinality(B(L)) = 0
      BY <1>1, <1>5, <1>6
    <2> QED BY <2>1, <1>1, FS_EmptySet
  <1>7. ASSUME NEW i \in A(L + 1)
        PROVE  pc \in {"p", "answer", "over"} /\ A(L + 1) = {i} /\ B(L + 1) = {}
    <2>1. Cardinality(A(L + 1)) # 0
      BY <1>1, <1>7, FS_EmptySet
    <2>2. /\ Cardinality(A(L + 1)) = 1 /\ Cardinality(B(L + 1)) = 0
          /\ pc \in {"p", "answer", "over"}
      BY <2>1, <1>1, <1>5
    <2> QED BY <2>2, <1>1, <1>7, FS_Singleton, FS_EmptySet
  <1> QED BY <1>l, <1>2, <1>3, <1>4, <1>6, <1>7

LEMMA StraightAnswer ==
  ASSUME TypeOK, Numbered, Books, Lists, AcksAreTrue, strays = 0, Straight, HearAnswer
  PROVE  /\ \A m \in Pages : fate'[m] = "delivered" => accepts[m] > 0
         /\ \A m \in queue' : accepts[m] = 0
  <1>1. /\ pc = "answer" /\ todo # <<>> /\ sent # <<>> /\ sent[Len(sent)] = Head(todo)
        /\ Head(todo) \in Pages /\ Done(Head(todo), Outcome(line[1].is))
    BY HeardIsGone, Typed, TailFacts DEF HearAnswer, Lists
  <1>2. line[1].to = Len(sent) /\ 1 \in DOMAIN line
    BY <1>1, HeardIsGone, NoneAstray
  <1>3. Len(sent) > 0
    BY <1>1, Typed, EmptySeq, LenProperties
  <1>4. IF line[1].is = "ACK" THEN accepts[Head(todo)] > 0 ELSE accepts[Head(todo)] = 0
    BY <1>1, <1>2, <1>3 DEF AcksAreTrue, Straight
  <1>5. \A m \in Pages : fate'[m] = "delivered" => fate[m] = "delivered" \/ (m = Head(todo) /\ line[1].is = "ACK")
    <2>1. fate' = [fate EXCEPT ![Head(todo)] = Outcome(line[1].is)]
      BY <1>1 DEF Done
    <2>2. Outcome(line[1].is) = "delivered" => line[1].is = "ACK"
      BY DEF Outcome
    <2> QED BY <2>1, <2>2 DEF TypeOK
  <1>6. ASSUME NEW m \in queue' PROVE accepts[m] = 0
    <2>1. m \in queue /\ m \in Pages /\ accepts[m] \in Nat
      BY <1>1, <1>6, Typed DEF Done
    <2>2. CASE m = Head(todo)
      <3>1. Outcome(line[1].is) = "waiting"
        BY <1>1, <1>6, <2>2 DEF Done
      <3>2. line[1].is # "ACK"
        BY <3>1 DEF Outcome
      <3> QED BY <3>2, <2>2, <1>4
    <2>3. CASE m # Head(todo)
      <3>1. ~(accepts[m] > 0)
        BY <2>1, <2>3, <1>1 DEF Straight
      <3> QED BY <3>1, <2>1
    <2> QED BY <2>2, <2>3
  <1> QED BY <1>4, <1>5, <1>6 DEF Straight

LEMMA StraightQuiet ==
  ASSUME TypeOK, Numbered, Books, Lists, AcksAreTrue, strays = 0, Straight, QuietStep
  PROVE  Straight'
  <1>1. /\ UNCHANGED <<sent, accepts>> /\ LoginOnly(asked', asked) /\ Fewer(line', line)
    BY QuietSteps DEF QuietStep, Quiet
  <1>2. /\ \A m \in Pages : fate'[m] = "delivered" => accepts[m] > 0
        /\ \A m \in queue' : accepts[m] > 0 =>
              pc' \in {"answer", "over"} /\ sent # <<>> /\ m = sent[Len(sent)]
    <2>1. CASE HearAnswer
      <3>1. \A m \in queue' : ~(accepts[m] > 0)
        BY <2>1, StraightAnswer
      <3> QED BY <2>1, <3>1, StraightAnswer
    <2>2. CASE ~HearAnswer
      <3>1. pc \in {"answer", "over"} => pc' \in {"answer", "over"}
        BY <2>2, Moves
      <3>2. CASE SendTooLong \/ HearNothing
        <4>1. todo # <<>> /\ \E what \in {"waiting", "probably delivered"} : Done(Head(todo), what)
          BY <3>2 DEF SendTooLong, HearNothing, Lists
        <4>2. queue' \subseteq queue
          BY <4>1 DEF Done
        <4>3. \A m \in Pages : fate'[m] = "delivered" => fate[m] = "delivered"
          BY <4>1 DEF Done, TypeOK
        <4> QED BY <3>1, <4>2, <4>3 DEF Straight
      <3>3. CASE ~(SendTooLong \/ HearNothing)
        <4>1. UNCHANGED <<queue, fate>>
          BY <2>2, <3>3 DEF QuietStep, Connected, NoPort, ConnectFails, Unconnected, WaitFails,
                  Ignore, HearOK, HearNoCarrier, HearConnect, HearID, HearGoAhead, Relist,
                  Killed, HangUp, vars, runner, history
        <4> QED BY <3>1, <4>1 DEF Straight
      <3> QED BY <3>2, <3>3
    <2> QED BY <2>1, <2>2
  <1>3. \A i \in DOMAIN asked' : asked'[i].is = "packet" => accepts[sent[asked'[i].to]] = 0
    BY <1>1 DEF LoginOnly, Straight
  <1>4. \A i \in DOMAIN line' :
           line'[i].to > 0 /\ line'[i].is # "ACK" => accepts[sent[line'[i].to]] = 0
    BY <1>1 DEF Fewer, Straight
  <1> QED BY <1>1, <1>2, <1>3, <1>4 DEF Straight

LEMMA StraightSend ==
  ASSUME TypeOK, Numbered, Lists, Straight, Send
  PROVE  Straight'
  <1>1. /\ pc = "page" /\ todo # <<>> /\ Head(todo) \in queue /\ Head(todo) \in Pages
        /\ UNCHANGED <<queue, accepts, fate>>
        /\ \A i \in DOMAIN line' : i \in DOMAIN line /\ line'[i] = line[i]
    BY Typed, TailFacts DEF Send, Flushed, Lists
  <1>2. PICK x \in Request : x = [is |-> "packet", to |-> Len(sent) + 1] /\ Write(x)
    <2>1. Len(sent) \in Nat
      BY Typed, LenProperties
    <2> QED BY <2>1 DEF Send, Request
  <1>3. \A k \in 1..Len(sent) : sent'[k] = sent[k]
    BY <1>1, Typed, AppendFacts DEF Send
  <1>4. sent'[Len(sent) + 1] = Head(todo)
    BY <1>1, Typed, AppendFacts DEF Send
  <1>5. \A m \in queue : accepts[m] = 0
    <2>1. \A m \in queue : ~(accepts[m] > 0) /\ accepts[m] \in Nat
      BY <1>1, Typed DEF Straight
    <2> QED BY <2>1
  <1>6. \A i \in DOMAIN asked' : asked'[i] = x \/ \E j \in DOMAIN asked : asked'[i] = asked[j]
    BY <1>2, WriteCount
  <1>7. \A i \in DOMAIN asked' : asked'[i].is = "packet" => accepts[sent'[asked'[i].to]] = 0
    <2>1. \A j \in DOMAIN asked : asked[j].is = "packet" => accepts[sent'[asked[j].to]] = 0
      BY <1>3, Abouts DEF Straight
    <2>2. accepts[sent'[x.to]] = 0
      BY <1>1, <1>2, <1>4, <1>5
    <2> QED BY <1>6, <2>1, <2>2
  <1>8. \A i \in DOMAIN line' :
           line'[i].to > 0 /\ line'[i].is # "ACK" => accepts[sent'[line'[i].to]] = 0
    BY <1>1, <1>3, Abouts DEF Straight
  <1>9. \A m \in queue : ~(accepts[m] > 0)
    BY <1>5
  <1> QED BY <1>1, <1>7, <1>8, <1>9 DEF Straight

LEMMA StraightReply ==
  ASSUME TypeOK, Numbered, Books, strays = 0, Straight, Reply
  PROVE  Straight'
  <1>1. UNCHANGED <<pc, queue, sent, fate>>
    BY DEF Reply, runner
  <1>2. PICK word \in Words : AnsweredBy(word)
    BY ReplyIs
  <1>3. /\ 1 \in DOMAIN asked
        /\ \A i \in DOMAIN asked' : i \in Nat /\ i + 1 \in DOMAIN asked /\ asked'[i] = asked[i + 1]
        /\ \A i \in DOMAIN line' : \/ line'[i] = [is |-> word, to |-> asked[1].to]
                                   \/ i \in DOMAIN line /\ line'[i] = line[i]
    BY <1>2, Answered
  <1>4. CASE asked[1].is = "packet" /\ word = "ACK"
    <2>1. asked[1].is \in Hot
      BY <1>4 DEF Hot
    <2>2. sent # <<>>
      <3>1. asked[1].to \in 1..Len(sent)
        BY <1>3, <1>4 DEF Numbered
      <3> QED BY <3>1
    <2>3. /\ pc \in {"answer", "over"} /\ asked[1].to = Len(sent)
          /\ \A j \in DOMAIN asked : asked[j].is \in Hot => j = 1
          /\ \A j \in DOMAIN line : line[j].is \notin Hot
      BY <1>3, <2>1, <2>2, NoneAstray DEF Books
    <2>4. PICK p \in Pages : /\ p = sent[Len(sent)] /\ accepts[p] = 0 /\ accepts'[p] = accepts[p] + 1
                             /\ \A m \in Pages \ {p} : accepts'[m] = accepts[m]
      <3>1. accepts[sent[asked[1].to]] = 0
        BY <1>3, <1>4 DEF Straight
      <3> QED BY <3>1, <2>3, <1>2, <1>4, AcceptFacts
    <2>5. ASSUME NEW i \in DOMAIN asked' PROVE asked'[i].is # "packet"
      <3>1. i + 1 # 1
        <4>1. DOMAIN asked' = 1..Len(asked')
          BY <1>2, Answered, LenProperties
        <4> QED BY <4>1, <1>3
      <3> QED BY <3>1, <1>3, <2>3 DEF Hot
    <2>6. ASSUME NEW i \in DOMAIN line', line'[i].to > 0, line'[i].is # "ACK" PROVE FALSE
      <3>1. i \in DOMAIN line /\ line'[i] = line[i]
        BY <1>3, <1>4, <2>6
      <3>2. line[i].is \in Answers
        BY <3>1, <2>6 DEF Numbered
      <3> QED BY <3>1, <3>2, <2>3 DEF Hot
    <2>7. \A m \in Pages : fate'[m] = "delivered" => accepts'[m] > 0
      BY <1>1, <2>4 DEF Straight
    <2>8. \A m \in Pages : accepts'[m] <= 1
      BY <2>4 DEF Straight
    <2>9. \A m \in queue' : accepts'[m] > 0 =>
             pc' \in {"answer", "over"} /\ sent' # <<>> /\ m = sent'[Len(sent')]
      BY <1>1, <2>2, <2>3, <2>4, Typed DEF Straight
    <2> QED BY <2>5, <2>6, <2>7, <2>8, <2>9 DEF Straight
  <1>5. CASE ~(asked[1].is = "packet" /\ word = "ACK")
    <2>1. accepts' = accepts
      BY <1>2, <1>5, AcceptFacts
    <2>2. \A i \in DOMAIN asked' : asked'[i].is = "packet" => accepts[sent[asked'[i].to]] = 0
      BY <1>3 DEF Straight
    <2>3. ASSUME NEW i \in DOMAIN line', line'[i].to > 0, line'[i].is # "ACK"
          PROVE  accepts[sent[line'[i].to]] = 0
      <3>1. CASE i \in DOMAIN line /\ line'[i] = line[i]
        BY <2>3, <3>1 DEF Straight
      <3>2. CASE line'[i] = [is |-> word, to |-> asked[1].to]
        <4>1. asked[1].to > 0
          BY <2>3, <3>2
        <4>2. asked[1].is = "packet"
          BY <4>1, <1>3 DEF Numbered
        <4> QED BY <4>2, <3>2, <1>3 DEF Straight
      <3> QED BY <1>3, <3>1, <3>2
    <2> QED BY <1>1, <2>1, <2>2, <2>3 DEF Straight
  <1> QED BY <1>4, <1>5

LEMMA StraightStep ==
  ASSUME TypeOK, Numbered, Books, Lists, AcksAreTrue, strays = 0 => Straight, [Next]_vars
  PROVE  strays' = 0 => Straight'
  <1> SUFFICES ASSUME strays' = 0 PROVE Straight'
    OBVIOUS
  <1>1. CASE Stray
    BY <1>1, Typed DEF Stray
  <1>2. CASE Send \/ Reply
    <2>1. strays = 0
      BY <1>2 DEF Send, Reply
    <2> QED BY <1>2, <2>1, StraightSend, StraightReply
  <1>3. CASE QuietStep
    <2>1. strays = 0
      BY <1>3, QuietSteps DEF Quiet, QuietStep
    <2> QED BY <1>3, <2>1, StraightQuiet
  <1> QED BY <1>1, <1>2, <1>3, QuietOrNot

-----------------------------------------------------------------------------
(* The invariant, and what it says *)

LEMMA InitLine == Init => LineInv
  <1> SUFFICES ASSUME Init PROVE LineInv
    OBVIOUS
  <1>1. TypeOK
    BY InitType
  <1>2. sent = <<>> /\ asked = <<>> /\ line = <<>> /\ todo = <<>> /\ strays = 0 /\ pc = "connect"
    BY DEF Init
  <1>3. Books
    <2>1. Pending(Len(sent) + 1) = 0
      BY <1>2, NothingPending DEF Pending
    <2> QED BY <1>2, <2>1 DEF Books
  <1>4. Numbered /\ Lists /\ AcksAreTrue
    BY <1>2 DEF Numbered, Lists, AcksAreTrue
  <1>5. OneGuess
    BY DEF Init, OneGuess
  <1>6. Straight
    BY <1>2 DEF Init, Straight
  <1> QED BY <1>1, <1>3, <1>4, <1>5, <1>6 DEF LineInv

LEMMA LineStep == LineInv /\ [Next]_vars => LineInv'
  <1> SUFFICES ASSUME LineInv, [Next]_vars PROVE LineInv'
    OBVIOUS
  <1>1. TypeOK /\ Numbered /\ Books /\ Lists /\ AcksAreTrue /\ (strays = 0 => Straight) /\ OneGuess
    BY DEF LineInv
  <1>2. TypeOK' /\ Lists'
    BY <1>1, TypeStep, ListStep
  <1>3. Numbered' /\ Books'
    BY <1>1, <1>2, NumberStep, CountStep
  <1>4. AcksAreTrue' /\ OneGuess'
    BY <1>1, AckStep, GuessStep
  <1>5. strays' = 0 => Straight'
    BY <1>1, StraightStep
  <1> QED BY <1>2, <1>3, <1>4, <1>5 DEF LineInv

LEMMA LineInvariant == Spec => []LineInv
  BY InitLine, LineStep, PTL DEF Spec

(* The state of a call has its types, however many pages wait for the terminal *)
(* and whatever the line does: what answers a request has the number of a      *)
(* packet that was written.                                                    *)
THEOREM LineTypes == Spec => []TypeOK
  <1>1. LineInv => TypeOK
    BY DEF LineInv
  <1> QED BY <1>1, LineInvariant, PTL

(* A page is reported delivered only if the terminal accepted it, as long as   *)
(* the line adds no word of its own: when the runner takes the first character *)
(* that could be an answer, no other answer and no packet can be under way.    *)
THEOREM DeliveredAccepted == Spec => []DeliveredWasAccepted
  <1>1. LineInv => DeliveredWasAccepted
    BY DEF LineInv, Straight, DeliveredWasAccepted
  <1> QED BY <1>1, LineInvariant, PTL

(* And the terminal accepts no page twice in one call: a page it accepted      *)
(* leaves the spool, or is the last the call sends.                            *)
THEOREM NeverAcceptedTwice == Spec => []AcceptedOnce
  <1>1. LineInv => AcceptedOnce
    BY DEF LineInv, Straight, AcceptedOnce
  <1> QED BY <1>1, LineInvariant, PTL

(* With n words the line added, at most n answers to earlier packets are still *)
(* on their way: a stray word shifts the answers by one page, and no loss, late *)
(* answer or deferred page shifts them further.                                *)
THEOREM ShiftBounded == Spec => []ShiftIsBounded
  <1>1. ASSUME LineInv PROVE ShiftIsBounded
    <2>0. TypeOK /\ Numbered /\ Books
      BY <1>1 DEF LineInv
    <2>1. PICK L \in Nat : L = Len(sent)
      BY <2>0, Typed, LenProperties
    <2>2. CASE sent = <<>>
      <3>1. \A i \in DOMAIN line : line[i].to \notin 1..(Len(sent) - 1)
        BY <2>2, EmptySeq, <2>0, EntryTypes
      <3>2. Behind = {}
        BY <3>1 DEF Behind
      <3> QED BY <3>2, <2>0, Typed, FS_EmptySet DEF ShiftIsBounded
    <2>3. CASE sent # <<>>
      <3>1. /\ IsFiniteSet(HotIn(line, L)) /\ Cardinality(HotIn(line, L)) \in Nat
            /\ Cardinality(HotIn(asked, L)) \in Nat
        BY <2>0, Typed, HotCount
      <3>2. \A i \in DOMAIN line : line[i].to \in 1..(L - 1) => line[i].is \in Hot /\ line[i].to # L
        BY <2>0 DEF Numbered, Hot
      <3>3. Behind \subseteq HotIn(line, L)
        BY <2>1, <3>2 DEF Behind, HotIn
      <3>4. Cardinality(Behind) <= Cardinality(HotIn(line, L)) /\ Cardinality(Behind) \in Nat
        BY <3>1, <3>3, FS_Subset, FS_CardinalityType
      <3>5. Cardinality(HotIn(asked, L)) + Cardinality(HotIn(line, L)) <= strays
        BY <2>0, <2>1, <2>3 DEF Books, Pending
      <3>6. strays \in Nat
        BY <2>0, Typed
      <3>7. Cardinality(Behind) <= strays
        BY <3>1, <3>4, <3>5, <3>6
      <3> QED BY <3>7 DEF ShiftIsBounded
    <2> QED BY <2>2, <2>3
  <1> QED BY <1>1, LineInvariant, PTL

(* One page of a call at most leaves the spool as "probably delivered": the    *)
(* runner that gets no answer on a line that is gone ends the call.            *)
THEOREM GuessesOnce == Spec => []OneGuessPerCall
  <1>1. ASSUME LineInv PROVE OneGuessPerCall
    <2> DEFINE G == {m \in Pages : fate[m] = "probably delivered"}
    <2>1. \A m, n \in G : m = n
      BY <1>1 DEF LineInv, OneGuess
    <2> SUFFICES Cardinality(G) <= 1
      BY DEF OneGuessPerCall
    <2>2. CASE G = {}
      <3>1. Cardinality(G) = 0
        BY <2>2, FS_EmptySet
      <3> HIDE DEF G
      <3> QED BY <3>1
    <2>3. CASE G # {}
      <3>1. PICK m : m \in G
        BY <2>3
      <3>2. G = {m}
        BY <2>1, <3>1
      <3>3. Cardinality(G) = 1
        BY <3>2, FS_Singleton
      <3> HIDE DEF G
      <3> QED BY <3>3
    <2> QED BY <2>2, <2>3
  <1> QED BY <1>1, LineInvariant, PTL
=============================================================================
