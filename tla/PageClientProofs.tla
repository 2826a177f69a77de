-------------------------- MODULE PageClientProofs --------------------------
(***************************************************************************)
(* What a program that sends a page may believe, for any message, hold     *)
(* time, priority and limits of the server.  The client knows only its     *)
(* replies and the server only the draft of this connection, so the        *)
(* invariant follows the exchange command by command: which request the    *)
(* server may be reading, what the draft holds by then, and in which       *)
(* states a copy may be in the spool that no killed run accounts for.      *)
(***************************************************************************)
EXTENDS PageClient, SequenceTheorems, TLAPS

(* Commands and replies alternate: the server has a request of the command the *)
(* client is at, or the client has a reply to it; a server that is gone may    *)
(* have left its last request unread.                                          *)
Exchange ==
    /\ reply # "none" => waiting /\ request = "none"
    /\ waiting => client \in Commands \cup {"greeting"}
    /\ request # "none" /\ pc # "closed" => request = client /\ waiting
    /\ pc = "sending" => request = "send"

(* The draft names the one pager from the reply to PAGE on, or nobody and then *)
(* the program knows that a command failed.                                    *)
OnePager ==
    /\ pagers = <<>> \/ Len(pagers) = 1
    /\ client \in {"greeting", "priority", "hold"} => pagers = <<>>
    /\ client = "page" /\ reply # "in range" => pagers = <<>>
    /\ client \in {"greeting", "priority", "hold", "page"} => result = 0
    /\ client \in {"message", "send"} => result = 0 \/ (result = 1 /\ pagers = <<>>)
    /\ client = "message" => reply # "out of range"
    /\ client \in {"quit", "end"} => result \in {0, 1, 2}

Holds == holdfor # 0

\* What the draft may hold once the server has answered the hold.
Heeded ==
    \/ hold = holdfor
    \/ heard = "in summer" /\ hold = HourEarly
    \/ heard = "refused" /\ hold = 0
    \/ heard = "garbled"

(* Until the hold is answered there is none in the draft.  By the time of SEND *)
(* the priority and the hold are there, as the server heard it.                *)
Wishes ==
    /\ High /\ \/ client \in {"hold", "page", "message", "send"}
               \/ client = "priority" /\ reply # "none"
       => priority = Session!PR_HIGH
    /\ client = "hold" => Holds
    /\ client \in {"greeting", "priority"} \/ (client = "hold" /\ reply = "none") => hold = 0
    /\ \/ client \in {"page", "message", "send"}
       \/ client = "hold" /\ reply # "none"
       => Heeded

(* What success stands for. *)
InSpool ==
    /\ stored > 0
    /\ (\E p \in pages : p.whole) \/ lost \/ Session!Truncated(Text)

(* Inside SEND there is one pager; good says whether the text is stored. *)
Sending ==
    /\ message \in {NoMessage, Text}
    /\ pc = "sending" =>
        /\ pagers # <<>> /\ message = Text
        /\ good = 0 \/ (good = 1 /\ next = 2 /\ InSpool)

(* Where a copy may be in the spool that no killed run accounts for. *)
Unexplained ==
    \/ /\ client = "send" /\ waiting /\ pagers # <<>>
       /\ \/ pc = "sending" /\ good = 1
          \/ pc = "closed" /\ reply # "out of range"
          \/ pc = "command" /\ reply = "in range"
    \/ client \in {"quit", "end"} /\ result = 0
    \/ client = "successful"

Stores ==
    /\ stored <= unsure + 1
    /\ stored > unsure => Unexplained
    /\ client = "send" /\ reply = "in range" => InSpool
    /\ client \in {"quit", "end"} /\ result = 0 => InSpool
    /\ client = "successful" => InSpool

ClientInv ==
    TypeOK /\ Exchange /\ OnePager /\ Wishes /\ Sending /\ Stores /\ SentAsAsked

LEMMA NoPager ==
    /\ <<>> \in Seq(Users) /\ <<>> \in Seq(Nat)
    /\ Len(<<>>) = 0
  BY EmptySeq

LEMMA Counters ==
    ASSUME TypeOK
    PROVE  stored \in Nat /\ unsure \in Nat /\ attempts \in Nat
           /\ result \in 0..3
  BY Zenon DEF TypeOK

\* What is asked for on the command line stays what it is.
LEMMA SameHold ==
    ASSUME holdfor' = holdfor
    PROVE  HourEarly' = HourEarly /\ (Holds' <=> Holds)
  BY Zenon DEF HourEarly, Holds

LEMMA SamePages ==
    ASSUME SentAsAsked, holdfor' = holdfor, pages' = pages
    PROVE  SentAsAsked'
  BY SameHold, Zenon DEF SentAsAsked

LEMMA SameSpool ==
    ASSUME stored' = stored, pages' = pages, lost' = lost, wraps' = wraps
    PROVE  InSpool' <=> InSpool
  BY Zenon DEF InSpool, Session!Truncated, Session!Pages

LEMMA OneMore ==
    /\ \A n \in Nat : n + 1 \in Nat
    /\ \A m, n \in Nat : m <= n => m <= n + 1 /\ ~(m > n)
    /\ 0 + 1 = 1 /\ 1 + 1 = 2 /\ 0 # 1 /\ 0 # 2 /\ 1 \in 0..3 /\ 2 \in 0..3
  OBVIOUS

\* Between two runs, and before SEND, every copy is accounted for.
LEMMA AllExplained ==
    ASSUME TypeOK, Stores, client \notin {"send", "quit", "end", "successful"}
    PROVE  stored <= unsure
  <1>1. ~Unexplained
    BY DEF Unexplained
  <1>2. ~(stored > unsure)
    BY <1>1, Zenon DEF Stores
  <1> QED BY <1>2, Counters

LEMMA FewStored ==
    ASSUME TypeOK', stored' <= unsure',
           client' \notin {"quit", "end", "successful"},
           client' = "send" => reply' # "in range"
    PROVE  Stores'
  <1>1. stored' \in Nat /\ unsure' \in Nat
    BY Zenon DEF TypeOK
  <1> QED BY <1>1, OneMore, Zenon DEF Stores

\* The draft of a session that has just begun.
LEMMA FreshTypes ==
    /\ NoMessage \in Messages \cup {NoMessage} /\ NoUser \in Users \cup {NoUser}
    /\ Session!PR_NORMAL \in {Session!PR_HIGH, Session!PR_NORMAL}
    /\ 0 \in Nat /\ 1 \in Nat \ {0} /\ 0 \in 0..3
    /\ <<>> \in Seq(Users) /\ <<>> \in Seq(Nat) /\ Len(<<>>) = 0 /\ {} \subseteq 1..Len(<<>>)
  BY NoPager

LEMMA Start == Init => ClientInv
  <1> SUFFICES ASSUME Init PROVE ClientInv
    OBVIOUS
  <1> USE DEF Init, Session!Init
  <1>1. Session!TypeOK
    <2>1. /\ pc = "command"
          /\ pagers \in Seq(Users) /\ copies \in Seq(Nat) /\ Len(copies) = Len(pagers)
          /\ whole \subseteq 1..Len(pagers) /\ partial \subseteq 1..Len(pagers)
          /\ unwritten \subseteq 1..Len(pagers)
          /\ message \in Messages \cup {NoMessage} /\ logname \in Users \cup {NoUser}
          /\ priority \in {Session!PR_HIGH, Session!PR_NORMAL}
          /\ hold \in Nat /\ room \in Nat /\ tries \in Nat
          /\ next \in Nat \ {0} /\ good \in Nat /\ asked \in Nat /\ failures \in Nat
          /\ sends \in Nat /\ queued \in Nat
      BY FreshTypes
    <2>2. lastsend \in BOOLEAN /\ wraps \in BOOLEAN
      BY Zenon
    <2> QED BY <2>1, <2>2, Zenon DEF Session!TypeOK
  <1>2. TypeOK
    <2>1. /\ program \in {"parsemail", "pushqueue"} /\ client = "start"
          /\ holdfor \in HoldFors
          /\ result \in 0..3 /\ request = "none" /\ reply = "none"
          /\ attempts \in Nat /\ stored \in Nat /\ unsure \in Nat
          /\ pages = {} /\ heard = "nothing"
      BY FreshTypes, ClientAssumption DEF ClientAssumption
    <2>2. waiting \in BOOLEAN /\ lost \in BOOLEAN
      BY Zenon
    <2> QED BY <1>1, <2>1, <2>2 DEF TypeOK, Ears
  <1>3. Exchange /\ OnePager /\ Sending /\ Stores
    BY NoPager DEF Exchange, OnePager, Sending, Stores, Commands
  <1>4. Wishes /\ SentAsAsked
    BY DEF Wishes, Heeded, SentAsAsked
  <1> QED BY <1>2, <1>3, <1>4 DEF ClientInv

-----------------------------------------------------------------------------
(* The program's steps *)

\* A new connection: a draft that names nobody.
LEMMA ConnectStep ==
    ASSUME ClientInv, Connect
    PROVE  ClientInv'
  <1> USE DEF Connect, Session!CleanStuff, history
  <1>1. Session!TypeOK'
    <2>1. /\ pc' = "command"
          /\ pagers' \in Seq(Users) /\ copies' \in Seq(Nat) /\ Len(copies') = Len(pagers')
          /\ whole' \subseteq 1..Len(pagers') /\ partial' \subseteq 1..Len(pagers')
          /\ unwritten' \subseteq 1..Len(pagers')
          /\ message' \in Messages \cup {NoMessage} /\ logname' \in Users \cup {NoUser}
          /\ priority' \in {Session!PR_HIGH, Session!PR_NORMAL}
          /\ hold' \in Nat /\ room' \in Nat /\ tries' \in Nat
          /\ next' \in Nat \ {0} /\ good' \in Nat /\ asked' \in Nat /\ failures' \in Nat
          /\ sends' \in Nat /\ queued' \in Nat
      BY FreshTypes
    <2>2. lastsend' \in BOOLEAN /\ wraps' \in BOOLEAN
      BY Zenon DEF ClientInv, TypeOK, Session!TypeOK
    <2> QED BY <2>1, <2>2, Zenon DEF Session!TypeOK
  <1>2. TypeOK'
    <2>1. /\ client' = "greeting" /\ result' \in 0..3 /\ request' = "none" /\ reply' = "in range"
          /\ attempts' = attempts + 1
      BY FreshTypes
    <2>3. attempts' \in Nat
      BY <2>1, OneMore, Counters, Zenon DEF ClientInv
    <2>2. waiting' \in BOOLEAN /\ lost' \in BOOLEAN /\ heard' \in Ears
      BY Zenon DEF Ears
    <2>4. UNCHANGED <<program, holdfor, stored, pages, unsure>>
      BY DEF arguments
    <2> QED BY <1>1, <2>1, <2>2, <2>3, <2>4, Zenon DEF ClientInv, TypeOK
  <1>3. Exchange' /\ OnePager' /\ Sending'
    <2>1. Exchange' /\ Sending'
      BY DEF Exchange, Sending, Commands
    <2>2. client' = "greeting" /\ pagers' = <<>> /\ reply' = "in range" /\ result' = 0
      OBVIOUS
    <2>3. OnePager'
      <3> HIDE DEF Connect
      <3> QED BY <2>2, NoPager DEF OnePager
    <2> QED BY <2>1, <2>3
  <1>4. Wishes' /\ SentAsAsked'
    <2>1. Wishes'
      BY SameHold DEF ClientInv, Wishes, Heeded, arguments
    <2>2. SentAsAsked'
      BY SamePages DEF ClientInv, arguments
    <2> QED BY <2>1, <2>2
  <1>5. stored <= unsure
    BY AllExplained DEF ClientInv
  <1>6. Stores'
    <2>1. client' = "greeting" /\ stored' <= unsure'
      BY <1>5
    <2> QED BY <1>2, <2>1, FewStored
  <1> QED BY <1>2, <1>3, <1>4, <1>6 DEF ClientInv

\* Steps of the client that leave the session and the books of the spool alone.
LEMMA KeepTypes ==
    ASSUME TypeOK, UNCHANGED <<sessionVars, arguments, pages, lost, heard>>,
           client' \in Commands \cup {"start", "greeting", "end", "deferred", "killed",
                                      "successful"},
           waiting' \in BOOLEAN, result' \in 0..3,
           request' \in Commands \cup {"none"},
           reply' \in {"none", "in range", "out of range"},
           attempts' \in Nat, stored' \in Nat, unsure' \in Nat
    PROVE  TypeOK'
  <1>1. Session!TypeOK'
    BY DEF TypeOK, Session!TypeOK, sessionVars
  <1> QED BY <1>1 DEF TypeOK, arguments

LEMMA ConnectFailsStep ==
    ASSUME ClientInv, ConnectFails
    PROVE  ClientInv'
  <1> USE DEF ConnectFails, history
  <1>1. TypeOK'
    <2>1. attempts' \in Nat
      BY Counters DEF ClientInv
    <2> QED BY <2>1, KeepTypes DEF ClientInv, TypeOK
  <1>2. Exchange' /\ OnePager' /\ Sending'
    BY SameSpool DEF ClientInv, Exchange, OnePager, Sending, sessionVars, Commands
  <1>3. Wishes' /\ SentAsAsked'
    <2>1. Wishes'
      BY SameHold DEF ClientInv, Wishes, Heeded, sessionVars, arguments
    <2>2. SentAsAsked'
      BY SamePages DEF ClientInv, sessionVars, arguments
    <2> QED BY <2>1, <2>2
  <1>4. stored <= unsure
    BY AllExplained DEF ClientInv
  <1>5. Stores'
    <2>1. client' \in {"start", "deferred"} /\ stored' <= unsure'
      BY <1>4
    <2> QED BY <1>1, <2>1, FewStored
  <1> QED BY <1>1, <1>2, <1>3, <1>5 DEF ClientInv

LEMMA SayStep ==
    ASSUME ClientInv, Say
    PROVE  ClientInv'
  <1> USE DEF Say, history
  <1>1. TypeOK'
    BY KeepTypes DEF ClientInv, TypeOK
  <1>2. reply = "none" /\ pc # "sending"
    BY DEF ClientInv, Exchange, Commands
  <1>3. Exchange' /\ OnePager' /\ Sending'
    BY <1>2, SameSpool DEF ClientInv, Exchange, OnePager, Sending, sessionVars, Commands
  <1>4. Wishes' /\ SentAsAsked'
    <2>1. Wishes'
      BY SameHold DEF ClientInv, Wishes, Heeded, sessionVars, arguments
    <2>2. SentAsAsked'
      BY SamePages DEF ClientInv, sessionVars, arguments
    <2> QED BY <2>1, <2>2
  <1>5. Stores'
    BY SameSpool DEF ClientInv, Stores, Unexplained, sessionVars
  <1> QED BY <1>1, <1>3, <1>4, <1>5 DEF ClientInv

\* The order of the commands.
LEMMA Order ==
    ASSUME program \in {"parsemail", "pushqueue"}, client \in Commands \cup {"greeting"}
    PROVE  /\ After(client) \in Commands \cup {"end"}
           /\ client \in {"greeting", "priority", "hold"}
                => After(client) \in {"priority", "hold", "page"}
           /\ client = "greeting" /\ High => After(client) = "priority"
           /\ client # "greeting" => After(client) # "priority"
           /\ After(client) = "hold" => Holds
           /\ client \in {"greeting", "priority"} /\ After(client) = "page" => ~Holds
           /\ client = "hold" => After(client) = "page"
           /\ client = "page" => After(client) = "message"
           /\ client = "message" => After(client) = "send"
           /\ client \in {"send", "quit"} => After(client) \in {"quit", "end"}
  BY DEF After, Commands, Holds

\* The reply is read, and the next command depends on what the program wants.
LEMMA HearStep ==
    ASSUME ClientInv, Hear
    PROVE  ClientInv'
  <1> USE DEF Hear, history
  <1>1. /\ client \in Commands \cup {"greeting"} /\ request = "none" /\ pc # "sending"
        /\ program \in {"parsemail", "pushqueue"}
        /\ reply \in {"in range", "out of range"}
    BY DEF ClientInv, Exchange, TypeOK
  <1>2. /\ client' = After(client) /\ client' \in Commands \cup {"end"}
        /\ result' = IF reply = "out of range" /\ client \in {"page", "message", "send"}
                     THEN result + 1 ELSE result
    BY <1>1, Order DEF Counted
  <1>3. TypeOK'
    <2>1. result \in 0..3
      BY Counters DEF ClientInv
    <2>2. client \in {"page", "message", "send"} => result \in {0, 1}
      BY DEF ClientInv, OnePager
    <2>3. result' \in 0..3
      <3>1. result' = result \/ result' = 1 \/ result' = 2
        BY <1>2, <2>2, OneMore, Zenon
      <3> QED BY <2>1, <3>1, OneMore, Zenon
    <2> QED BY <1>2, <2>3, KeepTypes DEF ClientInv, TypeOK, Commands
  <1>4. Exchange' /\ Sending'
    BY <1>1, SameSpool DEF ClientInv, Exchange, Sending, sessionVars
  <1>5. OnePager'
    <2>1. reply' = "none" /\ pagers' = pagers /\ OnePager
      BY DEF ClientInv, sessionVars
    <2> QED BY <1>1, <1>2, <2>1, Order, OneMore DEF OnePager, Commands
  <1>6. Wishes' /\ SentAsAsked'
    <2>1. /\ priority' = priority /\ hold' = hold /\ holdfor' = holdfor
          /\ heard' = heard /\ pages' = pages /\ reply' = "none"
      BY DEF sessionVars, arguments
    <2>2. Wishes /\ SentAsAsked /\ (Holds' <=> Holds) /\ (Heeded' <=> Heeded)
      BY <2>1, SameHold DEF ClientInv, Heeded
    <2>3. High /\ client' \in {"hold", "page", "message", "send"} => priority = Session!PR_HIGH
      <3>1. High /\ client' \in {"hold", "page", "message", "send"}
              => \/ client \in {"hold", "page", "message", "send"}
                 \/ client = "priority" /\ reply # "none"
        BY <1>1, <1>2, Order DEF Commands
      <3> QED BY <2>2, <3>1, Zenon DEF Wishes
    <2>4. client' = "hold" => Holds
      BY <1>1, <1>2, Order
    <2>5. client' # "greeting" /\ (client' \in {"priority", "hold"} => hold = 0)
      <3>1. client' \in {"priority", "hold"} => client \in {"greeting", "priority"}
        BY <1>1, <1>2, Order DEF Commands
      <3>2. client' # "greeting"
        BY <1>2 DEF Commands
      <3> QED BY <2>2, <3>1, <3>2, Zenon DEF Wishes
    <2>6. client' \in {"page", "message", "send"} => Heeded
      <3>1. CASE client \in {"greeting", "priority"}
        <4>1. client' = "page" => ~Holds
          BY <1>2, <3>1, Order, <1>1
        <4>2. hold = 0
          BY <2>2, <3>1, Zenon DEF Wishes
        <4>3. client' \notin {"message", "send"}
          BY <1>1, <1>2, <3>1, Order
        <4> QED BY <4>1, <4>2, <4>3, Zenon DEF Holds, Heeded
      <3>2. CASE client \notin {"greeting", "priority"}
        <4>1. client' \in {"page", "message", "send"}
                => client \in {"page", "message", "send"} \/ (client = "hold" /\ reply # "none")
          BY <1>1, <1>2, <3>2, Order DEF Commands
        <4> QED BY <2>2, <4>1, Zenon DEF Wishes
      <3> QED BY <3>1, <3>2
    <2>7. Wishes'
      BY <2>1, <2>2, <2>3, <2>4, <2>5, <2>6 DEF Wishes
    <2>8. SentAsAsked'
      BY <2>1, <2>2, SamePages
    <2> QED BY <2>7, <2>8
  <1>7. Stores'
    <2>1. CASE client = "send"
      <3>1. /\ client' \in {"quit", "end"}
            /\ result' = IF reply = "out of range" THEN result + 1 ELSE result
        BY <1>1, <2>1 DEF After, Counted
      <3>2. /\ result \in {0, 1}
            /\ result = 1 => pagers = <<>>
        <4> HIDE DEF Hear
        <4> QED BY <2>1 DEF ClientInv, OnePager
      <3>3. stored > unsure => pagers # <<>> /\ reply = "in range"
        BY <1>1, <2>1 DEF ClientInv, Stores, Unexplained
      <3>4. result' = 0 => reply = "in range" /\ InSpool
        <4>1. reply = "in range" => InSpool
          BY <2>1 DEF ClientInv, Stores
        <4> QED BY <1>1, <3>1, <3>2, <4>1, OneMore, Zenon
      <3>5. stored > unsure => result' = 0
        BY <1>1, <3>1, <3>2, <3>3
      <3>6. InSpool' <=> InSpool
        BY SameSpool DEF sessionVars
      <3> QED BY <3>1, <3>4, <3>5, <3>6 DEF ClientInv, Stores, Unexplained
    <2>2. CASE client = "quit"
      <3>1. client' = "end" /\ result' = result /\ stored' = stored /\ unsure' = unsure
        BY <2>2 DEF ClientInv, OnePager, After, Counted, Exchange
      <3>2. InSpool' <=> InSpool
        BY SameSpool DEF sessionVars
      <3> HIDE DEF Hear
      <3> QED BY <2>2, <3>1, <3>2 DEF ClientInv, Stores, Unexplained
    <2>3. CASE client \notin {"send", "quit"}
      <3>1. ~Unexplained /\ client' \notin {"quit", "end", "successful"}
        BY <1>1, <2>3 DEF Unexplained, After, Commands
      <3> QED BY <1>1, <3>1 DEF ClientInv, Stores
    <2> QED BY <2>1, <2>2, <2>3
  <1> QED BY <1>3, <1>4, <1>5, <1>6, <1>7 DEF ClientInv

\* Killed in SEND or after it: one more run that may have stored its page.
LEMMA AbortStep ==
    ASSUME ClientInv, Abort
    PROVE  ClientInv'
  <1> USE DEF Abort
  <1>1. unsure' \in Nat
    BY DEF ClientInv, TypeOK
  <1>2. TypeOK'
    BY <1>1, KeepTypes DEF ClientInv, TypeOK
  <1>3. Exchange' /\ OnePager' /\ Sending'
    BY SameSpool DEF ClientInv, Exchange, OnePager, Sending, sessionVars, Commands
  <1>4. Wishes' /\ SentAsAsked'
    <2>1. Wishes'
      BY SameHold DEF ClientInv, Wishes, Heeded, sessionVars, arguments
    <2>2. SentAsAsked'
      BY SamePages DEF ClientInv, sessionVars, arguments
    <2> QED BY <2>1, <2>2
  <1>5. stored <= unsure'
    <2>1. stored \in Nat /\ unsure \in Nat
      BY DEF ClientInv, TypeOK
    <2>2. CASE (client = "quit" /\ result = 0) \/ (client = "send" /\ waiting)
      BY <2>1, <2>2 DEF ClientInv, Stores
    <2>3. CASE ~((client = "quit" /\ result = 0) \/ (client = "send" /\ waiting))
      <3>1. ~Unexplained
        BY <2>3 DEF Unexplained, Commands
      <3> QED BY <2>1, <2>3, <3>1 DEF ClientInv, Stores
    <2> QED BY <2>2, <2>3
  <1>6. Stores'
    <2>1. client' = "killed" /\ stored' <= unsure'
      BY <1>5
    <2> QED BY <1>2, <2>1, FewStored
  <1> QED BY <1>2, <1>3, <1>4, <1>6 DEF ClientInv

LEMMA EndStep ==
    ASSUME ClientInv, End
    PROVE  ClientInv'
  <1> USE DEF End, history
  <1>1. TypeOK'
    BY KeepTypes DEF ClientInv, TypeOK
  <1>2. Exchange' /\ OnePager' /\ Sending'
    BY SameSpool DEF ClientInv, Exchange, OnePager, Sending, sessionVars, Commands
  <1>3. Wishes' /\ SentAsAsked'
    <2>1. Wishes'
      BY SameHold DEF ClientInv, Wishes, Heeded, sessionVars, arguments
    <2>2. SentAsAsked'
      BY SamePages DEF ClientInv, sessionVars, arguments
    <2> QED BY <2>1, <2>2
  <1>4. Stores'
    BY SameSpool DEF ClientInv, Stores, Unexplained, sessionVars
  <1> QED BY <1>1, <1>2, <1>3, <1>4 DEF ClientInv

LEMMA EndKilledStep ==
    ASSUME ClientInv, EndKilled
    PROVE  ClientInv'
  <1> USE DEF EndKilled
  <1>1. TypeOK'
    <2>1. unsure' \in Nat
      BY Counters DEF ClientInv
    <2> QED BY <2>1, KeepTypes DEF ClientInv, TypeOK
  <1>2. Exchange' /\ OnePager' /\ Sending'
    BY SameSpool DEF ClientInv, Exchange, OnePager, Sending, sessionVars, Commands
  <1>3. Wishes' /\ SentAsAsked'
    <2>1. Wishes'
      BY SameHold DEF ClientInv, Wishes, Heeded, sessionVars, arguments
    <2>2. SentAsAsked'
      BY SamePages DEF ClientInv, sessionVars, arguments
    <2> QED BY <2>1, <2>2
  <1>4. Stores'
    <2>1. stored' <= unsure' /\ client' = "killed"
      BY Counters DEF ClientInv, Stores, Unexplained
    <2> QED BY <1>1, <2>1, FewStored
  <1> QED BY <1>1, <1>2, <1>3, <1>4 DEF ClientInv

LEMMA AgainStep ==
    ASSUME ClientInv, Again
    PROVE  ClientInv'
  <1> USE DEF Again, history
  <1>1. TypeOK'
    BY DEF ClientInv, TypeOK, Session!TypeOK, arguments
  <1>2. Exchange' /\ OnePager' /\ Sending'
    BY SameSpool DEF ClientInv, Exchange, OnePager, Sending, Commands
  <1>3. Wishes' /\ SentAsAsked'
    <2>1. Wishes'
      BY SameHold DEF ClientInv, Wishes, Heeded, arguments
    <2>2. SentAsAsked'
      BY SamePages DEF ClientInv, arguments
    <2> QED BY <2>1, <2>2
  <1>4. stored <= unsure
    BY AllExplained DEF ClientInv
  <1>5. Stores'
    <2>1. client' \in {"start", "deferred"} /\ stored' <= unsure'
      BY <1>4
    <2> QED BY <1>1, <2>1, FewStored
  <1> QED BY <1>1, <1>2, <1>3, <1>5 DEF ClientInv

-----------------------------------------------------------------------------
(* The session's steps *)

\* The server has a request, and the client waits for the reply.
LEMMA Served ==
    ASSUME ClientInv, request # "none", pc # "closed"
    PROVE  /\ client = request /\ client \in Commands /\ waiting /\ reply = "none"
           /\ result \in Nat /\ stored \in Nat /\ unsure \in Nat
  <1>1. client = request /\ waiting /\ reply = "none"
    BY DEF ClientInv, Exchange
  <1>2. request \in Commands
    BY DEF ClientInv, TypeOK
  <1>3. result \in Nat /\ stored \in Nat /\ unsure \in Nat
    BY Counters DEF ClientInv
  <1> QED BY <1>1, <1>2, <1>3

\* The session's commands keep its types, whoever gives them.
LEMMA SessionNumbers ==
    ASSUME Session!TypeOK
    PROVE  /\ pagers \in Seq(Users) /\ copies \in Seq(Nat) /\ Len(copies) = Len(pagers)
           /\ Len(pagers) \in Nat
           /\ whole \subseteq 1..Len(pagers) /\ partial \subseteq 1..Len(pagers)
           /\ unwritten \subseteq 1..Len(pagers)
           /\ room \in Nat /\ next \in Nat \ {0} /\ good \in Nat
           /\ failures \in Nat /\ sends \in Nat /\ queued \in Nat
  <1>1. pagers \in Seq(Users) /\ copies \in Seq(Nat) /\ Len(copies) = Len(pagers)
    BY Zenon DEF Session!TypeOK
  <1>2. /\ whole \subseteq 1..Len(pagers) /\ partial \subseteq 1..Len(pagers)
        /\ unwritten \subseteq 1..Len(pagers)
        /\ room \in Nat /\ next \in Nat \ {0} /\ good \in Nat
        /\ failures \in Nat /\ sends \in Nat /\ queued \in Nat
    BY Zenon DEF Session!TypeOK
  <1> QED BY <1>1, <1>2, LenProperties

LEMMA PageTypes ==
    ASSUME Session!TypeOK, Session!Page(To) \/ Session!PageRefused
    PROVE  Session!TypeOK'
  <1> USE SessionNumbers
  <1>1. CASE Session!Page(To)
    <2>1. /\ pagers' = Append(pagers, To) /\ copies' = Append(copies, 0)
          /\ room' = Session!Grown
      BY <1>1 DEF Session!Page
    <2>2. pagers' \in Seq(Users) /\ Len(pagers') = Len(pagers) + 1
      BY <2>1, AppendProperties, ClientAssumption DEF ClientAssumption
    <2>3. copies' \in Seq(Nat) /\ Len(copies') = Len(copies) + 1
      BY <2>1, AppendProperties
    <2>4. 1..Len(pagers) \subseteq 1..(Len(pagers) + 1)
      OBVIOUS
    <2>5. /\ whole' \subseteq 1..Len(pagers') /\ partial' \subseteq 1..Len(pagers')
          /\ unwritten' \subseteq 1..Len(pagers')
      BY <1>1, <2>2, <2>4 DEF Session!Page
    <2>6. room' \in Nat
      BY <2>1 DEF Session!Grown, Session!Allocated
    <2>7. UNCHANGED <<pc, message, priority, hold, lastsend, logname, tries, wraps, next, good, asked,
                      failures, sends, queued>>
      BY <1>1 DEF Session!Page, Session!loop
    <2> QED BY <2>2, <2>3, <2>5, <2>6, <2>7 DEF Session!TypeOK
  <1>2. CASE Session!PageRefused
    <2>1. room' \in Nat
      BY <1>2 DEF Session!PageRefused, Session!Allocated
    <2>2. UNCHANGED <<pc, pagers, message, priority, hold, lastsend, logname, tries, wraps, next, good,
                      copies, whole, partial, unwritten, asked, failures, sends, queued>>
      BY <1>2 DEF Session!PageRefused, Session!loop, Session!history, Session!files
    <2> QED BY <2>1, <2>2 DEF Session!TypeOK
  <1> QED BY <1>1, <1>2

LEMMA DraftTypes ==
    ASSUME Session!TypeOK, NEW t \in Nat,
           Session!Mess(Text) \/ Session!Priority \/ Session!HoldUntil(t) \/ Session!Quit
    PROVE  Session!TypeOK'
  <1>1. CASE Session!Mess(Text) \/ Session!Priority \/ Session!HoldUntil(t)
    <2>1. /\ message' \in Messages \cup {NoMessage}
          /\ priority' \in {Session!PR_HIGH, Session!PR_NORMAL}
          /\ hold' \in Nat
          /\ pc' = "command"
      BY <1>1, ClientAssumption
      DEF Session!TypeOK, Session!Mess, Session!Priority, Session!HoldUntil, ClientAssumption
    <2>2. UNCHANGED <<pc, pagers, room, lastsend, logname, tries, wraps, next, good, copies, whole, partial, unwritten, asked,
                      failures, sends, queued>>
      BY <1>1 DEF Session!Mess, Session!Priority, Session!HoldUntil, Session!loop, Session!history,
                  Session!files
    <2> QED BY <2>1, <2>2 DEF Session!TypeOK
  <1>2. CASE Session!Quit
    <2>1. /\ pagers' \in Seq(Users) /\ copies' \in Seq(Nat) /\ Len(copies') = Len(pagers')
          /\ whole' \subseteq 1..Len(pagers') /\ partial' \subseteq 1..Len(pagers')
          /\ unwritten' \subseteq 1..Len(pagers')
          /\ message' \in Messages \cup {NoMessage} /\ logname' \in Users \cup {NoUser}
          /\ priority' \in {Session!PR_HIGH, Session!PR_NORMAL}
          /\ hold' \in Nat /\ room' \in Nat
          /\ asked' \in Nat /\ failures' \in Nat
      BY <1>2, FreshTypes DEF Session!Quit, Session!CleanStuff
    <2>2. lastsend' \in BOOLEAN
      BY <1>2, Zenon DEF Session!Quit, Session!CleanStuff
    <2>3. pc' = "closed" /\ UNCHANGED <<tries, wraps, next, good, sends, queued>>
      BY <1>2 DEF Session!Quit, Session!loop
    <2>4. /\ tries' \in Nat /\ wraps' \in BOOLEAN /\ next' \in Nat \ {0} /\ good' \in Nat
          /\ sends' \in Nat /\ queued' \in Nat
      BY <2>3 DEF Session!TypeOK
    <2> QED BY <2>1, <2>2, <2>3, <2>4, Zenon DEF Session!TypeOK
  <1> QED BY <1>1, <1>2

LEMMA SendTypes ==
    ASSUME Session!TypeOK, Session!Send \/ Session!SendReply
    PROVE  Session!TypeOK'
  <1> USE SessionNumbers
  <1>1. CASE Session!Send
    <2>1. /\ pc' = "sending" /\ message' = message /\ message # NoMessage
          /\ next' = 1 /\ good' = 0 /\ sends' = sends + 1
          /\ UNCHANGED <<pagers, room, priority, hold, lastsend, logname, tries, wraps,
                         copies, whole, partial, unwritten, asked, failures, queued>>
      BY <1>1 DEF Session!Send, Session!draft, Session!files
    <2>2. sends' \in Nat /\ next' \in Nat \ {0} /\ good' \in Nat
      BY <2>1
    <2>3. message' \in Messages
      BY <2>1 DEF Session!TypeOK
    <2> QED BY <2>1, <2>2, <2>3, Zenon DEF Session!TypeOK
  <1>2. CASE Session!SendReply
    <2>1. /\ pc' = "command"
          /\ asked' \in Nat /\ failures' \in Nat /\ queued' \in Nat
      BY <1>2, OneMore DEF Session!SendReply, Session!TypeOK
    <2>2. lastsend' \in BOOLEAN
      BY <1>2, Zenon DEF Session!SendReply
    <2>3. UNCHANGED <<pagers, room, message, priority, hold, logname, tries, wraps, next, good, copies,
                      whole, partial, unwritten, sends>>
      BY <1>2 DEF Session!SendReply, Session!loop, Session!files
    <2> QED BY <2>1, <2>2, <2>3 DEF Session!TypeOK
  <1> QED BY <1>1, <1>2

LEMMA StoreTypes ==
    ASSUME Session!TypeOK, NEW written \in BOOLEAN,
           Session!StoreSucceeds(written) \/ Session!StoreFails
    PROVE  Session!TypeOK'
  <1> USE SessionNumbers
  <1>1. next \in 1..Len(pagers) /\ next' = next + 1
    BY DEF Session!StoreSucceeds, Session!StoreFails
  <1>2. next' \in Nat \ {0}
    BY <1>1
  <1>3. /\ UNCHANGED <<pc, pagers, room, message, priority, hold, lastsend, logname, tries, wraps,
                       asked, failures, sends, queued>>
        /\ whole' \in {whole, whole \cup {next}}
        /\ partial' \in {partial, partial \cup {next}}
        /\ unwritten' \in {unwritten, unwritten \cup {next}}
    <2>1. CASE Session!StoreSucceeds(written)
      BY <2>1, Zenon DEF Session!StoreSucceeds, Session!draft
    <2>2. CASE Session!StoreFails
      BY <2>2, Zenon DEF Session!StoreFails, Session!draft
    <2> QED BY <2>1, <2>2
  <1>4. /\ whole' \subseteq 1..Len(pagers') /\ partial' \subseteq 1..Len(pagers')
        /\ unwritten' \subseteq 1..Len(pagers')
    BY <1>1, <1>3
  <1>5. CASE Session!StoreSucceeds(written)
    <2>1. good' = good + 1 /\ copies' = [copies EXCEPT ![next] = @ + 1]
      BY <1>5 DEF Session!StoreSucceeds
    <2>2. copies[next] \in Nat
      BY <1>1, ElementOfSeq
    <2>3. copies' \in Seq(Nat) /\ Len(copies') = Len(copies)
      BY <1>1, <2>1, <2>2, ExceptSeq
    <2>4. good' \in Nat
      BY <2>1
    <2> QED BY <1>2, <1>3, <1>4, <2>3, <2>4 DEF Session!TypeOK
  <1>6. CASE Session!StoreFails
    <2>1. good' = good /\ copies' = copies
      BY <1>6 DEF Session!StoreFails
    <2> QED BY <1>2, <1>3, <1>4, <2>1 DEF Session!TypeOK
  <1> QED BY <1>5, <1>6

LEMMA ServerTypes ==
    ASSUME TypeOK, Session!TypeOK', UNCHANGED <<arguments, clientVars, unsure>>,
           request' \in Commands \cup {"none"},
           reply' \in {"none", "in range", "out of range"},
           stored' \in Nat, lost' \in BOOLEAN, heard' \in Ears,
           pages' \subseteq [priority : {Session!PR_HIGH, Session!PR_NORMAL}, hold : Nat,
                              whole : BOOLEAN, heard : Ears]
    PROVE  TypeOK'
  BY DEF TypeOK, clientVars, arguments

LEMMA ServePageStep ==
    ASSUME ClientInv, ServePage
    PROVE  ClientInv'
  <1>1. /\ request = "page" /\ pc = "command" /\ pc' = pc /\ request' = "none"
        /\ client' = client /\ waiting' = waiting /\ result' = result /\ holdfor' = holdfor
        /\ priority' = priority /\ hold' = hold /\ message' = message
        /\ UNCHANGED history
    BY DEF ServePage, Answer, clientVars, arguments, Session!Page, Session!PageRefused, Session!draft
  <1>2. client = "page" /\ waiting /\ pagers = <<>> /\ result = 0
    BY <1>1, Served DEF ClientInv, OnePager
  <1>3. \/ pagers' = <<>> /\ reply' = "out of range"
        \/ Len(pagers') = 1 /\ reply' = "in range"
    <2>1. CASE Session!Page(To) /\ Answer("in range")
      <3>1. pagers' = Append(pagers, To) /\ reply' = "in range"
        BY <2>1 DEF Session!Page, Answer
      <3>2. Len(Append(pagers, To)) = Len(pagers) + 1 /\ Len(pagers) = 0
        BY <1>2, NoPager, AppendProperties, ClientAssumption DEF ClientAssumption
      <3>3. Len(Append(pagers, To)) = 1
        BY <3>2
      <3> QED BY <3>1, <3>3
    <2>2. CASE Session!PageRefused /\ Answer("out of range")
      BY <1>2, <2>2 DEF Session!PageRefused, Session!draft, Answer
    <2> QED BY <2>1, <2>2 DEF ServePage
  <1>4. TypeOK'
    <2>1. Session!TypeOK'
      BY PageTypes DEF ServePage, ClientInv, TypeOK
    <2> QED BY <2>1, ServerTypes DEF ServePage, Answer, ClientInv, TypeOK, history
  <1>5. Exchange' /\ Sending'
    BY <1>1, <1>2, <1>3 DEF ClientInv, Exchange, Sending, Commands
  <1>6. OnePager'
    BY <1>1, <1>2, <1>3 DEF OnePager
  <1>7. Wishes' /\ SentAsAsked'
    <2>1. Wishes'
      BY <1>1, <1>2, SameHold DEF ClientInv, Wishes, Heeded, history
    <2>2. SentAsAsked'
      BY <1>1, <1>2, SamePages DEF ClientInv, history
    <2> QED BY <2>1, <2>2
  <1>8. Stores'
    <2>1. stored' <= unsure'
      BY <1>1, <1>2, AllExplained DEF ClientInv, history
    <2> QED BY <1>1, <1>2, <1>4, <2>1, FewStored
  <1> QED BY <1>4, <1>5, <1>6, <1>7, <1>8 DEF ClientInv

LEMMA ServeDraftStep ==
    ASSUME ClientInv, ServeDraft
    PROVE  ClientInv'
  <1>1. /\ request \in {"message", "priority", "quit"} /\ pc = "command"
        /\ request' = "none" /\ reply' = "in range"
        /\ client' = client /\ waiting' = waiting /\ result' = result /\ holdfor' = holdfor
        /\ UNCHANGED history
    BY DEF ServeDraft, Answer, clientVars, arguments, Session!Mess, Session!Priority, Session!Quit
  <1>2. client = request /\ waiting /\ reply = "none"
    BY <1>1, Served
  <1>3. /\ pc' = "command" \/ (pc' = "closed" /\ request = "quit")
        /\ request = "quit" \/ pagers' = pagers
        /\ message' \in {message, NoMessage, Text} /\ wraps' = wraps
    BY DEF ServeDraft, Session!Mess, Session!Priority, Session!Quit, Session!CleanStuff
  <1>4. TypeOK'
    <2>1. Session!TypeOK'
      BY DraftTypes, FreshTypes DEF ServeDraft, ClientInv, TypeOK
    <2> QED BY <2>1, ServerTypes DEF ServeDraft, Answer, ClientInv, TypeOK, history
  <1>5. Exchange' /\ Sending'
    BY <1>1, <1>2, <1>3 DEF ClientInv, Exchange, Sending, Commands
  <1>6. OnePager'
    <2>1. request = "quit" => pagers' = <<>>
      BY <1>1 DEF ServeDraft, Session!Quit, Session!CleanStuff
    <2> QED BY <1>1, <1>2, <1>3, <2>1 DEF ClientInv, OnePager
  <1>7. Wishes' /\ SentAsAsked'
    <2>1. /\ request = "priority" => priority' = Session!PR_HIGH /\ hold' = hold
          /\ request = "message" => priority' = priority /\ hold' = hold
      BY <1>1 DEF ServeDraft, Session!Mess, Session!Priority
    <2>2. Wishes'
      BY <1>1, <1>2, <2>1, SameHold DEF ClientInv, Wishes, Heeded, history
    <2>3. SentAsAsked'
      BY <1>1, SamePages DEF ClientInv, history
    <2> QED BY <2>2, <2>3
  <1>8. Stores'
    <2>1. CASE client # "quit"
      <3>1. stored' <= unsure'
        BY <1>1, <1>2, <2>1, AllExplained DEF ClientInv, history
      <3> QED BY <1>1, <1>2, <1>4, <2>1, <3>1, FewStored
    <2>2. CASE client = "quit"
      <3>1. stored' = stored /\ unsure' = unsure /\ (InSpool' <=> InSpool)
        BY <1>1, <1>3, SameSpool DEF history
      <3> QED BY <1>1, <2>2, <3>1 DEF ClientInv, Stores, Unexplained
    <2> QED BY <2>1, <2>2
  <1> QED BY <1>4, <1>5, <1>6, <1>7, <1>8 DEF ClientInv

\* What every answer to the hold leaves alone.
HoldOnly ==
    /\ request = "hold" /\ request' = "none"
    /\ pc = "command" /\ pc' = pc
    /\ pagers' = pagers /\ priority' = priority /\ message' = message
    /\ client' = client /\ waiting' = waiting /\ result' = result /\ attempts' = attempts
    /\ program' = program /\ holdfor' = holdfor
    /\ stored' = stored /\ pages' = pages /\ lost' = lost /\ unsure' = unsure

LEMMA HoldServed ==
    ASSUME AnswerHold
    PROVE  HoldOnly
  <1> USE DEF HoldOnly, clientVars, arguments
  <1>1. CASE GarbleHold
    BY <1>1 DEF GarbleHold, Answer, Session!HoldUntil
  <1>2. CASE RefuseHold
    BY <1>2 DEF RefuseHold, Answer, sessionVars
  <1>3. ASSUME NEW summer \in BOOLEAN, ServeHold(summer)
        PROVE  HoldOnly
    BY <1>3 DEF ServeHold, Answer, Session!HoldUntil
  <1>4. ASSUME NEW summer \in BOOLEAN, IgnoreHold(summer)
        PROVE  HoldOnly
    BY <1>4 DEF IgnoreHold, sessionVars, history
  <1> QED BY <1>1, <1>2, <1>3, <1>4 DEF AnswerHold

\* What a hold becomes that is read and accepted.
LEMMA HeldTime ==
    ASSUME TypeOK, NEW summer \in BOOLEAN
    PROVE  /\ HeldUntil(summer) \in Int
           /\ HeldUntil(summer) = IF summer THEN HourEarly ELSE holdfor
  <1>1. holdfor \in Int /\ GmtOffset \in Int
    BY ClientAssumption DEF ClientAssumption, TypeOK
  <1> QED BY <1>1 DEF HeldUntil, Parsed, FindGMTOffset, HourEarly

\* The draft holds what the server heard, or there is no reply.
LEMMA HoldHeard ==
    ASSUME ClientInv, AnswerHold, HoldOnly, reply = "none", hold = 0
    PROVE  /\ Session!TypeOK' /\ heard' \in Ears
           /\ \/ reply' \in {"in range", "out of range"} /\ Heeded'
              \/ reply' = "none" /\ hold' = 0
  <1>1. CASE GarbleHold
    <2>1. PICK t \in HoldTimes : Session!HoldUntil(t)
      BY <1>1 DEF GarbleHold
    <2>2. t \in Nat
      BY ClientAssumption DEF ClientAssumption
    <2>3. Session!TypeOK'
      BY <2>1, <2>2, DraftTypes DEF ClientInv, TypeOK
    <2> QED BY <1>1, <2>3 DEF GarbleHold, Answer, Heeded, Ears
  <1>2. CASE RefuseHold
    <2>1. Session!TypeOK'
      BY <1>2 DEF RefuseHold, ClientInv, TypeOK, Session!TypeOK, sessionVars
    <2> QED BY <1>2, <2>1 DEF RefuseHold, Answer, Heeded, Ears, sessionVars
  <1>3. ASSUME NEW summer \in BOOLEAN, ServeHold(summer)
        PROVE  Session!TypeOK' /\ heard' \in Ears /\ reply' = "in range" /\ Heeded'
    <2>1. HeldUntil(summer) \in Nat
      <3>1. HeldUntil(summer) \in Int /\ HeldUntil(summer) > 0
        BY <1>3, HeldTime DEF ClientInv, ServeHold
      <3> QED BY <3>1
    <2>2. Session!TypeOK'
      BY <1>3, <2>1, DraftTypes DEF ServeHold, ClientInv, TypeOK
    <2>3. /\ hold' = (IF summer THEN HourEarly ELSE holdfor) /\ holdfor' = holdfor
          /\ heard' = (IF summer THEN "in summer" ELSE "as asked") /\ reply' = "in range"
      BY <1>3, HeldTime DEF ClientInv, ServeHold, Answer, HoldOnly, Session!HoldUntil
    <2>4. Heeded'
      <3>1. CASE summer
        BY <2>3, <3>1, SameHold, Zenon DEF Heeded
      <3>2. CASE ~summer
        BY <2>3, <3>2, SameHold, Zenon DEF Heeded
      <3> QED BY <3>1, <3>2
    <2>5. heard' \in Ears
      BY <2>3, Zenon DEF Ears
    <2> QED BY <2>2, <2>3, <2>4, <2>5
  <1>4. ASSUME NEW summer \in BOOLEAN, IgnoreHold(summer)
        PROVE  Session!TypeOK' /\ heard' \in Ears /\ reply' = "none" /\ hold' = 0
    <2>1. Session!TypeOK'
      BY <1>4 DEF IgnoreHold, ClientInv, TypeOK, Session!TypeOK, sessionVars
    <2> QED BY <1>4, <2>1 DEF IgnoreHold, ClientInv, TypeOK, sessionVars, history
  <1> QED BY <1>1, <1>2, <1>3, <1>4 DEF AnswerHold

LEMMA AnswerHoldStep ==
    ASSUME ClientInv, AnswerHold
    PROVE  ClientInv'
  <1>1. HoldOnly
    BY HoldServed
  <1>2. client = "hold" /\ waiting /\ reply = "none" /\ pagers = <<>> /\ result = 0
    BY <1>1, Served DEF ClientInv, OnePager, HoldOnly
  <1>3. hold = 0 /\ Holds
    BY <1>2 DEF ClientInv, Wishes
  <1>4. /\ Session!TypeOK' /\ heard' \in Ears
        /\ \/ reply' \in {"in range", "out of range"} /\ Heeded'
           \/ reply' = "none" /\ hold' = 0
    BY <1>1, <1>2, <1>3, HoldHeard
  <1>5. TypeOK'
    BY <1>1, <1>4, ServerTypes DEF ClientInv, TypeOK, HoldOnly, clientVars, arguments
  <1>6. Exchange' /\ Sending' /\ OnePager'
    BY <1>1, <1>2, <1>4 DEF ClientInv, Exchange, Sending, OnePager, HoldOnly, Commands
  <1>7. Wishes' /\ SentAsAsked'
    <2>1. Wishes'
      BY <1>1, <1>2, <1>3, <1>4 DEF ClientInv, Wishes, Holds, HoldOnly
    <2>2. SentAsAsked'
      BY <1>1, SamePages DEF ClientInv, HoldOnly
    <2> QED BY <2>1, <2>2
  <1>8. Stores'
    <2>1. stored' <= unsure'
      BY <1>1, <1>2, AllExplained DEF ClientInv, HoldOnly
    <2> QED BY <1>1, <1>2, <1>5, <2>1, FewStored DEF HoldOnly
  <1> QED BY <1>5, <1>6, <1>7, <1>8 DEF ClientInv

-----------------------------------------------------------------------------
(* SEND *)

\* Before SEND begins, every copy is accounted for.
LEMMA NotYetSent ==
    ASSUME ClientInv, request = "send", pc = "command"
    PROVE  stored <= unsure
  <1>1. client = "send" /\ reply = "none"
    BY Served
  <1>2. ~Unexplained
    BY <1>1 DEF Unexplained
  <1>3. ~(stored > unsure)
    BY <1>2, Zenon DEF ClientInv, Stores
  <1> QED BY <1>3, Counters DEF ClientInv

LEMMA ServeSendStep ==
    ASSUME ClientInv, ServeSend
    PROVE  ClientInv'
  <1>1. /\ request = "send" /\ pc = "command" /\ pc' = "sending"
        /\ pagers # <<>> /\ pagers' = pagers /\ good' = 0 /\ next' = 1
        /\ priority' = priority /\ hold' = hold /\ message' = message
        /\ message # NoMessage
        /\ request' = request /\ reply' = reply
        /\ client' = client /\ waiting' = waiting /\ result' = result /\ holdfor' = holdfor
        /\ UNCHANGED history
    BY DEF ServeSend, clientVars, arguments, Session!Send, Session!draft
  <1>2. client = "send" /\ waiting /\ reply = "none"
    BY <1>1, Served
  <1>3. TypeOK'
    <2>1. Session!TypeOK'
      BY SendTypes DEF ServeSend, ClientInv, TypeOK
    <2> QED BY <2>1, ServerTypes DEF ServeSend, ClientInv, TypeOK, history
  <1>4. Exchange' /\ Sending' /\ OnePager'
    BY <1>1, <1>2 DEF ClientInv, Exchange, Sending, OnePager, Commands
  <1>5. Wishes' /\ SentAsAsked'
    <2>1. Wishes'
      BY <1>1, <1>2, SameHold DEF ClientInv, Wishes, Heeded, history
    <2>2. SentAsAsked'
      BY <1>1, <1>2, SamePages DEF ClientInv, history
    <2> QED BY <2>1, <2>2
  <1>6. Stores'
    <2>1. stored' <= unsure'
      BY <1>1, NotYetSent DEF history
    <2> QED BY <1>1, <1>2, <1>3, <2>1, FewStored
  <1> QED BY <1>3, <1>4, <1>5, <1>6 DEF ClientInv

LEMMA RefuseSendStep ==
    ASSUME ClientInv, RefuseSend
    PROVE  ClientInv'
  <1>1. /\ request = "send" /\ pc = "command" /\ pagers = <<>> /\ UNCHANGED sessionVars
        /\ request' = "none" /\ reply' = "out of range"
        /\ client' = client /\ waiting' = waiting /\ result' = result /\ holdfor' = holdfor
        /\ UNCHANGED history
    BY DEF RefuseSend, Answer, clientVars, arguments
  <1>2. client = "send" /\ waiting
    BY <1>1, Served
  <1>3. TypeOK'
    <2>1. Session!TypeOK'
      BY <1>1 DEF ClientInv, TypeOK, Session!TypeOK, sessionVars
    <2> QED BY <2>1, ServerTypes DEF RefuseSend, Answer, ClientInv, TypeOK, history
  <1>4. Exchange' /\ Sending' /\ OnePager'
    BY <1>1, <1>2 DEF ClientInv, Exchange, Sending, OnePager, sessionVars, Commands
  <1>5. Wishes' /\ SentAsAsked'
    <2>1. Wishes'
      BY <1>1, <1>2, SameHold DEF ClientInv, Wishes, Heeded, sessionVars, history
    <2>2. SentAsAsked'
      BY <1>1, <1>2, SamePages DEF ClientInv, sessionVars, history
    <2> QED BY <2>1, <2>2
  <1>6. Stores'
    <2>1. stored' <= unsure'
      BY <1>1, NotYetSent DEF history
    <2> QED BY <1>1, <1>2, <1>3, <2>1, FewStored
  <1> QED BY <1>3, <1>4, <1>5, <1>6 DEF ClientInv

\* The wishes are in the draft by the time of SEND.
LEMMA WishesAreHeard ==
    ASSUME ClientInv, client = "send"
    PROVE  Heeded /\ (High => priority = Session!PR_HIGH)
  BY DEF ClientInv, Wishes

\* The one page of the draft, stored with what the draft says.
LEMMA StoredPage ==
    ASSUME ClientInv, NEW written \in BOOLEAN, Session!StoreSucceeds(written),
           client = "send", message = Text, holdfor' = holdfor,
           lost' = (lost \/ ~written),
           NEW p, p = [priority |-> priority, hold |-> hold, heard |-> heard,
                       whole |-> written /\ ~Session!Truncated(message)],
           pages' = pages \cup {p}
    PROVE  /\ pages' \subseteq [priority : {Session!PR_HIGH, Session!PR_NORMAL}, hold : Nat,
                                whole : BOOLEAN, heard : Ears]
           /\ lost' \in BOOLEAN
           /\ SentAsAsked'
           /\ (\E q \in pages' : q.whole) \/ lost' \/ Session!Truncated(Text)
  <1>1. /\ priority \in {Session!PR_HIGH, Session!PR_NORMAL} /\ hold \in Nat /\ heard \in Ears
        /\ pages \subseteq [priority : {Session!PR_HIGH, Session!PR_NORMAL}, hold : Nat,
                             whole : BOOLEAN, heard : Ears]
    BY DEF ClientInv, TypeOK, Session!TypeOK
  <1>2. (written /\ ~Session!Truncated(message)) \in BOOLEAN /\ lost' \in BOOLEAN
    BY Zenon
  <1>3. p \in [priority : {Session!PR_HIGH, Session!PR_NORMAL}, hold : Nat,
               whole : BOOLEAN, heard : Ears]
    BY <1>1, <1>2
  <1>4. /\ p.priority = priority /\ p.hold = hold /\ p.heard = heard
        /\ p.whole <=> (written /\ ~Session!Truncated(message))
    OBVIOUS
  <1>5. SentAsAsked'
    <2>1. /\ High => p.priority = Session!PR_HIGH
          /\ \/ p.hold = holdfor
             \/ p.heard = "in summer" /\ p.hold = HourEarly
             \/ p.heard = "refused" /\ p.hold = 0
             \/ p.heard = "garbled"
      BY <1>4, WishesAreHeard DEF Heeded
    <2>2. SentAsAsked
      BY DEF ClientInv
    <2> QED BY <2>1, <2>2, SameHold, Zenon DEF SentAsAsked
  <1>6. (\E q \in pages' : q.whole) \/ lost' \/ Session!Truncated(Text)
    <2>1. CASE written /\ ~Session!Truncated(Text)
      BY <1>4, <2>1, Zenon
    <2>2. CASE ~(written /\ ~Session!Truncated(Text))
      BY <2>2, Zenon
    <2> QED BY <2>1, <2>2
  <1> QED BY <1>1, <1>2, <1>3, <1>5, <1>6

LEMMA StoreStep ==
    ASSUME ClientInv, Store
    PROVE  ClientInv'
  <1>1. /\ pc = "sending" /\ pc' = pc /\ pagers' = pagers
        /\ next <= Len(pagers) /\ next' = next + 1
        /\ priority' = priority /\ hold' = hold /\ message' = message
        /\ wraps' = wraps
        /\ request' = request /\ reply' = reply
        /\ client' = client /\ waiting' = waiting /\ result' = result /\ holdfor' = holdfor
        /\ unsure' = unsure /\ heard' = heard
        /\ UNCHANGED <<arguments, clientVars>>
    BY DEF Store, clientVars, arguments, Session!StoreSucceeds, Session!StoreFails, Session!draft
  <1>2. /\ request = "send" /\ client = "send" /\ waiting /\ reply = "none"
        /\ pagers # <<>> /\ message = Text
    BY <1>1, Served DEF ClientInv, Exchange, Sending
  <1>3. Len(pagers) = 1 /\ next = 1 /\ good = 0
    <2>1. next \in Nat \ {0} /\ Len(pagers) = 1
      BY <1>2, SessionNumbers DEF ClientInv, TypeOK, OnePager
    <2>2. next = 1
      BY <1>1, <2>1
    <2> QED BY <1>1, <2>1, <2>2 DEF ClientInv, Sending
  <1>4. stored \in Nat /\ unsure \in Nat /\ stored <= unsure
    <2>1. ~Unexplained
      BY <1>1, <1>2, <1>3 DEF Unexplained
    <2>2. ~(stored > unsure)
      BY <2>1, Zenon DEF ClientInv, Stores
    <2> QED BY <2>2, Counters DEF ClientInv
  <1>5. Exchange' /\ OnePager' /\ Wishes'
    <2>1. Exchange' /\ OnePager'
      BY <1>1, <1>2 DEF ClientInv, Exchange, OnePager
    <2>2. Wishes'
      BY <1>1, <1>2, SameHold DEF ClientInv, Wishes, Heeded
    <2> QED BY <2>1, <2>2
  <1>6. ASSUME NEW written \in BOOLEAN, Session!StoreSucceeds(written), stored' = stored + 1,
               lost' = (lost \/ ~written),
               pages' = pages \cup
                   {[priority |-> priority, hold |-> hold, heard |-> heard,
                     whole |-> written /\ ~Session!Truncated(message)]}
        PROVE  ClientInv'
    <2>1. good' = 1
      BY <1>3, <1>6 DEF Session!StoreSucceeds
    <2>2. /\ pages' \subseteq [priority : {Session!PR_HIGH, Session!PR_NORMAL}, hold : Nat,
                                whole : BOOLEAN, heard : Ears]
          /\ lost' \in BOOLEAN
          /\ SentAsAsked'
          /\ (\E q \in pages' : q.whole) \/ lost' \/ Session!Truncated(Text)
      BY <1>1, <1>2, <1>6, StoredPage
    <2>3. TypeOK'
      <3>1. Session!TypeOK'
        BY <1>6, StoreTypes DEF ClientInv, TypeOK
      <3>2. stored' \in Nat
        BY <1>4, <1>6
      <3> QED BY <1>1, <2>2, <3>1, <3>2, ServerTypes DEF ClientInv, TypeOK
    <2>4. stored' > 0 /\ stored' <= unsure' + 1 /\ next' = 2
      BY <1>1, <1>3, <1>4, <1>6
    <2>5. InSpool'
      <3>1. Session!Truncated(Text)' <=> Session!Truncated(Text)
        BY <1>1 DEF Session!Truncated, Session!Pages
      <3> QED BY <2>2, <2>4, <3>1 DEF InSpool
    <2>6. Unexplained'
      BY <1>1, <1>2, <2>1 DEF Unexplained
    <2>7. Sending' /\ Stores'
      BY <1>1, <1>2, <2>1, <2>4, <2>5, <2>6 DEF Sending, Stores
    <2> QED BY <1>5, <2>2, <2>3, <2>7 DEF ClientInv
  <1>7. CASE Session!StoreFails /\ UNCHANGED <<stored, pages, lost>>
    <2>1. good' = 0
      BY <1>3, <1>7 DEF Session!StoreFails
    <2>2. TypeOK'
      <3>1. Session!TypeOK'
        BY <1>7, StoreTypes DEF ClientInv, TypeOK
      <3> QED BY <1>1, <1>7, <3>1, ServerTypes DEF ClientInv, TypeOK
    <2>3. Sending'
      BY <1>1, <1>2, <2>1 DEF Sending
    <2>4. SentAsAsked'
      BY <1>1, <1>7, SamePages DEF ClientInv
    <2>5. Stores'
      <3>1. stored' <= unsure'
        BY <1>1, <1>4, <1>7
      <3> QED BY <1>1, <1>2, <2>2, <3>1, FewStored
    <2> QED BY <1>5, <2>2, <2>3, <2>4, <2>5 DEF ClientInv
  <1> QED BY <1>6, <1>7 DEF Store

LEMMA AnswerSendStep ==
    ASSUME ClientInv, AnswerSend
    PROVE  ClientInv'
  <1>1. /\ pc = "sending" /\ pc' = "command" /\ pagers' = pagers
        /\ priority' = priority /\ hold' = hold /\ message' = message
        /\ wraps' = wraps
        /\ request' = "none"
        /\ reply' = IF good = Len(pagers) THEN "in range" ELSE "out of range"
        /\ client' = client /\ waiting' = waiting /\ result' = result /\ holdfor' = holdfor
        /\ UNCHANGED history
    BY DEF AnswerSend, Answer, clientVars, arguments, Session!SendReply
  <1>2. /\ client = "send" /\ waiting /\ pagers # <<>> /\ Len(pagers) = 1
        /\ good = 0 \/ (good = 1 /\ InSpool)
    BY <1>1, Served DEF ClientInv, Exchange, Sending, OnePager
  <1>3. reply' = IF good = 1 THEN "in range" ELSE "out of range"
    BY <1>1, <1>2
  <1>4. TypeOK'
    <2>1. Session!TypeOK'
      BY SendTypes DEF AnswerSend, ClientInv, TypeOK
    <2> QED BY <1>1, <2>1, ServerTypes DEF AnswerSend, Answer, ClientInv, TypeOK, history
  <1>5. Exchange' /\ Sending' /\ OnePager'
    BY <1>1, <1>2, <1>3 DEF ClientInv, Exchange, Sending, OnePager, Commands
  <1>6. Wishes' /\ SentAsAsked'
    <2>1. Wishes'
      BY <1>1, <1>2, SameHold DEF ClientInv, Wishes, Heeded, history
    <2>2. SentAsAsked'
      BY <1>1, <1>2, SamePages DEF ClientInv, history
    <2> QED BY <2>1, <2>2
  <1>7. stored' = stored /\ unsure' = unsure /\ (InSpool' <=> InSpool)
    BY <1>1, SameSpool DEF history
  <1>8. Stores'
    <2>1. CASE good = 1
      <3>1. Unexplained'
        BY <1>1, <1>2, <1>3, <2>1 DEF Unexplained
      <3> QED BY <1>1, <1>2, <1>7, <2>1, <3>1, OneMore DEF ClientInv, Stores
    <2>2. CASE good = 0
      <3>1. ~Unexplained
        <4>1. good # 1 /\ pc = "sending" /\ client = "send"
          BY <1>1, <1>2, <2>2, OneMore
        <4> QED BY <4>1 DEF Unexplained
      <3>2. ~(stored > unsure)
        BY <3>1, Zenon DEF ClientInv, Stores
      <3>3. stored' <= unsure'
        BY <1>7, <3>2, Counters DEF ClientInv
      <3>4. reply' = "out of range" /\ client' = "send"
        BY <1>1, <1>2, <1>3, <2>2, OneMore
      <3> QED BY <1>4, <3>3, <3>4, FewStored
    <2> QED BY <1>2, <2>1, <2>2
  <1> QED BY <1>4, <1>5, <1>6, <1>8 DEF ClientInv

\* The server ends at any moment, and leaves a request or a reply behind.
LEMMA AlarmStep ==
    ASSUME ClientInv, Alarm
    PROVE  ClientInv'
  <1>1. /\ pc # "closed" /\ pc' = "closed"
        /\ UNCHANGED <<pagers, room, message, priority, hold, lastsend, logname, tries, wraps, next, good,
                       copies, whole, partial, unwritten, asked, failures, sends, queued>>
        /\ UNCHANGED <<arguments, clientVars, request, reply, history>>
    BY DEF Alarm, Session!Alarm, Session!draft, Session!loop, Session!history, Session!files
  <1>2. TypeOK'
    <2>1. Session!TypeOK'
      BY <1>1 DEF ClientInv, TypeOK, Session!TypeOK
    <2> QED BY <1>1, <2>1, ServerTypes DEF ClientInv, TypeOK, history
  <1>3. Exchange' /\ Sending' /\ OnePager'
    BY <1>1, SameSpool DEF ClientInv, Exchange, Sending, OnePager, clientVars, history
  <1>4. Wishes' /\ SentAsAsked'
    <2>1. Wishes'
      BY <1>1, SameHold DEF ClientInv, Wishes, Heeded, clientVars, arguments, history
    <2>2. SentAsAsked'
      BY <1>1, SamePages DEF ClientInv, clientVars, arguments, history
    <2> QED BY <2>1, <2>2
  <1>5. pc = "sending" => reply = "none"
    BY DEF ClientInv, Exchange
  <1>6. Unexplained => Unexplained'
    BY <1>1, <1>5 DEF Unexplained, clientVars
  <1>7. Stores'
    BY <1>1, <1>6, SameSpool DEF ClientInv, Stores, clientVars, history
  <1> QED BY <1>2, <1>3, <1>4, <1>7 DEF ClientInv

-----------------------------------------------------------------------------
(* The theorems *)

LEMMA Step == ClientInv /\ [Next]_vars => ClientInv'
  <1> SUFFICES ASSUME ClientInv, [Next]_vars PROVE ClientInv'
    OBVIOUS
  <1>1. CASE UNCHANGED vars
    <2>1. TypeOK'
      <3>1. Session!TypeOK'
        BY <1>1 DEF ClientInv, TypeOK, Session!TypeOK, vars, sessionVars
      <3> QED BY <1>1, <3>1 DEF ClientInv, TypeOK, vars, clientVars, arguments, history
    <2>2. Exchange' /\ OnePager' /\ Sending'
      BY <1>1, SameSpool DEF ClientInv, Exchange, OnePager, Sending, vars, sessionVars, clientVars, history
    <2>3. Wishes' /\ SentAsAsked'
      <3>1. Wishes'
        BY <1>1, SameHold DEF ClientInv, Wishes, Heeded, vars, sessionVars, arguments, clientVars, history
      <3>2. SentAsAsked'
        BY <1>1, SamePages DEF ClientInv, vars, sessionVars, arguments, clientVars, history
      <3> QED BY <3>1, <3>2
    <2>4. Stores'
      BY <1>1, SameSpool DEF ClientInv, Stores, Unexplained, vars, sessionVars, clientVars, history
    <2> QED BY <2>1, <2>2, <2>3, <2>4 DEF ClientInv
  <1>2. CASE Client
    BY <1>2, ConnectStep, ConnectFailsStep, SayStep, HearStep, AbortStep, EndStep, EndKilledStep
    DEF Client
  <1>3. CASE Serve
    BY <1>3, ServePageStep, ServeDraftStep, AnswerHoldStep, ServeSendStep, RefuseSendStep,
       StoreStep, AnswerSendStep DEF Serve
  <1> QED BY <1>1, <1>2, <1>3, AlarmStep, AgainStep DEF Next

(* The client's view of the exchange and the spool agree. *)
THEOREM ClientInvariant == Spec => []ClientInv
  BY Start, Step, PTL DEF Spec

(* The variables of the program and of its session keep their types. *)
THEOREM ClientTypes == Spec => []TypeOK
  <1>1. ClientInv => TypeOK
    BY DEF ClientInv
  <1> QED BY <1>1, ClientInvariant, PTL

(* exit(0), for any message, hold, priority and number of runs: each page of   *)
(* the message was stored, and the spool has all of it unless the server did   *)
(* not look at a write that failed in that run or may not wrap so long a text. *)
THEOREM ExitZeroIsTrue == Spec => []SuccessIsStored
  <1>1. ClientInv => SuccessIsStored
    BY DEF ClientInv, Stores, InSpool, SuccessIsStored
  <1> QED BY <1>1, ClientInvariant, PTL

(* A mailer that runs parsemail until it exits with 0 stores the page once,    *)
(* and once more for each run that was killed after it had said SEND.          *)
THEOREM RetriesCopyOnlyWhenUnsure == Spec => []CopiesAreExplained
  <1>1. ClientInv => CopiesAreExplained
    BY DEF ClientInv, Stores, CopiesAreExplained
  <1> QED BY <1>1, ClientInvariant, PTL

(* Whatever hold is asked for, in any zone: a page is stored with it, or an    *)
(* hour early in summer, or without it after a refusal, or its year was        *)
(* garbled; and never without the priority.                                    *)
THEOREM WishesAreKept == Spec => []SentAsAsked
  <1>1. ClientInv => SentAsAsked
    BY DEF ClientInv
  <1> QED BY <1>1, ClientInvariant, PTL
=============================================================================
