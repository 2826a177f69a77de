----------------------------- MODULE PageClient -----------------------------
(***************************************************************************)
(* The programs that send a page over SNPP, composed with the session they *)
(* talk to: parsemail, which a mailer runs and runs again as long as it    *)
(* exits with 75 or is killed, and pushqueue.  Both say what they want,    *)
(* one command and one reply at a time, and believe the reply to SEND.     *)
(*                                                                         *)
(* Abstractions: a reply is in the range 200 to 300 or it is not; there is *)
(* one connection at a time, and connect() and the greeting are one step;  *)
(* how lines are cut out of what is received is left out, commands and     *)
(* replies alternate.  A time is a number of seconds since 1970, GMT.      *)
(***************************************************************************)
EXTENDS Integers, Sequences

CONSTANTS
    Users, Messages, Parts, HoldTimes, MaxBroadcast, MaxTries, MaxPagers, MaxSends,
    NoMessage, NoUser,
    To,          \* the pager on the command line
    Text,        \* the message
    HoldFors,    \* what may follow pushqueue -h, 0: without
    GmtOffset,   \* seconds the server's standard time is ahead of GMT
    High,        \* -p high
    MaxAttempts  \* bound: runs of the program for one page

ASSUME ClientAssumption ==
    /\ To \in Users /\ Text \in Messages
    /\ HoldTimes \subseteq Nat \ {0}
    /\ HoldFors \subseteq Int /\ 0 \in HoldFors /\ GmtOffset \in Int
    /\ High \in BOOLEAN
    /\ MaxAttempts \in Nat

VARIABLES
    pc, pagers, room, message, priority, hold, lastsend, logname, tries, wraps, next,
    good, copies, whole, partial, unwritten, asked, failures, sends, queued,
    program,   \* parsemail or pushqueue
    holdfor,   \* hold of pushqueue
    client,    \* the command the program is at
    waiting,   \* it has sent the command
    result,    \* r of _snpp_sendapage: replies out of range
    request,   \* the command the server has yet to read or to answer
    reply,     \* the reply the client has yet to read
    attempts,  \* runs of the program
    \* History, read by the properties only
    stored,    \* times the server stored the message and found no fault
    pages,     \* what it stored: priority, hold, was all of it written, heard
    lost,      \* in this run it did not see that a write failed
    heard,     \* in this run, what it made of the hold
    unsure     \* runs that were killed after SEND, with no reply to it or a good one

Session == INSTANCE SnppSession

sessionVars == <<pc, pagers, room, message, priority, hold, lastsend, logname, tries, wraps, next,
                 good, copies, whole, partial, unwritten, asked, failures, sends, queued>>
arguments   == <<program, holdfor>>
clientVars  == <<client, waiting, result, attempts>>
history     == <<stored, pages, lost, heard, unsure>>
vars        == <<sessionVars, arguments, clientVars, request, reply, history>>

Commands == {"priority", "hold", "page", "message", "send", "quit"}

Ears == {"nothing", "as asked", "in summer", "garbled", "refused"}

TypeOK ==
    /\ Session!TypeOK
    /\ program \in {"parsemail", "pushqueue"} /\ holdfor \in HoldFors
    /\ client \in Commands \cup {"start", "greeting", "end", "deferred", "killed", "successful"}
    /\ waiting \in BOOLEAN
    /\ result \in 0..3
    /\ request \in Commands \cup {"none"}
    /\ reply \in {"none", "in range", "out of range"}
    /\ attempts \in Nat
    /\ stored \in Nat /\ unsure \in Nat
    /\ pages \subseteq [priority : {Session!PR_HIGH, Session!PR_NORMAL}, hold : Nat,
                       whole : BOOLEAN, heard : Ears]
    /\ lost \in BOOLEAN
    /\ heard \in Ears

Init ==
    /\ Session!Init
    /\ program \in {"parsemail", "pushqueue"}
    /\ holdfor \in IF program = "pushqueue" THEN HoldFors ELSE {0}
    /\ client = "start" /\ waiting = FALSE /\ result = 0
    /\ request = "none" /\ reply = "none"
    /\ attempts = 0
    /\ stored = 0 /\ pages = {} /\ lost = FALSE /\ heard = "nothing" /\ unsure = 0

-----------------------------------------------------------------------------
(* The program: snpp_connect, main of parsemail and of pushqueue *)

\* snpp_connect: a child of the server with a session of its own, which greets.
Connect ==
    /\ client = "start"
    /\ client' = "greeting" /\ waiting' = TRUE /\ result' = 0
    /\ reply' = "in range" /\ request' = "none"
    /\ Session!CleanStuff
    /\ pc' = "command" /\ tries' = 0 /\ next' = 1 /\ good' = 0 /\ sends' = 0 /\ queued' = 0
    /\ attempts' = attempts + 1
    /\ lost' = FALSE /\ heard' = "nothing"
    /\ UNCHANGED <<wraps, arguments, stored, pages, unsure>>

\* "Error connecting to pager server"
ConnectFails ==
    /\ client = "start"
    /\ client' = "deferred"
    /\ attempts' = attempts + 1
    /\ UNCHANGED <<sessionVars, arguments, waiting, result, request, reply, history>>

\* What comes after a command.  Only pushqueue can ask for a hold; only
\* parsemail says QUIT.
After(command) ==
    CASE command = "greeting" -> IF High THEN "priority" ELSE
                                 IF holdfor # 0 THEN "hold" ELSE "page"
      [] command = "priority" -> IF holdfor # 0 THEN "hold" ELSE "page"
      [] command = "hold" -> "page"
      [] command = "page" -> "message"
      [] command = "message" -> "send"
      [] command = "send" -> IF program = "parsemail" THEN "quit" ELSE "end"
      [] command = "quit" -> "end"

\* rawsend: the command goes out.
Say ==
    /\ client \in Commands /\ ~waiting
    /\ request' = client
    /\ waiting' = TRUE
    /\ UNCHANGED <<sessionVars, arguments, client, result, reply, attempts, history>>

\* Mutant of Counted: the reply to SEND is not looked at.
CountedLess(command) == command \in {"page", "message"}

\* Mutant of Counted: the reply to a hold counts as well.
CountedAll(command) == command \in Commands

\* The replies sendAPage adds up: priority, hold and quit are not among them.
Counted(command) == command \in {"page", "message", "send"}

\* _snpp_read_cr and _snpp_checkrange
Hear ==
    /\ waiting /\ reply # "none"
    /\ reply' = "none"
    /\ waiting' = FALSE
    /\ client' = After(client)
    /\ result' = IF reply = "out of range" /\ Counted(client) THEN result + 1 ELSE result
    /\ UNCHANGED <<sessionVars, arguments, request, attempts, history>>

\* Mutant of Abort: recv() that returns 0 is not an error.
AbortOfSend ==
    /\ client \in Commands /\ ~waiting
    /\ pc = "closed" /\ reply = "none"
    /\ client' = "killed"
    /\ unsure' = IF client = "quit" THEN unsure + 1 ELSE unsure
    /\ UNCHANGED <<sessionVars, arguments, waiting, result, request, reply, attempts, stored,
                   pages, lost, heard>>

\* The connection is gone: recv ends in abort(), send in SIGPIPE.
Abort ==
    /\ client \in Commands \cup {"greeting"}
    /\ pc = "closed" /\ reply = "none"
    /\ client' = "killed"
    /\ waiting' = FALSE
    /\ unsure' = IF \/ client = "quit" /\ result = 0
                    \/ client = "send" /\ waiting
                 THEN unsure + 1 ELSE unsure
    /\ UNCHANGED <<sessionVars, arguments, result, request, reply, attempts, stored,
                   pages, lost, heard>>

\* exit(0), or 75: "Page failed for some unknown reason, deferring..."
End ==
    /\ client = "end"
    /\ client' = IF result = 0 THEN "successful" ELSE "deferred"
    /\ UNCHANGED <<sessionVars, arguments, waiting, result, request, reply, attempts, history>>

\* parsemail destroys twice what quit() has destroyed, and frees constants.
EndKilled ==
    /\ client = "end" /\ program = "parsemail"
    /\ client' = "killed"
    /\ unsure' = IF result = 0 THEN unsure + 1 ELSE unsure
    /\ UNCHANGED <<sessionVars, arguments, waiting, result, request, reply, attempts, stored,
                   pages, lost, heard>>

\* The mailer, or the user, tries again.
Again ==
    /\ client \in {"deferred", "killed"} /\ attempts < MaxAttempts
    /\ client' = "start"
    /\ pc' = "closed"
    /\ UNCHANGED <<pagers, room, message, priority, hold, lastsend, logname, tries, wraps, next,
                   good, copies, whole, partial, unwritten, asked, failures, sends, queued,
                   arguments, waiting, result, request, reply, attempts, history>>

-----------------------------------------------------------------------------
(* The session: one action of SnppSession for each command *)

Answer(r) ==
    /\ request' = "none"
    /\ reply' = r

ServePage ==
    /\ request = "page"
    /\ \/ Session!Page(To) /\ Answer("in range")
       \/ Session!PageRefused /\ Answer("out of range")
    /\ UNCHANGED <<arguments, clientVars, history>>

ServeDraft ==
    /\ \/ request = "message" /\ Session!Mess(Text)
       \/ request = "priority" /\ Session!Priority
       \/ request = "quit" /\ Session!Quit
    /\ Answer("in range")
    /\ UNCHANGED <<arguments, clientVars, history>>

\* mktime() of the text the client made of holdfor with gmtime(): the text is
\* taken for a time of the server's zone, without summer time.
Parsed == holdfor - GmtOffset

\* Mutant of FindGMTOffset: the difference of the two clocks the other way round.
FindGMTOffsetBackwards(summer) == 0 - GmtOffset - (IF summer THEN 3600 ELSE 0)

\* The offset of standard time, less an hour while it is summer.
FindGMTOffset(summer) == GmtOffset - (IF summer THEN 3600 ELSE 0)

\* t of snpp_holduntil, for a text without an offset of its own.
HeldUntil(summer) == Parsed + FindGMTOffset(summer)

ServeHold(summer) ==
    /\ request = "hold" /\ Parsed >= 0 /\ HeldUntil(summer) > 0
    /\ Session!HoldUntil(HeldUntil(summer))
    /\ Answer("in range")
    /\ heard' = IF summer THEN "in summer" ELSE "as asked"
    /\ UNCHANGED <<arguments, clientVars, stored, pages, lost, unsure>>

\* The four digits of the year are not terminated, and what comes after them on
\* the stack is a fifth: any other time.
GarbleHold ==
    /\ request = "hold"
    /\ \E t \in HoldTimes : Session!HoldUntil(t)
    /\ Answer("in range")
    /\ heard' = "garbled"
    /\ UNCHANGED <<arguments, clientVars, stored, pages, lost, unsure>>

\* "550 Invalid Delivery Date/Time": before 1970 for mktime(), or with such a
\* year beyond what it can do.
RefuseHold ==
    /\ request = "hold" /\ pc = "command"
    /\ Answer("out of range")
    /\ heard' = "refused"
    /\ UNCHANGED <<sessionVars, arguments, clientVars, stored, pages, lost, unsure>>

\* With the offset it is before 1970: the server says nothing at all.
IgnoreHold(summer) ==
    /\ request = "hold" /\ pc = "command"
    /\ Parsed >= 0 /\ HeldUntil(summer) <= 0
    /\ request' = "none"
    /\ UNCHANGED <<sessionVars, arguments, clientVars, reply, history>>

ServeSend ==
    /\ request = "send"
    /\ Session!Send
    /\ UNCHANGED <<arguments, clientVars, request, reply, history>>

\* Nobody to page.
RefuseSend ==
    /\ request = "send" /\ pc = "command" /\ pagers = <<>>
    /\ Answer("out of range")
    /\ UNCHANGED <<sessionVars, arguments, clientVars, history>>

\* storequeue: it is content (written: rightly so), or the page failed.
Store ==
    /\ \/ \E written \in BOOLEAN :
             /\ Session!StoreSucceeds(written)
             /\ stored' = stored + 1
             /\ pages' = pages \cup
                   {[priority |-> priority, hold |-> hold, heard |-> heard,
                     whole |-> written /\ ~Session!Truncated(message)]}
             /\ lost' = (lost \/ ~written)
       \/ /\ Session!StoreFails
          /\ UNCHANGED <<stored, pages, lost>>
    /\ UNCHANGED <<arguments, clientVars, request, reply, heard, unsure>>

AnswerSend ==
    /\ Session!SendReply
    /\ Answer(IF good = Len(pagers) THEN "in range" ELSE "out of range")
    /\ UNCHANGED <<arguments, clientVars, history>>

\* alarm(childLifetime)
Alarm ==
    /\ Session!Alarm
    /\ UNCHANGED <<arguments, clientVars, request, reply, history>>

-----------------------------------------------------------------------------
Client == Connect \/ ConnectFails \/ Say \/ Hear \/ Abort \/ End \/ EndKilled
AnswerHold == \/ GarbleHold \/ RefuseHold
              \/ \E summer \in BOOLEAN : ServeHold(summer) \/ IgnoreHold(summer)
Serve == ServePage \/ ServeDraft \/ AnswerHold \/ ServeSend \/ RefuseSend \/ Store \/ AnswerSend

Next == Client \/ Serve \/ Alarm \/ Again

Spec == Init /\ [][Next]_vars

\* The client goes on, and the server's alarm goes off: the client has none.
FairSpec == Spec /\ WF_vars(Client) /\ WF_vars(Alarm)
-----------------------------------------------------------------------------
(* Properties *)

(* "Looks successful", or exit(0): each page of the message is in the spool,   *)
(* and together they are the whole message, unless in that run a write failed  *)
(* that nobody looked at, or the text was too long and not to be wrapped.      *)
SuccessIsStored ==
    client = "successful" =>
        /\ stored > 0
        /\ (\E p \in pages : p.whole) \/ lost \/ Session!Truncated(Text)

(* The message is stored once for all the runs of the program, and once more   *)
(* for each run that was killed after SEND without a reply that it failed:     *)
(* what a run that exits with 75, or heard one, leaves in the spool is less    *)
(* than the pages of a message.                                                *)
CopiesAreExplained == stored <= unsure + 1

HourEarly == holdfor - 3600

(* A page is stored with the priority and the hold that were asked for.  The   *)
(* hold is an hour early if the server read it in summer, missing if it was    *)
(* refused, for the client does not look at that reply, and anything if its    *)
(* year was garbled; in no other way does a page get another one.              *)
SentAsAsked ==
    \A p \in pages :
        /\ High => p.priority = Session!PR_HIGH
        /\ \/ p.hold = holdfor
           \/ p.heard = "in summer" /\ p.hold = HourEarly
           \/ p.heard = "refused" /\ p.hold = 0
           \/ p.heard = "garbled"

(* A run of the program ends, also if the server does not answer.              *)
RunEnds ==
    client = "greeting" ~> client \in {"successful", "deferred", "killed"}
=============================================================================
