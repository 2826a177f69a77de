------------------------------ MODULE TapLine ------------------------------
(***************************************************************************)
(* One call of a queue runner to one paging terminal: the connection, the  *)
(* modem, the login of s_tap_init and the pages of the terminal's queue,   *)
(* over a line that delays, loses and adds what is said.  The runner knows *)
(* an answer only by its first character: nothing in the protocol says     *)
(* which page it is about.                                                 *)
(*                                                                         *)
(* Abstractions: what is on the line is a sequence of the words the        *)
(* matchers look for ("p" is the go-ahead ESC [ p); a word the matchers    *)
(* miss, because the characters before it look like its beginning, is one  *)
(* that was lost; the lock of the port is module PortLock, the locks and   *)
(* files of the pages are module PageQueue.                                *)
(***************************************************************************)
EXTENDS Naturals, Sequences, FiniteSets

CONSTANTS
    Pages,        \* pages waiting for the terminal
    TooLong,      \* those s_tap_send refuses for their length
    Serial,       \* the terminal is reached through a port, not a host
    MaxConnect,   \* conf.maxconattempts
    InitCR,       \* flag TAP_INITCR of the terminal
    Flushes,      \* I_FLUSH and FLUSHR are defined
    MaxStrays,    \* bound: words the line adds
    MaxSends      \* bound: packets of one call

ASSUME LineAssumption ==
    /\ IsFiniteSet(Pages) /\ TooLong \subseteq Pages
    /\ Serial \in BOOLEAN /\ InitCR \in BOOLEAN /\ Flushes \in BOOLEAN
    /\ MaxConnect \in Nat /\ MaxStrays \in Nat /\ MaxSends \in Nat

VARIABLES
    pc,        \* what the runner waits for, "page" between two pages, "over"
    tries,     \* attempts to connect, then carriage returns sent
    queue,     \* pages of the terminal still in the spool
    todo,      \* q[i], q[i + 1], ... of the loop in runqueue
    first,     \* i = 0
    up,        \* the far side is there
    asked,     \* what was written and the far side has not read yet
    line,      \* what the far side wrote and the runner has not read yet
    \* History, read by the properties only
    sent,      \* the page of each packet written
    accepts,   \* accepts[m]: packets of m the terminal accepted
    fate,      \* fate[m]: how m left the spool
    strays     \* words the line added

runner  == <<pc, tries, queue, todo, first>>
history == <<sent, accepts, fate, strays>>
vars    == <<runner, up, asked, line, history>>

RETRY_1 == 3

Answers == {"ACK", "NAK", "RS", "ESC"}
Results == {"CONNECT", "BUSY", "NO CARRIER", "NO DIALTONE"}
Words == Answers \cup Results \cup {"OK", "ID=", "p"}

\* A word on the line; to: the number of the packet it answers, 0 for the rest.
Word == [is : Words, to : Nat]
Request == [is : {"atz", "atdt", "CR", "PG1", "packet"}, to : Nat]

TypeOK ==
    /\ pc \in {"connect", "OK", "CONNECT", "ID=", "p", "page", "answer", "over"}
    /\ tries \in Nat
    /\ queue \subseteq Pages
    /\ todo \in Seq(Pages)
    /\ first \in BOOLEAN
    /\ up \in BOOLEAN
    /\ asked \in Seq(Request)
    /\ line \in Seq(Word)
    /\ sent \in Seq(Pages)
    /\ accepts \in [Pages -> Nat]
    /\ fate \in [Pages -> {"waiting", "delivered", "probably delivered", "failed"}]
    /\ strays \in Nat

Init ==
    /\ pc = "connect" /\ tries = 0
    /\ queue = Pages /\ todo = <<>> /\ first = TRUE
    /\ up = FALSE
    /\ asked = <<>> /\ line = <<>>
    /\ sent = <<>>
    /\ accepts = [m \in Pages |-> 0]
    /\ fate = [m \in Pages |-> "waiting"]
    /\ strays = 0

\* puttext: what is written to a line without a far side is gone.
Write(request) == asked' = IF up THEN Append(asked, request) ELSE asked

Ask(what) == Write([is |-> what, to |-> 0])

-----------------------------------------------------------------------------
(* any_openterm: p_openport, or s_openhost; s_modem_connect *)

\* A serial port is flushed when it is opened.
Connected ==
    /\ pc = "connect" /\ (Serial \/ tries < MaxConnect)
    /\ pc' = "OK"
    /\ tries' = 0
    /\ up' = TRUE
    /\ asked' = <<[is |-> "atz", to |-> 0]>>
    /\ UNCHANGED <<queue, todo, first, line, history>>

\* The port is locked or does not open; the host has no address.
NoPort ==
    /\ pc = "connect"
    /\ pc' = "over"
    /\ UNCHANGED <<tries, queue, todo, first, up, asked, line, history>>

ConnectFails ==
    /\ pc = "connect" /\ ~Serial /\ tries < MaxConnect
    /\ tries' = tries + 1
    /\ UNCHANGED <<pc, queue, todo, first, up, asked, line, history>>

\* The last attempt failed: s_openhost returns a socket that is not connected.
Unconnected ==
    /\ pc = "connect" /\ ~Serial /\ tries = MaxConnect /\ MaxConnect > 0
    /\ pc' = "OK"
    /\ tries' = 0
    /\ UNCHANGED <<queue, todo, first, up, asked, line, history>>

\* The next word on the line, once it is there.
Heard(words) ==
    /\ line # <<>> /\ Head(line).is \in words
    /\ line' = Tail(line)

\* What the matcher at work stops at.
Expected ==
    CASE pc \in {"OK", "ID=", "p"} -> {pc}
      [] pc = "CONNECT" -> Results
      [] pc = "answer" -> Answers \cup {"p"}
      [] OTHER -> Words

\* Anything else is dropped.
Ignore ==
    /\ Heard(Words \ Expected)
    /\ UNCHANGED <<runner, up, asked, history>>

HearOK ==
    /\ pc = "OK" /\ Heard(Expected)
    /\ pc' = "CONNECT"
    /\ Ask("atdt")
    /\ UNCHANGED <<tries, queue, todo, first, up, history>>

\* dexpect took one of the other results: close(s).
HearNoCarrier ==
    /\ pc = "CONNECT" /\ Heard(Results \ {"CONNECT"})
    /\ pc' = "over"
    /\ UNCHANGED <<tries, queue, todo, first, up, asked, history>>

-----------------------------------------------------------------------------
(* s_tap_init *)

HearConnect ==
    /\ pc = "CONNECT" /\ Heard({"CONNECT"})
    /\ pc' = IF InitCR THEN "ID=" ELSE "p"
    /\ Ask(IF InitCR THEN "CR" ELSE "PG1")
    /\ UNCHANGED <<tries, queue, todo, first, up, history>>

HearID ==
    /\ pc = "ID=" /\ Heard(Expected)
    /\ pc' = "p"
    /\ Ask("PG1")
    /\ UNCHANGED <<tries, queue, todo, first, up, history>>

\* listqueue, in any order: a page is on the list for as long as it is in the spool.
List(pages) ==
    /\ todo' \in {s \in [1..Cardinality(pages) -> pages] :
                     \A i, j \in DOMAIN s : s[i] = s[j] => i = j}
    /\ first' = TRUE

HearGoAhead ==
    /\ pc = "p" /\ Heard(Expected)
    /\ pc' = "page"
    /\ List(queue)
    /\ UNCHANGED <<tries, queue, up, asked, history>>

\* Mutant of WaitFails: the carriage returns are not counted.
WaitFailsUncounted ==
    /\ pc \in {"OK", "CONNECT", "ID=", "p"}
    /\ pc' = IF pc = "ID=" THEN pc ELSE "over"
    /\ UNCHANGED <<tries, asked, queue, todo, first, up, line, history>>

\* The wait ends without the word: another carriage return, or any_closeterm.
\* It ends when nothing is read in time, which a word that comes late does not
\* prevent, and when the far side is gone.
WaitFails ==
    /\ pc \in {"OK", "CONNECT", "ID=", "p"}
    /\ IF pc = "ID=" /\ tries + 1 < RETRY_1
       THEN /\ tries' = tries + 1
            /\ Ask("CR")
            /\ UNCHANGED pc
       ELSE /\ pc' = "over"
            /\ UNCHANGED <<tries, asked>>
    /\ UNCHANGED <<queue, todo, first, up, line, history>>

-----------------------------------------------------------------------------
(* s_tap_send and what runqueue makes of its result *)

Flushed == IF Flushes THEN <<>> ELSE line

Send ==
    /\ pc = "page" /\ todo # <<>> /\ Head(todo) \notin TooLong
    /\ Len(sent) < MaxSends
    /\ pc' = "answer"
    /\ line' = Flushed
    /\ sent' = Append(sent, Head(todo))
    /\ Write([is |-> "packet", to |-> Len(sent) + 1])
    /\ UNCHANGED <<tries, queue, todo, first, up, accepts, fate, strays>>

\* The next page; a page that stays is listed again when the list is done.
Done(m, what) ==
    /\ queue' = IF what = "waiting" THEN queue ELSE queue \ {m}
    /\ fate' = [fate EXCEPT ![m] = what]
    /\ todo' = Tail(todo)
    /\ first' = FALSE

\* s_tap_send returns -1: deferred.
SendTooLong ==
    /\ pc = "page" /\ todo # <<>> /\ Head(todo) \in TooLong
    /\ Done(Head(todo), "waiting")
    /\ UNCHANGED <<pc, tries, up, asked, line, sent, accepts, strays>>

\* Mutant of Outcome: the page stays after an ACK.
OutcomeKeeps(word) == IF word = "RS" THEN "failed" ELSE "waiting"

\* Mutant of Outcome: an ESC counts as delivered.
OutcomeEager(word) ==
    CASE word \in {"ACK", "ESC", "p"} -> "delivered" [] word = "RS" -> "failed" [] OTHER -> "waiting"

\* ACK: delivered; RS: it never will be; NAK, ESC: deferred.
Outcome(word) ==
    CASE word = "ACK" -> "delivered" [] word = "RS" -> "failed" [] OTHER -> "waiting"

\* Mutant of HearAnswer: the answer is looked at and stays on the line.
HearAnswerAgain ==
    /\ pc = "answer" /\ line # <<>> /\ Head(line).is \in Expected
    /\ pc' = "page"
    /\ Done(Head(todo), Outcome(Head(line).is))
    /\ UNCHANGED <<tries, up, asked, line, sent, accepts, strays>>

\* The first character that could be an answer is the answer.
HearAnswer ==
    /\ pc = "answer" /\ line # <<>> /\ Head(line).is \in Expected
    /\ pc' = "page"
    /\ Done(Head(todo), Outcome(Head(line).is))
    /\ line' = IF Flushes THEN <<>> ELSE Tail(line)
    /\ UNCHANGED <<tries, up, asked, sent, accepts, strays>>

\* Mutant of HearNothing: the call goes on.
HearNothingStays ==
    /\ pc = "answer" /\ ~up /\ line = <<>>
    /\ pc' = "page"
    /\ Done(Head(todo), IF first THEN "probably delivered" ELSE "waiting")
    /\ UNCHANGED <<tries, up, asked, line, sent, accepts, strays>>

\* 'X', the line is gone: the first page of a list is "probably delivered" and
\* leaves the spool, any other one stays.  The call ends.
HearNothing ==
    /\ pc = "answer" /\ ~up /\ line = <<>>
    /\ pc' = "over"
    /\ Done(Head(todo), IF first THEN "probably delivered" ELSE "waiting")
    /\ UNCHANGED <<tries, up, asked, line, sent, accepts, strays>>

\* The list is done: list again, or s_tap_end and any_closeterm.
Relist ==
    /\ pc = "page" /\ todo = <<>>
    /\ List(queue)
    /\ pc' = IF queue = {} THEN "over" ELSE "page"
    /\ UNCHANGED <<tries, queue, up, asked, line, history>>

\* alarm(120), or SIGPIPE for a write to a line that is gone.
Killed ==
    /\ pc # "over"
    /\ pc' = "over"
    /\ UNCHANGED <<tries, queue, todo, first, up, asked, line, history>>

-----------------------------------------------------------------------------
(* The modem and the paging terminal *)

Replies(request) ==
    CASE request = "atz" -> {"OK"}
      [] request = "atdt" -> Results
      [] request = "CR" -> {"ID="}
      [] request = "PG1" -> {"p"}
      [] request = "packet" -> Answers

\* It reads one request and replies, or the reply is lost.
Reply ==
    /\ up /\ asked # <<>>
    /\ asked' = Tail(asked)
    /\ \E word \in Replies(Head(asked).is), lost \in BOOLEAN :
          /\ line' = IF lost THEN line ELSE Append(line, [is |-> word, to |-> Head(asked).to])
          /\ accepts' = IF Head(asked).is = "packet" /\ word = "ACK"
                        THEN [accepts EXCEPT ![sent[Head(asked).to]] = @ + 1]
                        ELSE accepts
    /\ UNCHANGED <<runner, up, sent, fate, strays>>

\* Noise, or a word nobody asked for.
Stray ==
    /\ up /\ strays < MaxStrays
    /\ \E word \in Words : line' = Append(line, [is |-> word, to |-> 0])
    /\ strays' = strays + 1
    /\ UNCHANGED <<runner, up, asked, sent, accepts, fate>>

HangUp ==
    /\ up
    /\ up' = FALSE
    /\ asked' = <<>>
    /\ UNCHANGED <<runner, line, history>>

-----------------------------------------------------------------------------
Step ==
    \/ Connected \/ NoPort \/ ConnectFails \/ Unconnected \/ WaitFails
    \/ Ignore \/ HearOK \/ HearNoCarrier \/ HearConnect \/ HearID \/ HearGoAhead
    \/ HearAnswer \/ HearNothing \/ Send \/ SendTooLong \/ Relist

Next == Step \/ Killed \/ Reply \/ Stray \/ HangUp

Spec == Init /\ [][Next]_vars

\* The runner goes on; the far side need not.
FairSpec == Spec /\ WF_vars(Step)
-----------------------------------------------------------------------------
(* Properties *)

(* On a line that adds nothing, a page is reported delivered, or failed, only  *)
(* if the terminal said so of this page: an answer is never taken for another  *)
(* page's, however late it comes, because the runner waits for it.             *)
DeliveredWasAccepted ==
    strays = 0 => \A m \in Pages : fate[m] = "delivered" => accepts[m] > 0

(* And then no page is accepted twice in one call, whatever is lost.           *)
AcceptedOnce ==
    strays = 0 => \A m \in Pages : accepts[m] <= 1

\* Answers to packets before the last one that are still on their way.
Behind ==
    {i \in DOMAIN line : line[i].to \in 1..(Len(sent) - 1)}

(* A word the line added is taken for an answer, and from then on each answer  *)
(* is taken for the next page's: the answers are never further behind than     *)
(* there were such words.                                                      *)
ShiftIsBounded == Cardinality(Behind) <= strays

(* A line that drops costs one page at most: only one page of a call leaves    *)
(* the spool as "probably delivered".                                          *)
OneGuessPerCall ==
    Cardinality({m \in Pages : fate[m] = "probably delivered"}) <= 1

(* The runner gets through the connection and the login or gives up, whatever  *)
(* the modem and the terminal do: every wait but the one in s_tap_send ends.   *)
LoginEnds ==
    pc \in {"connect", "OK", "CONNECT", "ID=", "p"} ~> pc \in {"page", "answer", "over"}
=============================================================================
