---------------------------- MODULE SnppSession ----------------------------
(***************************************************************************)
(* One SNPP connection: the child's loop _snpp_main and the globals its    *)
(* commands share.  A client names pagers, gives a message and says SEND,  *)
(* which stores one page for each pager in turn; RESEt starts over.  A     *)
(* client may hang up, and alarm(childLifetime) may go off, at any moment, *)
(* also between two pages of one SEND.                                     *)
(*                                                                         *)
(* Abstractions: a line from the client is the command it parses to; the   *)
(* reply is what the client learns of its SEND.  The hour, the directory   *)
(* and the disk decide what becomes of a page: storequeue sees whether it  *)
(* can create the file and never whether it could write it.                *)
(***************************************************************************)
EXTENDS Naturals, Sequences

CONSTANTS
    Users,         \* ids conf.udb.u_exists() knows
    Messages,      \* texts a client may send
    Parts,         \* Parts[x]: pages _splitsq makes of text x, 1 if it fits in one
    HoldTimes,     \* what HOLDuntil may leave in snpp_holdtime
    MaxBroadcast,  \* modules.snpp.maxbroadcast, 0: no limit
    MaxTries,      \* modules.snpp.maxtries, or SNPP_MAXTRIES
    MaxPagers,     \* bound: pagers of one transaction, for MaxBroadcast = 0
    MaxSends,      \* bound: SENDs of one session
    NoMessage, NoUser

ASSUME SessionAssumption ==
    /\ Parts \in [Messages -> Nat \ {0}]
    /\ NoMessage \notin Messages /\ NoUser \notin Users
    /\ HoldTimes \subseteq Nat \ {0}
    /\ MaxBroadcast \in Nat /\ MaxTries \in Nat
    /\ MaxPagers \in Nat /\ MaxSends \in Nat

VARIABLES
    pc,        \* reading a command, inside snpp_send, or gone
    pagers,    \* snpp_pageid[0 .. snpp_nid - 1]
    room,      \* entries allocated for snpp_pageid, 0: NULL
    message,   \* snpp_message
    priority,  \* snpp_priority
    hold,      \* snpp_holdtime
    lastsend,  \* snpp_lastsend
    logname,   \* snpp_logname
    tries,     \* RESEts of this session
    wraps,     \* tuning.wrapMessages is 1
    next,      \* i of the loop in snpp_send
    good,      \* j of the loop in snpp_send
    \* History, read by the properties only
    copies,    \* copies[i]: stores for pagers[i] that returned 0
    whole,     \* the i for which the spool was given the whole message
    partial,   \* the i for which it was given a part of it
    unwritten, \* the i for which a store returned 0 although a write had failed
    asked,     \* Len(pagers) at the SEND that was answered "queued"
    failures,  \* SENDs of this transaction answered "failed"
    sends,     \* SENDs of this session that tried to store pages
    queued     \* SENDs of this session answered "queued"

draft   == <<pagers, room, message, priority, hold, lastsend, logname>>
loop    == <<next, good>>
files   == <<copies, whole, partial, unwritten>>
history == <<files, asked, failures, sends, queued>>
vars    == <<pc, draft, tries, wraps, loop, history>>

PR_HIGH   == 5
PR_NORMAL == 10

TypeOK ==
    /\ pc \in {"command", "sending", "closed"}
    /\ pagers \in Seq(Users)
    /\ room \in Nat
    /\ message \in Messages \cup {NoMessage}
    /\ priority \in {PR_HIGH, PR_NORMAL}
    /\ hold \in Nat
    /\ lastsend \in BOOLEAN
    /\ logname \in Users \cup {NoUser}
    /\ tries \in Nat
    /\ wraps \in BOOLEAN
    /\ next \in Nat \ {0}
    /\ good \in Nat
    /\ copies \in Seq(Nat) /\ Len(copies) = Len(pagers)
    /\ whole \subseteq 1..Len(pagers)
    /\ partial \subseteq 1..Len(pagers)
    /\ unwritten \subseteq 1..Len(pagers)
    /\ asked \in Nat
    /\ failures \in Nat
    /\ sends \in Nat /\ queued \in Nat
    /\ pc = "sending" => message \in Messages

Init ==
    /\ pc = "command"
    /\ pagers = <<>> /\ room = 0
    /\ message = NoMessage
    /\ priority = PR_NORMAL
    /\ hold = 0
    /\ lastsend = FALSE
    /\ logname = NoUser
    /\ tries = 0
    /\ wraps \in BOOLEAN
    /\ next = 1 /\ good = 0
    /\ copies = <<>> /\ whole = {} /\ partial = {} /\ unwritten = {}
    /\ asked = 0 /\ failures = 0 /\ sends = 0 /\ queued = 0

-----------------------------------------------------------------------------
(* PAGE: snpp_setpageid *)

\* The array, allocated with the first PAGE of a transaction.
Allocated == IF room = 0 THEN 4 ELSE room

\* Mutant of Grown: the array grows only when it is already full.
GrownLate == IF Len(pagers) = Allocated THEN 2 * Allocated ELSE Allocated

\* realloc, when the entry to be written is the last one there is.
Grown == IF Len(pagers) = Allocated - 1 THEN 2 * Allocated ELSE Allocated

Full == MaxBroadcast > 0 /\ Len(pagers) >= MaxBroadcast

\* "250 Pager ID Accepted"
Page(u) ==
    /\ pc = "command" /\ ~Full /\ Len(pagers) < MaxPagers
    /\ pagers' = Append(pagers, u)
    /\ room' = Grown
    /\ copies' = Append(copies, 0)
    /\ UNCHANGED <<pc, message, priority, hold, lastsend, logname, tries, wraps, loop,
                   whole, partial, unwritten, asked, failures, sends, queued>>

\* "550 No such user" or "552 Maximum Entries exceeded": the array is there.
PageRefused ==
    /\ pc = "command"
    /\ room' = Allocated
    /\ UNCHANGED <<pc, pagers, message, priority, hold, lastsend, logname, tries, wraps,
                   loop, history>>

(* The other commands that fill in the draft *)

Mess(x) ==
    /\ pc = "command" /\ message = NoMessage
    /\ message' = x
    /\ UNCHANGED <<pc, pagers, room, priority, hold, lastsend, logname, tries, wraps, loop,
                   history>>

\* snpp_setpriority looks for an h; any other word is answered "Priority OK"
\* and changes nothing.
Priority ==
    /\ pc = "command"
    /\ priority' = PR_HIGH
    /\ UNCHANGED <<pc, pagers, room, message, hold, lastsend, logname, tries, wraps, loop,
                   history>>

HoldUntil(t) ==
    /\ pc = "command"
    /\ hold' = t
    /\ UNCHANGED <<pc, pagers, room, message, priority, lastsend, logname, tries, wraps,
                   loop, history>>

\* snpp_login returns the user, or NULL when the password is wrong: a failed
\* LOGIn ends an earlier one.
Login(who) ==
    /\ pc = "command"
    /\ logname' = who
    /\ UNCHANGED <<pc, pagers, room, message, priority, hold, lastsend, tries, wraps, loop,
                   history>>

-----------------------------------------------------------------------------
(* RESEt, QUIT and the end of the session: snpp_cleanstuff *)

CleanStuff ==
    /\ pagers' = <<>> /\ room' = 0
    /\ message' = NoMessage
    /\ priority' = PR_NORMAL
    /\ hold' = 0
    /\ lastsend' = FALSE
    /\ logname' = NoUser
    /\ copies' = <<>> /\ whole' = {} /\ partial' = {} /\ unwritten' = {}
    /\ asked' = 0 /\ failures' = 0

\* Mutant of Reset: RESEt is not counted as a try.
ResetUncounted ==
    /\ pc = "command"
    /\ CleanStuff
    /\ UNCHANGED <<pc, tries, wraps, loop, sends, queued>>

\* "421 Too many pages, call back later" after the last RESEt.
Reset ==
    /\ pc = "command"
    /\ CleanStuff
    /\ tries' = tries + 1
    /\ pc' = IF tries + 1 > MaxTries THEN "closed" ELSE "command"
    /\ UNCHANGED <<wraps, loop, sends, queued>>

Quit ==
    /\ pc = "command"
    /\ CleanStuff
    /\ pc' = "closed"
    /\ UNCHANGED <<tries, wraps, loop, sends, queued>>

\* snpp_onalarm, or a read that finds the client gone: exit(0).
Alarm ==
    /\ pc # "closed"
    /\ pc' = "closed"
    /\ UNCHANGED <<draft, tries, wraps, loop, history>>

-----------------------------------------------------------------------------
(* SEND: snpp_send, one storequeue() at a time *)

\* The checks before snpp_send: a pager, a message, and not sent already.
Send ==
    /\ pc = "command" /\ pagers # <<>> /\ message # NoMessage /\ ~lastsend
    /\ sends < MaxSends
    /\ pc' = "sending"
    /\ next' = 1 /\ good' = 0
    /\ sends' = sends + 1
    /\ UNCHANGED <<draft, tries, wraps, files, asked, failures, queued>>

\* The pages storequeue makes of a text.  A long one is cut off if it may not
\* be wrapped.
Pages(x) == IF wraps THEN Parts[x] ELSE 1
Truncated(x) == x # NoMessage /\ Parts[x] > Pages(x)

\* storequeue, or _splitsq for a text of several pages, returns 0: each file
\* was created.  fprintf and fclose may have failed, nobody looks.
StoreSucceeds(written) ==
    /\ pc = "sending" /\ next <= Len(pagers)
    /\ next' = next + 1
    /\ good' = good + 1
    /\ copies' = [copies EXCEPT ![next] = @ + 1]
    /\ unwritten' = IF written THEN unwritten ELSE unwritten \cup {next}
    /\ IF written /\ ~Truncated(message)
         THEN whole' = whole \cup {next} /\ UNCHANGED partial
         ELSE partial' = partial \cup {next} /\ UNCHANGED whole
    /\ UNCHANGED <<pc, draft, tries, wraps, asked, failures, sends, queued>>

\* It fails (a bad hour, a file that cannot be created) after p parts, which
\* stay queued.
StoreFails ==
    /\ pc = "sending" /\ next <= Len(pagers)
    /\ next' = next + 1
    /\ \E p \in 0..(Pages(message) - 1) :
          partial' = IF p > 0 THEN partial \cup {next} ELSE partial
    /\ UNCHANGED <<pc, draft, tries, wraps, good, copies, whole, unwritten, asked, failures,
                   sends, queued>>

\* Mutant of SendReply: one stored page is taken for success.
SendReplyEager ==
    /\ pc = "sending" /\ next > Len(pagers)
    /\ pc' = "command"
    /\ lastsend' = (good > 0)
    /\ asked' = IF good > 0 THEN Len(pagers) ELSE asked
    /\ failures' = IF good > 0 THEN failures ELSE failures + 1
    /\ queued' = IF good > 0 THEN queued + 1 ELSE queued
    /\ UNCHANGED <<pagers, room, message, priority, hold, logname, tries, wraps, loop, files,
                   sends>>

\* Mutant of SendReply: snpp_lastsend is not set.
SendReplyForgets ==
    /\ pc = "sending" /\ next > Len(pagers)
    /\ pc' = "command"
    /\ asked' = IF good = Len(pagers) THEN Len(pagers) ELSE asked
    /\ failures' = IF good = Len(pagers) THEN failures ELSE failures + 1
    /\ UNCHANGED <<draft, tries, wraps, loop, files, sends, queued>>

\* "250 Message queued successfully" if every pager's page was stored,
\* otherwise "554 Message failed", and SEND may be tried again.
SendReply ==
    /\ pc = "sending" /\ next > Len(pagers)
    /\ pc' = "command"
    /\ lastsend' = (good = Len(pagers))
    /\ asked' = IF good = Len(pagers) THEN Len(pagers) ELSE asked
    /\ failures' = IF good = Len(pagers) THEN failures ELSE failures + 1
    /\ queued' = IF good = Len(pagers) THEN queued + 1 ELSE queued
    /\ UNCHANGED <<pagers, room, message, priority, hold, logname, tries, wraps, loop, files,
                   sends>>

Next ==
    \/ \E u \in Users : Page(u)
    \/ PageRefused
    \/ \E x \in Messages : Mess(x)
    \/ Priority
    \/ \E t \in HoldTimes : HoldUntil(t)
    \/ \E who \in Users \cup {NoUser} : Login(who)
    \/ Reset \/ Quit \/ Alarm
    \/ Send \/ StoreFails \/ SendReply
    \/ \E written \in BOOLEAN : StoreSucceeds(written)

Spec == Init /\ [][Next]_vars
-----------------------------------------------------------------------------
(* Properties *)

(* There is always an entry left in snpp_pageid for the next PAGE, however     *)
(* many pagers were named and refused and however often RESEt freed the array: *)
(* the array grows one entry before it is full.                                *)
RoomForOneMore ==
    IF room = 0 THEN pagers = <<>> ELSE Len(pagers) < room

(* "250 Message queued successfully": every pager accepted before that SEND    *)
(* has all pages of the message in the spool, also when it took several SENDs  *)
(* to get there, and they hold the whole message, unless one of them could not *)
(* be written or the text was too long and not to be wrapped.                  *)
QueuedForAll ==
    lastsend => /\ asked <= Len(pagers)
                /\ \A i \in 1..asked :
                      /\ copies[i] >= 1
                      /\ i \in whole \cup unwritten \/ Truncated(message)

(* A pager is paged twice with one message only if the client was told that a  *)
(* SEND of this transaction failed, and not more often than it was told so.    *)
OneCopyEach ==
    \A i \in 1..Len(copies) : copies[i] <= failures + 1

(* If only a part of the message went into the spool for a pager, the client   *)
(* has read "failed", unless it is gone, or the part is what a write or the    *)
(* length of a page left of it: storequeue takes both for success.             *)
FragmentIsReported ==
    pc = "command" /\ failures = 0 => partial \subseteq unwritten \/ Truncated(message)

(* "Maximum number of allowable transactions (SENDs)" (sample/pageserv.conf):  *)
(* only RESEt counts as a try, and what limits the SENDs answered "queued" is  *)
(* that another one needs a RESEt first: there is one more than maxtries.      *)
(* SENDs that fail are not limited at all.                                     *)
TransactionsAreLimited == queued <= MaxTries + 1
=============================================================================
