----------------------------- MODULE PageTimes -----------------------------
(***************************************************************************)
(* The clock of one page and of its recipient: the hours in which a pager  *)
(* takes normal pages (pack_timebits, getnormtimes, check_time), a hold    *)
(* time and the lifetime in the queue (readytodeliver).  It is where the   *)
(* phases held, ready and old of PageQueue come from.                      *)
(*                                                                         *)
(* Abstractions: an instant is a second since some midnight and an hour is *)
(* 3600 of them, so localtime() without daylight saving; a 32 bit mask is  *)
(* the set of its bits; the user's record is his hours.                    *)
(***************************************************************************)
EXTENDS Integers, FiniteSets

CONSTANTS
    Instants,      \* the instants at which something may happen
    Entries,       \* pairs <<early, late>> somebody may type or put in the user file
    Holds,         \* what HOLDuntil may set, an instant
    Garbage,       \* what an uninitialised time_t may hold
    MaxQueueTime,  \* conf.maxqueuetime
    NoHours        \* what a user has been given who was given no hours

ASSUME TimesAssumption ==
    /\ Instants \subseteq Nat /\ 0 \in Instants
    /\ Entries \subseteq Int \X Int /\ Entries # {}
    /\ NoHours \notin Int \X Int
    /\ Holds \subseteq Nat
    /\ Garbage \subseteq Int
    /\ MaxQueueTime \in Nat

VARIABLES
    now,        \* time()
    times,      \* u.times: the bits that are set
    stage,      \* what has become of the page
    priority,   \* q.priority
    soonest,    \* q.soonest
    submitted,  \* q.submitted
    \* History, read by the properties only
    typed,      \* the last hours typed for the user
    since,      \* what the user's record went through since then
    checked,    \* when check_time looked
    wished,     \* the hours in which the recipient could expect it, then
    mash,       \* did the page come from p_mash?
    looked      \* when readytodeliver last looked at the page

page    == <<stage, priority, soonest, submitted>>
history == <<checked, wished, mash, looked>>
vars    == <<now, times, page, typed, since, history>>

PR_HIGH   == 5
PR_NORMAL == 10

Hours == 0..23
Bits  == 0..31

Later(t, u) == IF t > u THEN t ELSE u
Hour(t) == (t \div 3600) % 24

-----------------------------------------------------------------------------
(* The hours of a user *)

\* Mutant of PackTimebits: late is an hour in which pages still come.
PackTimebitsThrough(early, late) ==
    IF early = late \/ early \notin Hours \/ late \notin Hours THEN Bits
    ELSE LET first == IF early = 0 THEN 23 ELSE early
         IN  IF first < late THEN first..late
                             ELSE first..23 \cup 0..(late - 1)

\* pack_timebits: all bits for equal or impossible hours; early = 0 becomes 23.
PackTimebits(early, late) ==
    IF early = late \/ early \notin Hours \/ late \notin Hours THEN Bits
    ELSE LET first == IF early = 0 THEN 23 ELSE early
         IN  IF first < late THEN first..(late - 1)
                             ELSE first..23 \cup 0..(late - 1)

\* The loops of getnormtimes: the first bit from i on in map, 24 if there is none.
NextBit(map, i) ==
    CHOOSE j \in i..24 : /\ j = 24 \/ j \in map
                        /\ \A k \in i..(j - 1) : k \notin map

NextClear(map, i) == NextBit(Bits \ map, i)

\* getnormtimes
GetNormTimes(map) ==
    IF 0 \in map
      THEN IF map = Bits THEN <<0, 0>>
           ELSE LET late == NextClear(map, 0)
                IN  <<NextBit(map, late), late>>
      ELSE LET early == NextBit(map, 0)
           IN  <<early, NextClear(map, early)>>

\* The select list of the web form has no 24: the browser sends its first entry.
FormValue(hour) == IF hour = 24 THEN 0 ELSE hour

\* The reference: the hours from early up to, not including, late.
Window(entry) ==
    IF entry = NoHours THEN {}
    ELSE IF entry[1] = entry[2] \/ entry[1] \notin Hours \/ entry[2] \notin Hours
      THEN Hours
      ELSE {h \in Hours : (h - entry[1]) % 24 < (entry[2] - entry[1]) % 24}

\* The hours a user's record opens beyond those somebody typed: an early of 0
\* also opens 23, a late of 0 turns into "always" on the way through a dump, and
\* no hours at all do on the way through a dump or a form.
Slips(entry, changes) ==
    IF entry = NoHours THEN (IF changes = {} THEN {} ELSE Hours)
    ELSE IF entry[1] \notin Hours \/ entry[2] \notin Hours \/ entry[1] = entry[2] THEN {}
    ELSE (IF entry[1] = 0 THEN {23} ELSE {})
         \cup (IF entry[2] = 0 /\ "dump" \in changes THEN Hours ELSE {})

-----------------------------------------------------------------------------
TypeOK ==
    /\ now \in Nat
    /\ times \subseteq Bits
    /\ stage \in {"none", "passed", "refused", "waiting", "due", "expired"}
    /\ priority \in {PR_HIGH, PR_NORMAL}
    /\ soonest \in Int
    /\ submitted \in Nat
    /\ typed \in Entries \cup {NoHours} /\ since \subseteq {"form", "dump"}
    /\ wished \subseteq Hours
    /\ checked \in Nat
    /\ mash \in BOOLEAN
    /\ looked \in Nat

Init ==
    /\ now = 0
    /\ typed \in Entries
    /\ times = PackTimebits(typed[1], typed[2])
    /\ stage = "none" /\ priority = PR_NORMAL /\ soonest = 0 /\ submitted = 0
    /\ since = {}
    /\ checked = 0 /\ wished = {} /\ mash = FALSE /\ looked = 0

Advance(t) ==
    /\ t > now
    /\ now' = t
    /\ UNCHANGED <<times, page, typed, since, history>>

\* login_usermain, a line of the user file, the web forms.
SetHours(entry) ==
    /\ times' = PackTimebits(entry[1], entry[2])
    /\ typed' = entry
    /\ since' = {}
    /\ UNCHANGED <<now, page, history>>

\* A line of the user file that ends before the hours: an empty mask.
OmitHours ==
    /\ times' = {}
    /\ typed' = NoHours
    /\ since' = {}
    /\ UNCHANGED <<now, page, history>>

\* The web form comes back as it was shown: the user only changed his password.
SubmitForm ==
    /\ times' = LET shown == GetNormTimes(times)
                IN  PackTimebits(FormValue(shown[1]), FormValue(shown[2]))
    /\ since' = since \cup {"form"}
    /\ UNCHANGED <<now, page, typed, history>>

\* The database is dumped as text, and the text is parsed into a database.
Reload ==
    /\ times' = LET dumped == GetNormTimes(times)
                IN  PackTimebits(dumped[1], dumped[2])
    /\ since' = since \cup {"dump"}
    /\ UNCHANGED <<now, page, typed, history>>

-----------------------------------------------------------------------------
(* The page *)

\* Mutant of CheckTime: the hour of the submission counts, not of the delivery.
CheckTimeNow(pr, t) ==
    pr = PR_HIGH \/ Hour(now) \in times

\* check_time
CheckTime(pr, t) ==
    pr = PR_HIGH \/ Hour(Later(now, t)) \in times

\* storequeue up to check_time, for a page that is due at t.
Check(pr, t, viaMash) ==
    /\ stage = "none"
    /\ stage' = IF CheckTime(pr, t) THEN "passed" ELSE "refused"
    /\ priority' = pr
    /\ soonest' = t
    /\ mash' = viaMash
    /\ checked' = now
    /\ wished' = Window(typed) \cup Slips(typed, since)
    /\ UNCHANGED <<now, times, submitted, typed, since, looked>>

\* SNPP, epage and the web: q was cleared, soonest is 0 or what HOLDuntil said.
Submit == \E pr \in {PR_HIGH, PR_NORMAL}, t \in Holds \cup {0} : Check(pr, t, FALSE)

\* p_mash does not clear q: soonest is whatever was on the stack.
Mash == \E t \in Garbage : Check(PR_NORMAL, t, TRUE)

\* storequeue stamps the page, which may be in the next second, or hour.
Stamp ==
    /\ stage = "passed"
    /\ stage' = "waiting"
    /\ submitted' = now
    /\ UNCHANGED <<now, times, priority, soonest, typed, since, history>>

\* Mutant of Fuz: the lifetime starts when the page is submitted.
FuzSubmitted ==
    LET age == now - submitted
    IN  IF age >= 0 THEN age \div 60 ELSE -((-age) \div 60)

\* Mutant of Fuz: the difference of the two times is unsigned.
FuzUnsigned ==
    LET age == now - Later(submitted, soonest)
    IN  IF age >= 0 THEN age \div 60 ELSE (-age) \div 60

\* The minutes since the page could be sent, truncated as C does.
Fuz ==
    LET age == now - Later(submitted, soonest)
    IN  IF age >= 0 THEN age \div 60 ELSE -((-age) \div 60)

\* What readytodeliver would say now.
Phase == IF Fuz > MaxQueueTime THEN "old" ELSE IF Fuz < 0 THEN "held" ELSE "ready"

\* Somebody lists the page: readytodeliver.
Look ==
    /\ stage \in {"waiting", "due"}
    /\ stage' = CASE Phase = "old"   -> "expired"
                  [] Phase = "held"  -> stage
                  [] Phase = "ready" -> "due"
    /\ looked' = now
    /\ UNCHANGED <<now, times, priority, soonest, submitted, typed, since, checked, wished, mash>>

Next ==
    \/ \E t \in Instants : Advance(t)
    \/ \E entry \in Entries : SetHours(entry)
    \/ OmitHours \/ SubmitForm \/ Reload
    \/ Submit \/ Mash \/ Stamp \/ Look

Spec == Init /\ [][Next]_vars
-----------------------------------------------------------------------------
(* Properties *)

(* Typing hours, seeing them on the web form, sending the form back and        *)
(* reloading a dumped database, in any order, leaves a pager with exactly the  *)
(* hours typed last, or with none if there were none, but for the three slips. *)
HoursAsTyped ==
    times \cap Hours = Window(typed) \cup Slips(typed, since)

(* A normal page that is handed to a runner comes within MaxQueueTime minutes  *)
(* of an hour its recipient asked for, however long it was held, and however   *)
(* the clock moved between check_time and the stamp: nobody looks at the hours *)
(* again.                                                                      *)
NormalPagesComeInHours ==
    stage = "due" /\ priority = PR_NORMAL =>
        LET hold == Later(checked, soonest)
            slack == Later(submitted, soonest) - hold
        IN  /\ Hour(hold) \in wished
            /\ looked - hold < 60 * (MaxQueueTime + 1) + slack

\* The order of the phases.
Rank == CASE Phase = "held" -> 0 [] Phase = "ready" -> 1 [] Phase = "old" -> 2

(* While a page waits the clock takes it from held to ready to old and never   *)
(* back: what PageQueue assumes of Tick.                                       *)
PhasesAdvance ==
    [][{stage, stage'} \subseteq {"waiting", "due"} => Rank <= Rank']_vars

(* A page is taken for ready from less than a minute before the later of its   *)
(* submission and its hold time on, and for MaxQueueTime whole minutes and one *)
(* more after that; it is expired then and not before.  The sample             *)
(* configuration, which calls the number seconds, is wrong.                    *)
DueInItsWindow ==
    LET due == Later(submitted, soonest)
    IN  /\ stage = "due" =>
              due - 60 < looked /\ looked < due + 60 * (MaxQueueTime + 1)
        /\ stage = "expired" => looked >= due + 60 * (MaxQueueTime + 1)
=============================================================================
