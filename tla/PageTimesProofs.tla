-------------------------- MODULE PageTimesProofs --------------------------
(***************************************************************************)
(* Theorems about PageTimes, for every set of instants, entries and hold   *)
(* times and every lifetime: the hours survive the web form, a page is due *)
(* exactly in its window, and its phases only advance.                     *)
(***************************************************************************)
EXTENDS PageTimes, TLAPS

\* The reference speaks of hours.
LEMMA HoursOnly == ASSUME NEW entry, NEW changes
                   PROVE  Window(entry) \cup Slips(entry, changes) \subseteq Hours
<1>1. 23 \in Hours
  BY DEF Hours
<1> QED BY <1>1 DEF Window, Slips

(* Whatever hours are typed or come back from a form or a dump, the mask that  *)
(* pack_timebits makes of them has only its 32 bits, and every time a page     *)
(* keeps is a time.  No strengthening is needed.                               *)
THEOREM Types == Spec => []TypeOK
<1>1. Init => TypeOK
  <2>1. \A e, l : PackTimebits(e, l) \subseteq Bits
    BY DEF PackTimebits, Bits, Hours
  <2>2. Init => times \subseteq Bits
    BY <2>1 DEF Init
  <2>3. Init => /\ since \subseteq {"form", "dump"} /\ mash \in BOOLEAN
                /\ typed \in Entries \cup {NoHours} /\ wished \subseteq Hours
    BY DEF Init
  <2>4. Init => /\ now = 0 /\ stage = "none" /\ priority = PR_NORMAL /\ soonest = 0
                /\ submitted = 0 /\ checked = 0 /\ looked = 0
    BY DEF Init
  <2> QED BY <2>2, <2>3, <2>4 DEF TypeOK
<1>2. TypeOK /\ [Next]_vars => TypeOK'
  <2> SUFFICES ASSUME TypeOK, [Next]_vars PROVE TypeOK'
    OBVIOUS
  <2> USE DEF TypeOK, page, history
  <2>0. \A e, l : PackTimebits(e, l) \subseteq Bits
    BY DEF PackTimebits, Bits, Hours
  <2>1. CASE UNCHANGED vars
    BY <2>1 DEF vars
  <2>2. CASE \E t \in Instants : Advance(t)
    BY <2>2, TimesAssumption DEF Advance
  <2>3. CASE (\E entry \in Entries : SetHours(entry)) \/ OmitHours
    BY <2>3, <2>0 DEF SetHours, OmitHours
  <2>4. CASE SubmitForm
    BY <2>4, <2>0 DEF SubmitForm
  <2>5. CASE Reload
    BY <2>5, <2>0 DEF Reload
  <2>6. CASE Submit \/ Mash
    <3>1. PICK pr \in {PR_HIGH, PR_NORMAL}, t \in Int, viaMash \in BOOLEAN :
               Check(pr, t, viaMash)
      <4>1. CASE Submit
        <5>1. PICK pr \in {PR_HIGH, PR_NORMAL}, t \in Holds \cup {0} : Check(pr, t, FALSE)
          BY <4>1 DEF Submit
        <5>2. t \in Int
          BY TimesAssumption
        <5> QED BY <5>1, <5>2
      <4>2. CASE Mash
        <5>1. PICK t \in Garbage : Check(PR_NORMAL, t, TRUE)
          BY <4>2 DEF Mash
        <5>2. t \in Int
          BY TimesAssumption
        <5> QED BY <5>1, <5>2
      <4> QED BY <2>6, <4>1, <4>2
    <3>2. mash' \in BOOLEAN /\ wished' \subseteq Hours
      BY <3>1, HoursOnly DEF Check
    <3>3. /\ stage' \in {"passed", "refused"} /\ priority' \in {PR_HIGH, PR_NORMAL}
          /\ soonest' \in Int /\ checked' \in Nat
          /\ UNCHANGED <<now, times, submitted, typed, since, looked>>
      BY <3>1 DEF Check
    <3> QED BY <3>2, <3>3
  <2>7. CASE Stamp
    BY <2>7 DEF Stamp
  <2>8. CASE Look
    BY <2>8 DEF Look, Phase
  <2> QED BY <2>1, <2>2, <2>3, <2>4, <2>5, <2>6, <2>7, <2>8 DEF Next
<1> QED BY <1>1, <1>2, PTL DEF Spec

-----------------------------------------------------------------------------
(* The window of a page *)

LEMMA LaterType == ASSUME NEW t \in Int, NEW u \in Int
                   PROVE  Later(t, u) \in Int
  BY DEF Later

\* What the truncated division of readytodeliver means in seconds.
LEMMA PhaseInSeconds ==
    ASSUME NEW age \in Int,
           NEW m \in Nat
    PROVE  LET fuz == IF age >= 0 THEN age \div 60 ELSE -((-age) \div 60)
           IN  /\ fuz \in Int
               /\ fuz > m <=> age >= 60 * (m + 1)
               /\ fuz < 0 <=> age <= -60
  OBVIOUS

LEMMA PhaseMeans ==
    ASSUME TypeOK
    PROVE  LET age == now - Later(submitted, soonest)
           IN  /\ age \in Int
               /\ Phase = "old" <=> age >= 60 * (MaxQueueTime + 1)
               /\ Phase = "held" <=> age <= -60
               /\ Phase \in {"held", "ready", "old"}
<1> DEFINE age == now - Later(submitted, soonest)
<1>1. age \in Int
  BY LaterType DEF TypeOK
<1>2. /\ Fuz > MaxQueueTime <=> age >= 60 * (MaxQueueTime + 1)
      /\ Fuz < 0 <=> age <= -60
  BY <1>1, PhaseInSeconds, TimesAssumption DEF Fuz
<1>3. ~(Fuz > MaxQueueTime /\ Fuz < 0)
  BY <1>1, <1>2, TimesAssumption
<1> QED BY <1>1, <1>2, <1>3 DEF Phase

\* A page was looked at in the past.
Past == looked <= now

LEMMA WindowStep == TypeOK /\ Past /\ DueInItsWindow /\ [Next]_vars
                        => Past' /\ DueInItsWindow'
<1> SUFFICES ASSUME TypeOK, Past, DueInItsWindow, [Next]_vars
             PROVE  Past' /\ DueInItsWindow'
  OBVIOUS
<1>1. CASE Look
  <2>1. UNCHANGED <<submitted, soonest, now>> /\ looked' = now
    BY <1>1 DEF Look
  <2>2. Later(submitted, soonest)' = Later(submitted, soonest)
    BY <2>1 DEF Later
  <2>3. now \in Int /\ looked \in Int /\ Later(submitted, soonest) \in Int
    BY LaterType DEF TypeOK
  <2>4. ~(stage = "due" /\ Phase = "held")
    BY <2>3, PhaseMeans DEF DueInItsWindow, Past
  <2>5. /\ stage' = "expired" => Phase = "old"
        /\ stage' = "due" => Phase = "ready"
    BY <1>1, <2>4, PhaseMeans DEF Look
  <2>6. DueInItsWindow'
    BY <2>1, <2>2, <2>3, <2>5, PhaseMeans, TimesAssumption DEF DueInItsWindow
  <2> QED BY <2>1, <2>3, <2>6 DEF Past
<1>2. CASE ~Look
  <2>1. stage' \notin {"due", "expired"} \/ UNCHANGED <<stage, submitted, soonest, looked>>
    BY <1>2 DEF Next, vars, page, history, Advance, SetHours, OmitHours, SubmitForm, Reload, Submit, Mash,
                Check, Stamp
  <2>2. looked' = looked /\ now <= now' /\ now' \in Int
    BY <1>2, TimesAssumption
       DEF Next, vars, page, history, Advance, SetHours, OmitHours, SubmitForm, Reload, Submit, Mash, Check,
           Stamp, TypeOK
  <2>3. DueInItsWindow'
    BY <2>1 DEF DueInItsWindow, Later
  <2> QED BY <2>2, <2>3 DEF Past, TypeOK
<1> QED BY <1>1, <1>2

(* A page is taken for ready, and expired, exactly within the bounds of        *)
(* DueInItsWindow, whatever hold time p_mash or HOLDuntil left in it.          *)
THEOREM WindowIsKept == Spec => []DueInItsWindow
<1>1. Init => Past /\ DueInItsWindow
  BY DEF Init, Past, DueInItsWindow
<1> QED BY <1>1, Types, WindowStep, PTL DEF Spec

(* The phase of a waiting page only advances.                                  *)
THEOREM PhasesOnlyAdvance == Spec => PhasesAdvance
<1> DEFINE Step == {stage, stage'} \subseteq {"waiting", "due"} => Rank <= Rank'
<1>1. TypeOK /\ TypeOK' /\ [Next]_vars => [Step]_vars
  <2> SUFFICES ASSUME TypeOK, TypeOK', [Next]_vars,
                      {stage, stage'} \subseteq {"waiting", "due"}
               PROVE  Rank <= Rank'
    OBVIOUS
  <2>1. UNCHANGED <<submitted, soonest>> /\ now <= now'
    BY DEF Next, vars, page, history, Advance, SetHours, OmitHours, SubmitForm, Reload, Submit, Mash,
           Check, Stamp, Look, TypeOK
  <2>2. Later(submitted, soonest)' = Later(submitted, soonest)
    BY <2>1 DEF Later
  <2>3. now \in Int /\ now' \in Int /\ Later(submitted, soonest) \in Int
    BY LaterType DEF TypeOK
  <2>4. /\ Phase' \in {"held", "ready", "old"}
        /\ Phase' = "old" => now' - Later(submitted, soonest) >= 60 * (MaxQueueTime + 1)
        /\ now' - Later(submitted, soonest) >= 60 * (MaxQueueTime + 1) => Phase' = "old"
        /\ Phase' = "held" => now' - Later(submitted, soonest) <= -60
    <3> DEFINE age == now' - Later(submitted, soonest)
    <3>1. age \in Int
      BY <2>3
    <3>2. Fuz' = IF age >= 0 THEN age \div 60 ELSE -((-age) \div 60)
      BY <2>2 DEF Fuz
    <3>3. /\ Fuz' > MaxQueueTime <=> age >= 60 * (MaxQueueTime + 1)
          /\ Fuz' < 0 <=> age <= -60
      BY <3>1, <3>2, PhaseInSeconds, TimesAssumption
    <3> QED BY <3>3 DEF Phase
  <2> QED BY <2>1, <2>3, <2>4, PhaseMeans, TimesAssumption DEF Rank
<1> QED BY <1>1, Types, PTL DEF Spec, PhasesAdvance

-----------------------------------------------------------------------------
(* The hours *)

\* The scan of getnormtimes stops at the first bit that fits.
LEMMA NextBitIs ==
    ASSUME NEW map, NEW i \in 0..24, NEW j \in i..24,
           j = 24 \/ j \in map,
           \A k \in i..(j - 1) : k \notin map
    PROVE  NextBit(map, i) = j
<1> DEFINE Fits(x) == /\ x = 24 \/ x \in map
                      /\ \A k \in i..(x - 1) : k \notin map
<1>1. Fits(j)
  OBVIOUS
<1>2. ASSUME NEW x \in i..24, Fits(x)
      PROVE  x = j
  <2>1. ~(x < j)
    <3> SUFFICES ASSUME x < j PROVE FALSE
      OBVIOUS
    <3>1. x \in i..(j - 1) /\ x # 24
      OBVIOUS
    <3> QED BY <3>1, <1>2
  <2>2. ~(j < x)
    <3> SUFFICES ASSUME j < x PROVE FALSE
      OBVIOUS
    <3>1. j \in i..(x - 1) /\ j # 24
      OBVIOUS
    <3> QED BY <3>1, <1>2
  <2> QED BY <2>1, <2>2
<1>3. NextBit(map, i) = CHOOSE x \in i..24 : Fits(x)
  BY DEF NextBit
<1> HIDE DEF Fits
<1> QED BY <1>1, <1>2, <1>3

\* Hours that are a pair early, late of different, possible hours.
Proper(e, l) == e \in Hours /\ l \in Hours /\ e # l

\* early as pack_timebits takes it
First(e) == IF e = 0 THEN 23 ELSE e

\* The scan finds the hours again; a late of 0 is read as 24, and the pair
\* 0, 23, which opens all 24 hours, as 24, 24.
LEMMA ScanOfPacked ==
    ASSUME NEW e, NEW l, Proper(e, l)
    PROVE  GetNormTimes(PackTimebits(e, l)) =
             IF First(e) = l THEN <<24, 24>>
             ELSE <<First(e), IF l = 0 THEN 24 ELSE l>>
<1> DEFINE f == First(e)
           map == PackTimebits(e, l)
<1>1. f \in 1..23 /\ l \in 0..23 /\ e \in 0..23
  BY DEF Proper, First, Hours
<1>2. map = IF f < l THEN f..(l - 1) ELSE f..23 \cup 0..(l - 1)
  BY <1>1 DEF PackTimebits, Proper, First, Hours
<1>3. map # Bits
  <2>1. 31 \in Bits /\ 31 \notin map
    BY <1>1, <1>2 DEF Bits
  <2> QED BY <2>1
<1> HIDE DEF f, map
<1>4. CASE f < l
  <2>1. 0 \notin map
    BY <1>1, <1>2, <1>4
  <2>2. NextBit(map, 0) = f
    <3>1. f \in 0..24 /\ f \in map /\ \A k \in 0..(f - 1) : k \notin map
      BY <1>1, <1>2, <1>4
    <3> QED BY <3>1, NextBitIs
  <2>3. NextClear(map, f) = l
    <3>1. f \in 0..24 /\ l \in f..24 /\ l \in Bits \ map
          /\ \A k \in f..(l - 1) : k \notin Bits \ map
      BY <1>1, <1>2, <1>4 DEF Bits
    <3> QED BY <3>1, NextBitIs DEF NextClear
  <2>4. GetNormTimes(map) = <<f, l>>
    BY <2>1, <2>2, <2>3 DEF GetNormTimes
  <2> QED BY <1>1, <1>4, <2>4 DEF f, map
<1>5. CASE f > l /\ l = 0
  <2>1. 0 \notin map
    BY <1>1, <1>2, <1>5
  <2>2. NextBit(map, 0) = f
    <3>1. f \in 0..24 /\ f \in map /\ \A k \in 0..(f - 1) : k \notin map
      BY <1>1, <1>2, <1>5
    <3> QED BY <3>1, NextBitIs
  <2>3. NextClear(map, f) = 24
    <3>1. f \in 0..24 /\ 24 \in f..24 /\ \A k \in f..(24 - 1) : k \notin Bits \ map
      BY <1>1, <1>2, <1>5 DEF Bits
    <3> QED BY <3>1, NextBitIs DEF NextClear
  <2>4. GetNormTimes(map) = <<f, 24>>
    BY <2>1, <2>2, <2>3 DEF GetNormTimes
  <2> QED BY <1>1, <1>5, <2>4 DEF f, map
<1>6. CASE f > l /\ l # 0
  <2>1. 0 \in map
    BY <1>1, <1>2, <1>6
  <2>2. NextClear(map, 0) = l
    <3>1. 0 \in 0..24 /\ l \in 0..24 /\ l \in Bits \ map
          /\ \A k \in 0..(l - 1) : k \notin Bits \ map
      BY <1>1, <1>2, <1>6 DEF Bits
    <3> QED BY <3>1, NextBitIs DEF NextClear
  <2>3. NextBit(map, l) = f
    <3>1. l \in 0..24 /\ f \in l..24 /\ f \in map
          /\ \A k \in l..(f - 1) : k \notin map
      BY <1>1, <1>2, <1>6
    <3> QED BY <3>1, NextBitIs
  <2>4. GetNormTimes(map) = <<f, l>>
    BY <1>3, <2>1, <2>2, <2>3 DEF GetNormTimes
  <2> QED BY <1>1, <1>6, <2>4 DEF f, map
<1>7. CASE f = l
  <2>1. map = 0..23
    <3>1. e = 0 /\ l = 23 /\ f = 23
      BY <1>1, <1>7 DEF f, First, Proper
    <3>2. map = 23..23 \cup 0..22
      BY <1>2, <3>1
    <3> QED BY <3>2
  <2>2. NextClear(map, 0) = 24
    <3>1. 0 \in 0..24 /\ 24 \in 0..24 /\ \A k \in 0..(24 - 1) : k \notin Bits \ map
      BY <2>1 DEF Bits
    <3> QED BY <3>1, NextBitIs DEF NextClear
  <2>3. NextBit(map, 24) = 24
    <3>1. 24 \in 0..24 /\ 24 \in 24..24 /\ \A k \in 24..(24 - 1) : k \notin map
      OBVIOUS
    <3> QED BY <3>1, NextBitIs
  <2>4. 0 \in map
    BY <2>1
  <2>5. GetNormTimes(map) = <<24, 24>>
    BY <1>3, <2>2, <2>3, <2>4 DEF GetNormTimes
  <2> QED BY <1>7, <2>5 DEF f, map
<1> QED BY <1>1, <1>4, <1>5, <1>6, <1>7

\* A difference of two hours, modulo a day.
LEMMA HourDifference ==
    ASSUME NEW a \in -23..23
    PROVE  a % 24 = IF a >= 0 THEN a ELSE a + 24
  OBVIOUS

\* pack_timebits against the reference: early = 0 also opens the hour 23.
LEMMA PackedHours ==
    ASSUME NEW e \in Int, NEW l \in Int, Proper(e, l)
    PROVE  PackTimebits(e, l) \cap Hours =
             Window(<<e, l>>) \cup (IF e = 0 THEN {23} ELSE {})
<1>1. e \in 0..23 /\ l \in 0..23 /\ e # l
  BY DEF Proper, Hours
<1>2. Window(<<e, l>>) = {h \in Hours : (h - e) % 24 < (l - e) % 24}
  BY TimesAssumption DEF Window, Proper
<1>3. ASSUME NEW h \in Hours
      PROVE  h \in Window(<<e, l>>) <=>
               IF e < l THEN e <= h /\ h < l ELSE e <= h \/ h < l
  <2>1. h \in 0..23 /\ h - e \in -23..23 /\ l - e \in -23..23
    BY <1>1 DEF Hours
  <2>2. /\ (h - e) % 24 = IF h - e >= 0 THEN h - e ELSE h - e + 24
        /\ (l - e) % 24 = IF l - e >= 0 THEN l - e ELSE l - e + 24
    BY <2>1, HourDifference
  <2> QED BY <1>1, <1>2, <2>1, <2>2
<1>4. ASSUME NEW h \in Hours
      PROVE  h \in PackTimebits(e, l) <=>
               (IF e < l THEN e <= h /\ h < l ELSE e <= h \/ h < l) \/ (e = 0 /\ h = 23)
  BY <1>1 DEF PackTimebits, Hours
<1>5. Window(<<e, l>>) \subseteq Hours /\ 23 \in Hours
  BY <1>2 DEF Hours
<1> QED BY <1>3, <1>4, <1>5

\* What can become of the hours typed: the masks times may have.
KnownMask ==
    /\ typed = NoHours => times = IF since = {} THEN {} ELSE Bits
    /\ typed # NoHours /\ ~Proper(typed[1], typed[2]) => times = Bits
    /\ typed # NoHours /\ Proper(typed[1], typed[2]) =>
          \/ /\ times = PackTimebits(typed[1], typed[2])
             /\ ~(typed[2] = 0 /\ "dump" \in since)
          \/ /\ times = Bits
             /\ \/ First(typed[1]) = typed[2]
                \/ typed[2] = 0 /\ "dump" \in since

\* Typing hours.
LEMMA PackedIsKnown ==
    ASSUME NEW e, NEW l, ~Proper(e, l)
    PROVE  PackTimebits(e, l) = Bits
  BY DEF Proper, PackTimebits

\* What a second pack_timebits makes of the hours that getnormtimes found.
LEMMA PackedAgain ==
    ASSUME NEW e, NEW l, Proper(e, l)
    PROVE  /\ PackTimebits(24, 24) = Bits /\ PackTimebits(0, 0) = Bits
           /\ PackTimebits(First(e), 24) = Bits
           /\ First(e) # l => PackTimebits(First(e), l) = PackTimebits(e, l)
  BY DEF Proper, PackTimebits, First, Hours

LEMMA FullMask == GetNormTimes(Bits) = <<0, 0>>
<1>1. 0 \in Bits
  BY DEF Bits
<1> QED BY <1>1 DEF GetNormTimes

LEMMA EmptyMask == GetNormTimes({}) = <<24, 24>>
<1>1. NextBit({}, 0) = 24
  <2>1. 0 \in 0..24 /\ 24 \in 0..24 /\ \A k \in 0..(24 - 1) : k \notin {}
    OBVIOUS
  <2> QED BY <2>1, NextBitIs
<1>2. NextClear({}, 24) = 24
  <2>1. 24 \in 0..24 /\ 24 \in 24..24 /\ \A k \in 24..(24 - 1) : k \notin Bits \ {}
    OBVIOUS
  <2> QED BY <2>1, NextBitIs DEF NextClear
<1> QED BY <1>1, <1>2 DEF GetNormTimes

LEMMA MaskStep == KnownMask /\ [Next]_vars => KnownMask'
<1> SUFFICES ASSUME KnownMask, [Next]_vars PROVE KnownMask'
  OBVIOUS
<1> DEFINE e == typed[1]
           l == typed[2]
<1>1. CASE \E entry \in Entries : SetHours(entry)
  <2>1. PICK entry \in Entries : SetHours(entry)
    BY <1>1
  <2>2. entry # NoHours
    BY TimesAssumption
  <2>3. typed' = entry /\ since' = {} /\ times' = PackTimebits(entry[1], entry[2])
    BY <2>1 DEF SetHours
  <2> QED BY <2>2, <2>3, PackedIsKnown DEF KnownMask
<1>0. CASE OmitHours
  BY <1>0 DEF OmitHours, KnownMask
<1>2. CASE SubmitForm
  <2>1. typed' = typed /\ since' = since \cup {"form"}
    BY <1>2 DEF SubmitForm
  <2>0. CASE typed = NoHours
    <3>1. times = {} \/ times = Bits
      BY <2>0 DEF KnownMask
    <3>2. GetNormTimes(times) \in {<<24, 24>>, <<0, 0>>}
      BY <3>1, FullMask, EmptyMask
    <3>3. PackTimebits(24, 24) = Bits /\ PackTimebits(0, 0) = Bits
      BY DEF PackTimebits
    <3>4. times' = Bits
      BY <1>2, <3>2, <3>3 DEF SubmitForm, FormValue
    <3> QED BY <2>0, <2>1, <3>4 DEF KnownMask
  <2>2. CASE typed # NoHours /\ times = Bits
    <3>1. times' = Bits
      BY <1>2, <2>2, FullMask DEF SubmitForm, FormValue, PackTimebits
    <3> QED BY <2>1, <2>2, <3>1 DEF KnownMask
  <2>3. CASE typed # NoHours /\ times # Bits
    <3>1. Proper(e, l) /\ times = PackTimebits(e, l) /\ ~(l = 0 /\ "dump" \in since)
      BY <2>3 DEF KnownMask
    <3>2. CASE First(e) = l
      <4>1. GetNormTimes(times) = <<24, 24>>
        BY <3>1, <3>2, ScanOfPacked
      <4>2. times' = Bits
        BY <1>2, <4>1, <3>1, PackedAgain DEF SubmitForm, FormValue
      <4> QED BY <2>1, <2>3, <3>2, <4>2, <3>1 DEF KnownMask
    <3>3. CASE First(e) # l
      <4>1. GetNormTimes(times) = <<First(e), IF l = 0 THEN 24 ELSE l>>
        BY <3>1, <3>3, ScanOfPacked
      <4>2. FormValue(First(e)) = First(e) /\ FormValue(IF l = 0 THEN 24 ELSE l) = l
        BY <3>1 DEF FormValue, First, Proper, Hours
      <4>3. times' = PackTimebits(First(e), l)
        BY <1>2, <4>1, <4>2 DEF SubmitForm
      <4>4. times' = PackTimebits(e, l)
        BY <3>1, <3>3, <4>3, PackedAgain
      <4> QED BY <2>1, <2>3, <3>1, <4>4 DEF KnownMask
    <3> QED BY <3>2, <3>3
  <2> QED BY <2>0, <2>2, <2>3
<1>3. CASE Reload
  <2>1. typed' = typed /\ since' = since \cup {"dump"}
    BY <1>3 DEF Reload
  <2>0. CASE typed = NoHours
    <3>1. times = {} \/ times = Bits
      BY <2>0 DEF KnownMask
    <3>2. GetNormTimes(times) \in {<<24, 24>>, <<0, 0>>}
      BY <3>1, FullMask, EmptyMask
    <3>3. PackTimebits(24, 24) = Bits /\ PackTimebits(0, 0) = Bits
      BY DEF PackTimebits
    <3>4. times' = Bits
      BY <1>3, <3>2, <3>3 DEF Reload
    <3> QED BY <2>0, <2>1, <3>4 DEF KnownMask
  <2>2. CASE typed # NoHours /\ times = Bits
    <3>1. times' = Bits
      BY <1>3, <2>2, FullMask DEF Reload, PackTimebits
    <3> QED BY <2>1, <2>2, <3>1 DEF KnownMask
  <2>3. CASE typed # NoHours /\ times # Bits
    <3>1. Proper(e, l) /\ times = PackTimebits(e, l) /\ ~(l = 0 /\ "dump" \in since)
      BY <2>3 DEF KnownMask
    <3>2. CASE First(e) = l
      <4>1. GetNormTimes(times) = <<24, 24>>
        BY <3>1, <3>2, ScanOfPacked
      <4>2. times' = Bits
        BY <1>3, <4>1, <3>1, PackedAgain DEF Reload
      <4> QED BY <2>1, <2>3, <3>2, <4>2, <3>1 DEF KnownMask
    <3>3. CASE First(e) # l /\ l = 0
      <4>1. GetNormTimes(times) = <<First(e), 24>>
        BY <3>1, <3>3, ScanOfPacked
      <4>2. times' = Bits
        BY <1>3, <4>1, <3>1, PackedAgain DEF Reload
      <4> QED BY <2>1, <2>3, <3>1, <3>3, <4>2 DEF KnownMask
    <3>4. CASE First(e) # l /\ l # 0
      <4>1. GetNormTimes(times) = <<First(e), l>>
        BY <3>1, <3>4, ScanOfPacked
      <4>2. times' = PackTimebits(e, l)
        BY <1>3, <3>1, <3>4, <4>1, PackedAgain DEF Reload
      <4> QED BY <2>1, <2>3, <3>1, <3>4, <4>2 DEF KnownMask
    <3> QED BY <3>2, <3>3, <3>4
  <2> QED BY <2>0, <2>2, <2>3
<1>4. CASE UNCHANGED <<times, typed, since>>
  BY <1>4 DEF KnownMask
<1> QED
  BY <1>0, <1>1, <1>2, <1>3, <1>4 DEF Next, vars, Advance, Submit, Mash, Check, Stamp, Look

LEMMA KnownMaskMeans == TypeOK /\ KnownMask => HoursAsTyped
<1> SUFFICES ASSUME TypeOK, KnownMask PROVE HoursAsTyped
  OBVIOUS
<1> DEFINE e == typed[1]
           l == typed[2]
<1>1. Bits \cap Hours = Hours
  BY DEF Bits, Hours
<1>6. CASE typed = NoHours
  BY <1>1, <1>6 DEF KnownMask, HoursAsTyped, Window, Slips
<1> SUFFICES ASSUME typed # NoHours PROVE HoursAsTyped
  BY <1>6
<1>0. typed = <<e, l>> /\ e \in Int /\ l \in Int
  BY TimesAssumption DEF TypeOK
<1>2. CASE ~Proper(e, l)
  BY <1>1, <1>2 DEF KnownMask, HoursAsTyped, Window, Slips, Proper
<1>3. CASE Proper(e, l) /\ times = Bits /\ First(e) = l
  <2>1. e = 0 /\ l = 23
    BY <1>3 DEF Proper, First
  <2>2. PackTimebits(e, l) \cap Hours = Hours
    BY <2>1 DEF PackTimebits, Hours
  <2>3. Window(typed) \cup {23} = Hours
    BY <1>0, <1>3, <2>1, <2>2, PackedHours
  <2> QED BY <1>1, <1>3, <2>1, <2>3 DEF HoursAsTyped, Slips, Hours
<1>4. CASE Proper(e, l) /\ times = Bits /\ l = 0 /\ "dump" \in since
  <2>1. Slips(typed, since) = Hours
    BY <1>4 DEF Slips, Proper, Hours
  <2>2. Window(typed) \subseteq Hours
    BY DEF Window
  <2> QED BY <1>1, <1>4, <2>1, <2>2 DEF HoursAsTyped
<1>5. CASE Proper(e, l) /\ times = PackTimebits(e, l) /\ ~(l = 0 /\ "dump" \in since)
  <2>1. Slips(typed, since) = IF e = 0 THEN {23} ELSE {}
    BY <1>5 DEF Slips, Proper, Hours
  <2> QED BY <1>0, <1>5, <2>1, PackedHours DEF HoursAsTyped
<1> QED BY <1>2, <1>3, <1>4, <1>5 DEF KnownMask

LEMMA MasksAreKnown == Spec => []KnownMask
<1>1. Init => KnownMask
  <2> SUFFICES ASSUME Init PROVE KnownMask
    OBVIOUS
  <2>1. typed # NoHours
    BY TimesAssumption DEF Init
  <2> QED BY <2>1, PackedIsKnown DEF Init, KnownMask
<1> QED BY <1>1, MaskStep, PTL DEF Spec

(* The hours typed for a user are the hours kept for him, for all pairs of     *)
(* integers and any sequence of forms and reloads, but for the three slips.    *)
THEOREM HoursSurvive == Spec => []HoursAsTyped
  BY Types, MasksAreKnown, KnownMaskMeans, PTL

-----------------------------------------------------------------------------
(* The hour of a page *)

\* check_time let the page pass: the hour it was meant for was wished for.
PassedInHours ==
    stage \in {"passed", "waiting", "due"} /\ priority = PR_NORMAL =>
        Hour(Later(checked, soonest)) \in wished

LEMMA HourStep == TypeOK /\ HoursAsTyped /\ PassedInHours /\ [Next]_vars => PassedInHours'
<1> SUFFICES ASSUME TypeOK, HoursAsTyped, PassedInHours, [Next]_vars PROVE PassedInHours'
  OBVIOUS
<1>1. CASE Submit \/ Mash
  <2>1. PICK pr \in {PR_HIGH, PR_NORMAL}, t \in Int, viaMash \in BOOLEAN : Check(pr, t, viaMash)
    <3>1. CASE Submit
      <4>1. PICK pr \in {PR_HIGH, PR_NORMAL}, t \in Holds \cup {0} : Check(pr, t, FALSE)
        BY <3>1 DEF Submit
      <4>2. t \in Int /\ FALSE \in BOOLEAN
        BY TimesAssumption
      <4> QED BY <4>1, <4>2, Zenon
    <3>2. CASE Mash
      <4>1. PICK t \in Garbage : Check(PR_NORMAL, t, TRUE)
        BY <3>2 DEF Mash
      <4>2. t \in Int /\ PR_NORMAL \in {PR_HIGH, PR_NORMAL} /\ TRUE \in BOOLEAN
        BY TimesAssumption
      <4> QED BY <4>1, <4>2, Zenon
    <3> QED BY <1>1, <3>1, <3>2
  <2>2. SUFFICES ASSUME stage' = "passed", priority' = PR_NORMAL
                 PROVE  Hour(Later(now, t)) \in Window(typed) \cup Slips(typed, since)
    <3>1. Hour(Later(checked, soonest))' = Hour(Later(now, t))
      BY <2>1 DEF Check, Hour, Later
    <3>2. stage' \in {"passed", "refused"} /\ wished' = Window(typed) \cup Slips(typed, since)
      BY <2>1 DEF Check
    <3> QED BY <2>2, <3>1, <3>2 DEF PassedInHours
  <2>3. pr = PR_NORMAL /\ CheckTime(pr, t)
    BY <2>1, <2>2 DEF Check
  <2>4. Hour(Later(now, t)) \in times
    BY <2>3 DEF CheckTime, PR_HIGH, PR_NORMAL
  <2>5. Hour(Later(now, t)) \in Hours
    <3>1. Later(now, t) \in Int
      BY LaterType DEF TypeOK
    <3> QED BY <3>1 DEF Hour, Hours
  <2> QED BY <2>4, <2>5 DEF HoursAsTyped
<1>2. CASE ~(Submit \/ Mash)
  <2>1. UNCHANGED <<priority, checked, soonest, wished>>
    BY <1>2 DEF Next, vars, page, history, Advance, SetHours, OmitHours, SubmitForm, Reload, Stamp, Look
  <2>2. stage' \in {"passed", "waiting", "due"} => stage \in {"passed", "waiting", "due"}
    BY <1>2, PhaseMeans
       DEF Next, vars, page, history, Advance, SetHours, OmitHours, SubmitForm, Reload, Stamp, Look
  <2>3. Hour(Later(checked, soonest))' = Hour(Later(checked, soonest))
    BY <2>1 DEF Hour, Later
  <2> QED BY <2>1, <2>2, <2>3 DEF PassedInHours
<1> QED BY <1>1, <1>2

(* A normal page reaches a runner within its lifetime of an hour its recipient *)
(* wished for, whatever he typed since and however long it was held.           *)
THEOREM PagedInHours == Spec => []NormalPagesComeInHours
<1>1. Init => PassedInHours
  BY DEF Init, PassedInHours
<1>2. TypeOK /\ DueInItsWindow /\ PassedInHours => NormalPagesComeInHours
  <2> SUFFICES ASSUME TypeOK, DueInItsWindow, PassedInHours, stage = "due",
                      priority = PR_NORMAL
               PROVE  NormalPagesComeInHours
    BY DEF NormalPagesComeInHours
  <2>1. looked < Later(submitted, soonest) + 60 * (MaxQueueTime + 1)
    BY DEF DueInItsWindow
  <2>2. /\ looked \in Int /\ Later(submitted, soonest) \in Int
        /\ Later(checked, soonest) \in Int /\ 60 * (MaxQueueTime + 1) \in Int
    <3>1. checked \in Int /\ submitted \in Int /\ soonest \in Int /\ looked \in Int
      BY DEF TypeOK
    <3>2. 60 * (MaxQueueTime + 1) \in Int
      BY TimesAssumption
    <3> QED BY <3>1, <3>2, LaterType
  <2>3. looked - Later(checked, soonest) < 60 * (MaxQueueTime + 1)
            + (Later(submitted, soonest) - Later(checked, soonest))
    BY <2>1, <2>2
  <2> QED BY <2>3 DEF NormalPagesComeInHours, PassedInHours
<1> QED BY <1>1, <1>2, HourStep, Types, HoursSurvive, WindowIsKept, PTL DEF Spec
=============================================================================
