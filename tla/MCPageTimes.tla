---------------------------- MODULE MCPageTimes ----------------------------
(* An instance of PageTimes for TLC.  Instants lie on both sides of every      *)
(* boundary that a page submitted or held at six or at seven o'clock can meet: *)
(* the hour, the minute before it is due, the last second of its lifetime.     *)
EXTENDS PageTimes

Six   == 6 * 3600
Seven == 7 * 3600

TestInstants ==
    {0, Six, Seven - 60, Seven - 59, Seven - 1, Seven, Seven + 59,
     Seven + 119, Seven + 120, 23 * 3600}
TestHolds   == {Seven}
\* Pairs in order, across midnight, at either end of the day, impossible.
TestEntries == {<<7, 23>>, <<22, 7>>, <<7, 0>>, <<23, 0>>, <<0, 23>>, <<7, 40>>}
TestGarbage == {-1, Seven, 86400}
=============================================================================
