--------------------- MODULE MCCpusetResourceEstimator ---------------------
(***************************************************************************)
(* Databases for TLC: up to two records, one alone with any array of up to *)
(* two entries or three samples of different times, two with a few, the    *)
(* first with a sample of a later time than the second's: a failed read    *)
(* may leave it behind.                                                    *)
(***************************************************************************)
EXTENDS CpusetResourceEstimator, SequencesExt

CONSTANTS Times, MaxCount

SomeSamples == [kind : {"sample"}, time : Times, count : 0 .. MaxCount]

Odd == [kind |-> "odd"]

Wide == [kind |-> "wide"]

One(n) == [kind |-> "sample", time |-> 1, count |-> n]

Later(n) == [One(n) EXCEPT !.time = 2]

FirstRecords ==
  SeqOf(SomeSamples \cup {Odd, Wide}, 2)
    \cup {[i \in 1 .. 3 |-> [One(counts[i]) EXCEPT !.time = i]] :
            counts \in [1 .. 3 -> 0 .. MaxCount]}

SecondRecords == {<<>>, <<One(1)>>, <<One(1), Wide>>, <<Odd>>}

MCDatabases ==
  [latest : {1, 2, None},
   records : {<<>>} \cup [{1} -> FirstRecords] \cup [{2} -> FirstRecords]
               \cup {<<a, b>> : a \in {<<>>, <<Later(2)>>}, b \in SecondRecords},
   startDtg : BOOLEAN]
=============================================================================
