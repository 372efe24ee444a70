-------------------------- MODULE MCCgroupCpusets --------------------------
(***************************************************************************)
(* Instances of CgroupCpusets for TLC: three cpus, the fewest with one in  *)
(* the middle of a run, and one memory node.                               *)
(***************************************************************************)
EXTENDS CgroupCpusets

MCCpus == 0 .. 2

MCNodes == {0}

(* Vectors of no, one and several cpus, and one that is not on the machine *)
MCLists == {<<>>, <<0>>, <<1>>, <<0, 2>>, <<0, 1, 2>>, <<3>>}

MCUpperLists == {<<>>, <<1, 2>>}

(* A value no cpu has, one in the middle and one past the end.             *)
MCGarbage == {-1, 1, 4}

(* The cpus 1 and 2 in one run, read with and without what is behind it.   *)
MCUpperGarbage == {2, 4}

(* Vectors of one cpu, and garbage that adds no cpu to a run: what remains *)
(* of the parser's faults is that it leaves out the cpu 1.                 *)
MCSingles == {<<0>>, <<2>>}

MCHarmlessGarbage == {-1}
=============================================================================
