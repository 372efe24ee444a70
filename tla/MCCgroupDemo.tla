---------------------------- MODULE MCCgroupDemo ----------------------------
(***************************************************************************)
(* The demo on the machine of MCCgroupCpusets, and on one with a second    *)
(* memory node, where the list of nodes may by luck be accepted.           *)
(***************************************************************************)
EXTENDS CgroupDemo, MCCgroupCpusets

MCTwoNodes == 0 .. 1

MCLowGarbage == {1, 4}
=============================================================================
