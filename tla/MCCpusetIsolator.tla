-------------------------- MODULE MCCpusetIsolator --------------------------
(***************************************************************************)
(* Instances of CpusetIsolator for TLC, with one container and with two.   *)
(***************************************************************************)
EXTENDS CpusetIsolator

CONSTANTS c1, c2

MCOneContainer == {c1}

MCTwoContainers == {c1, c2}
=============================================================================
