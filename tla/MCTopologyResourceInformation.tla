------------------- MODULE MCTopologyResourceInformation -------------------
(***************************************************************************)
(* The instances of CgroupCpusets, with processes that count its tasks.    *)
(***************************************************************************)
EXTENDS TopologyResourceInformation, MCCgroupCpusets
=============================================================================
