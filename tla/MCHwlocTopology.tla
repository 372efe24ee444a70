-------------------------- MODULE MCHwlocTopology --------------------------
(***************************************************************************)
(* Machines for TLC.  A tree is written as the list of its objects in      *)
(* preorder, each with its depth; the parent of an object is the last one  *)
(* before it that is one level up.                                         *)
(***************************************************************************)
EXTENDS HwlocTopology, SequencesExt, FiniteSetsExt

CONSTANTS
  MaxSockets,
  MaxCores,      \* cores per socket
  MaxPUs         \* processing units per core

Obj(type_, depth, index) ==
  [type |-> type_, depth |-> depth, os_index |-> index, nvidia |-> FALSE]

Nvidia(type_, depth) ==
  [type |-> type_, depth |-> depth, os_index |-> 0, nvidia |-> TRUE]

(* k copies of a list, the i-th made by list(i).                           *)
Repeat(k, list(_)) == FlattenSeq([i \in 1 .. k |-> list(i - 1)])

Core(depth, index, p) ==
  <<Obj("core", depth, index)>>
    \o Repeat(p, LAMBDA i : <<Obj("pu", depth + 1, p * index + i)>>)

(***************************************************************************)
(* NUMA nodes may be above the sockets, below them, or missing; cores are  *)
(* numbered through the machine or from 0 in each socket.                  *)
(***************************************************************************)
Package(numa, local, cores, p, s) ==
  LET up == IF numa = "none" THEN 0 ELSE 1
      index(c) == IF local THEN c ELSE s * cores + c
      below == Repeat(cores, LAMBDA c : Core(2 + up, index(c), p))
  IN  CASE numa = "none"  -> <<Obj("socket", 1, s)>> \o below
        [] numa = "above" -> <<Obj("numanode", 1, s), Obj("socket", 2, s)>> \o below
        [] numa = "below" -> <<Obj("socket", 1, s), Obj("numanode", 2, s)>> \o below

(***************************************************************************)
(* PCI: no bridge; a bridge with two bare cards; a card with the OS device *)
(* of its driver below it; a second host bridge with a card.               *)
(***************************************************************************)
Pci ==
  { <<>>,
    <<Obj("bridge", 1, 0), Nvidia("pcidev", 2), Obj("pcidev", 2, 0),
      Obj("bridge", 2, 0), Nvidia("pcidev", 3)>>,
    <<Obj("bridge", 1, 0), Nvidia("pcidev", 2), Obj("osdev", 3, 0),
      Nvidia("pcidev", 2)>>,
    <<Obj("bridge", 1, 0), Obj("pcidev", 2, 0), Obj("bridge", 1, 0),
      Nvidia("pcidev", 2)>> }

Machine(list) ==
  LET n == Len(list)
      up == [o \in 2 .. n |->
               Max({a \in 1 .. o - 1 : list[a].depth = list[o].depth - 1})]
      line[o \in 1 .. n] == {o} \cup (IF o = 1 THEN {} ELSE line[up[o]])
  IN  [n |-> n,
       type |-> [o \in 1 .. n |-> list[o].type],
       parent |-> up,
       os_index |-> [o \in 1 .. n |-> list[o].os_index],
       nvidia |-> {o \in 1 .. n : list[o].nvidia},
       lineage |-> line]

(***************************************************************************)
(* A machine without a socket is what a failed load leaves.                *)
(***************************************************************************)
MCTopologies ==
  { Machine(<<Obj("machine", 0, 0)>>
              \o Repeat(s, LAMBDA i : Package(numa, local, cores, p, i)) \o pci) :
    s \in 0 .. MaxSockets, numa \in {"none", "above", "below"},
    local \in BOOLEAN, cores \in 1 .. MaxCores, p \in 1 .. MaxPUs, pci \in Pci }
=============================================================================
