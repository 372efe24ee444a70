--------------------------- MODULE HwlocTopology ---------------------------
(***************************************************************************)
(* HwlocTopologyProcess: what its constructor makes of the tree of         *)
(* hardware objects hwloc reports (src/HwlocTopology.cpp).  The recursion  *)
(* of discoverCpuTopology, first child and then next sibling, visits the   *)
(* tree in preorder; so does that of find_gpus below the first bridge.     *)
(* Objects are numbered in that order, the root is 1, and one step visits  *)
(* one object.                                                             *)
(***************************************************************************)
EXTENDS Integers, Sequences, FiniteSets

CONSTANT Topologies   \* the machines to explore

Types == {"machine", "socket", "numanode", "core", "pu",
          "bridge", "pcidev", "osdev"}

(***************************************************************************)
(* A machine, as hwloc describes it: n objects, and of each its type, its  *)
(* parent, its os_index, whether its PCI vendor is NVIDIA, and its lineage *)
(* (itself and all its ancestors).  The root is the machine.  Preorder     *)
(* means that the parent of an object is the object before it, or an       *)
(* ancestor of that one.                                                   *)
(***************************************************************************)
ASSUME TopologyAssumption ==
  \A t \in Topologies :
    /\ t.n \in Nat \ {0}
    /\ t.type \in [1 .. t.n -> Types]
    /\ t.parent \in [2 .. t.n -> 1 .. t.n]
    /\ t.os_index \in [1 .. t.n -> Nat]
    /\ t.nvidia \subseteq 1 .. t.n
    /\ t.lineage \in [1 .. t.n -> SUBSET (1 .. t.n)]
    /\ \A o \in 1 .. t.n : \A a \in t.lineage[o] : a <= o
    /\ t.type[1] = "machine"
    /\ t.lineage[1] = {1}
    /\ \A o \in 2 .. t.n : t.lineage[o] = {o} \cup t.lineage[t.parent[o]]
    /\ \A o \in 1 .. t.n : o \in t.lineage[o]
    /\ \A o \in 2 .. t.n : t.parent[o] \in t.lineage[o - 1]

VARIABLES
  topology,        \* the machine, constant
  phase,           \* "cpu", "gpu", then "ready" or "segfault"
  component,       \* the object to visit next
  coresPerSocket,  \* the three maps of the process
  coresPerNuma,
  pusPerCore,
  gpus             \* its gpus, in the order found

maps == <<coresPerSocket, coresPerNuma, pusPerCore>>
vars == <<topology, phase, component, maps, gpus>>

type(o) == topology.type[o]
parent(o) == topology.parent[o]
os_index(o) == topology.os_index[o]
Lineage(o) == topology.lineage[o]

OfType(T) == {o \in 1 .. topology.n : type(o) = T}

EmptyMap == [k \in {} |-> <<>>]

(***************************************************************************)
(* The topology is there: when hwloc_topology_init fails the agent exits   *)
(* before it has a process, and a load that fails, which nobody looks at,  *)
(* leaves a machine of one object.                                         *)
(***************************************************************************)
Init ==
  /\ topology \in Topologies
  /\ phase = "cpu"
  /\ component = 2
  /\ coresPerSocket = EmptyMap
  /\ coresPerNuma = EmptyMap
  /\ pusPerCore = EmptyMap
  /\ gpus = <<>>
-----------------------------------------------------------------------------
HaltIsIncluded(halt, obj, T) ==   \* mutant: halt is tested before it stops
  \E a \in Lineage(obj) :
    /\ type(a) = T
    /\ halt \in Lineage(obj) => halt \in Lineage(a)

(***************************************************************************)
(* find_parent_by_type: an object of type T on the way up from obj, obj    *)
(* included, before halt is met.  When halt is not on that way the search  *)
(* goes up to the root.                                                    *)
(***************************************************************************)
find_parent_by_type(halt, obj, T) ==
  \E a \in Lineage(obj) :
    /\ type(a) = T
    /\ halt \in Lineage(obj) => a # halt /\ halt \in Lineage(a)

(***************************************************************************)
(* map::insert and map::operator[]= : the first leaves a key that is       *)
(* already there alone.                                                    *)
(***************************************************************************)
Assigned(map, k, v) == [x \in DOMAIN map \cup {k} |-> IF x = k THEN v ELSE map[x]]

AlwaysAssigned(map, k, v) == Assigned(map, k, v)   \* mutant: operator[]= for insert

Inserted(map, k, v) == IF k \in DOMAIN map THEN map ELSE Assigned(map, k, v)

Visiting(T) ==
  /\ phase = "cpu"
  /\ component <= topology.n
  /\ type(component) = T
  /\ component' = component + 1
  /\ UNCHANGED <<topology, phase, gpus>>

VisitSocketByParent ==   \* mutant: the key is the parent's
  /\ Visiting("socket")
  /\ coresPerSocket' = Inserted(coresPerSocket, parent(component), <<>>)
  /\ UNCHANGED <<coresPerNuma, pusPerCore>>

VisitSocket ==
  /\ Visiting("socket")
  /\ coresPerSocket' = Inserted(coresPerSocket, component, <<>>)
  /\ UNCHANGED <<coresPerNuma, pusPerCore>>

VisitNumaNodeAsSocket ==   \* mutant: the other map
  /\ Visiting("numanode")
  /\ coresPerSocket' = Inserted(coresPerSocket, component, <<>>)
  /\ UNCHANGED <<coresPerNuma, pusPerCore>>

VisitNumaNode ==
  /\ Visiting("numanode")
  /\ coresPerNuma' = Inserted(coresPerNuma, os_index(component), <<>>)
  /\ UNCHANGED <<coresPerSocket, pusPerCore>>

Sockets == {s \in DOMAIN coresPerSocket :
              find_parent_by_type(s, component, "socket")}

Copies(x, k) == [i \in 1 .. k |-> x]

PlacedAtNode(k, x, times) ==
  IF k \in DOMAIN coresPerNuma
  THEN Assigned(coresPerNuma, k, coresPerNuma[k] \o Copies(x, times))
  ELSE Assigned(coresPerNuma, k, Copies(x, times - 1))

VisitCoreAtNode ==   \* mutant: the key is the NUMA node above the core
  /\ Visiting("core")
  /\ \/ /\ Sockets = {} \/ Lineage(component) \cap OfType("numanode") = {}
        /\ UNCHANGED coresPerNuma
     \/ /\ Sockets # {}
        /\ \E node \in Lineage(component) \cap OfType("numanode") :
             coresPerNuma' = PlacedAtNode(os_index(node), os_index(component),
                                          Cardinality(Sockets))
  /\ UNCHANGED <<coresPerSocket, pusPerCore>>

(***************************************************************************)
(* A core goes through the sockets found so far and takes those for which  *)
(* find_parent_by_type succeeds.  For each of them a copy of its vector    *)
(* grows and is inserted.  And if the core is below a NUMA node, the map   *)
(* of nodes changes at the os_index of the core: one more entry if the key *)
(* is there, the key alone if it is not.                                   *)
(***************************************************************************)
VisitCore ==
  /\ Visiting("core")
  /\ coresPerSocket' =
       [s \in DOMAIN coresPerSocket |->
          IF s \in Sockets
          THEN Inserted(coresPerSocket, s, Append(coresPerSocket[s], component))[s]
          ELSE coresPerSocket[s]]
  /\ coresPerNuma' =
       IF Sockets # {} /\ find_parent_by_type(1, component, "numanode")
       THEN PlacedAtNode(os_index(component), os_index(component),
                         Cardinality(Sockets))
       ELSE coresPerNuma
  /\ UNCHANGED pusPerCore

(***************************************************************************)
(* A processing unit is entered under its parent if there is a core        *)
(* between the two.                                                        *)
(***************************************************************************)
VisitPU ==
  /\ Visiting("pu")
  /\ pusPerCore' =
       IF find_parent_by_type(parent(component), component, "core")
       THEN Assigned(pusPerCore, parent(component),
                     Append(IF parent(component) \in DOMAIN pusPerCore
                            THEN pusPerCore[parent(component)] ELSE <<>>,
                            component))
       ELSE pusPerCore
  /\ UNCHANGED <<coresPerSocket, coresPerNuma>>

VisitOtherAgain ==   \* mutant: the sibling after child, not after component
  /\ phase = "cpu"
  /\ component <= topology.n
  /\ type(component) \notin {"socket", "numanode", "core", "pu"}
  /\ UNCHANGED vars

VisitOther ==
  /\ Visiting(type(component))
  /\ type(component) \notin {"socket", "numanode", "core", "pu"}
  /\ UNCHANGED maps
-----------------------------------------------------------------------------
(***************************************************************************)
(* discoverGpuTopology starts at the first bridge of the machine.  Without *)
(* one, hwloc_get_next_child is asked for the children of a null pointer.  *)
(***************************************************************************)
FirstBridge(b) == b \in OfType("bridge") /\ \A c \in OfType("bridge") : b <= c

CpuDone ==
  /\ phase = "cpu"
  /\ component > topology.n
  /\ \E b \in OfType("bridge") : FirstBridge(b) /\ component' = b + 1
  /\ phase' = "gpu"
  /\ UNCHANGED <<topology, maps, gpus>>

NoBridge ==
  /\ phase = "cpu"
  /\ component > topology.n
  /\ OfType("bridge") = {}
  /\ phase' = "segfault"
  /\ UNCHANGED <<topology, component, maps, gpus>>

(***************************************************************************)
(* find_gpus looks at the objects below the bridge that have no children   *)
(* of their own, and keeps those whose PCI vendor is NVIDIA.  (Objects     *)
(* that are no PCI device are read as if they were; the vendor is zero.)   *)
(***************************************************************************)
BelowBridge(o) == \E b \in Lineage(o) \ {o} : FirstBridge(b)

IsLeaf(o) == \A d \in 2 .. topology.n : parent(d) # o

VisitPciAnywhere ==   \* mutant: the arity is not looked at
  /\ phase = "gpu"
  /\ component <= topology.n
  /\ BelowBridge(component)
  /\ gpus' = IF component \in topology.nvidia THEN Append(gpus, component) ELSE gpus
  /\ component' = component + 1
  /\ UNCHANGED <<topology, phase, maps>>

VisitPci ==
  /\ phase = "gpu"
  /\ component <= topology.n
  /\ BelowBridge(component)
  /\ gpus' = IF IsLeaf(component) /\ component \in topology.nvidia
             THEN Append(gpus, component) ELSE gpus
  /\ component' = component + 1
  /\ UNCHANGED <<topology, phase, maps>>

GpuDone ==
  /\ phase = "gpu"
  /\ component <= topology.n => ~ BelowBridge(component)
  /\ phase' = "ready"
  /\ UNCHANGED <<topology, component, maps, gpus>>

Next ==
  \/ VisitSocket
  \/ VisitNumaNode
  \/ VisitCore
  \/ VisitPU
  \/ VisitOther
  \/ CpuDone
  \/ NoBridge
  \/ VisitPci
  \/ GpuDone

(***************************************************************************)
(* The constructor runs to its end on the thread that called it.           *)
(***************************************************************************)
Spec == Init /\ [][Next]_vars /\ WF_vars(Next)
-----------------------------------------------------------------------------
(***************************************************************************)
(* What the process answers from its maps.                                 *)
(***************************************************************************)
nSockets == Cardinality(DOMAIN coresPerSocket)

nCores == Cardinality(DOMAIN pusPerCore)

nCoresPerSocket(s) == Len(coresPerSocket[s])

nProcessUnitsPerCore == [c \in DOMAIN pusPerCore |-> Len(pusPerCore[c])]

(* getCoreDistance: the distances it takes, and of those the latency.      *)
LatencyIndex(i, j) == i * nCores + j

getNumaForCore(core) ==
  IF core \in DOMAIN coresPerNuma /\ coresPerNuma[core] # <<>>
  THEN coresPerNuma[core][1]
  ELSE -1
-----------------------------------------------------------------------------
TypeOK ==
  /\ phase \in {"cpu", "gpu", "ready", "segfault"}
  /\ component \in Nat
  /\ DOMAIN coresPerSocket \subseteq OfType("socket")
  /\ \A k \in DOMAIN coresPerNuma : coresPerNuma[k] \in Seq(Nat)
  /\ gpus \in Seq(1 .. topology.n)

(***************************************************************************)
(* No processing unit is ever entered under its core: the search of line   *)
(* 225 stops at the very object it is looking for.  So nCores() is 0 on    *)
(* every machine, and with it the items of the scheduler's policy          *)
(* (src/TopologyResourceInformation.hpp:233-244); no cpu indexes the       *)
(* processing units that the weights are divided by (line 143 there); and  *)
(* the distance of two cores (line 49) is looked up by the second alone.   *)
(***************************************************************************)
NoCoreIsFound ==
  /\ nCores = 0
  /\ \A o \in OfType("pu") : os_index(o) \notin 0 .. Cardinality(DOMAIN nProcessUnitsPerCore) - 1
  /\ \A i, j \in OfType("core") :
       LatencyIndex(os_index(i), os_index(j)) = os_index(j)

(***************************************************************************)
(* No socket ever holds a core (lines 195-203), not even the cores that    *)
(* find_parent_by_type places there: the header's "keys are sockets,       *)
(* values are cores" (HwlocTopology.hpp:182) is never so, and what         *)
(* nCoresPerSocket() answers is zero for each socket.                      *)
(***************************************************************************)
NoSocketGetsACore == \A s \in DOMAIN coresPerSocket : nCoresPerSocket(s) = 0

(***************************************************************************)
(* The vector of a NUMA node holds nothing but the node's own number,      *)
(* because a core enters itself under its own os_index (lines 206-215).    *)
(* What getNumaForCore answers for a core is that core, or -1.             *)
(***************************************************************************)
NumaEntriesNameThemselves ==
  \A k \in DOMAIN coresPerNuma :
    /\ \A i \in DOMAIN coresPerNuma[k] : coresPerNuma[k][i] = k
    /\ getNumaForCore(k) \in {-1, k}

(***************************************************************************)
(* A core only meets sockets other than its own (line 201), so a machine   *)
(* with one socket places none of its cores and getNumaForCore answers -1  *)
(* for all of them.                                                        *)
(***************************************************************************)
OneSocketPlacesNoCore ==
  Cardinality(OfType("socket")) <= 1 =>
    \A k \in DOMAIN coresPerNuma : coresPerNuma[k] = <<>>

(***************************************************************************)
(* The walk misses no socket and no NUMA node, at any depth and with       *)
(* devices in between: nSockets() is right once the cpus are discovered.   *)
(***************************************************************************)
SocketsAndNodesAreFound ==
  phase # "cpu" =>
    /\ nSockets = Cardinality(OfType("socket"))
    /\ \A o \in OfType("numanode") : os_index(o) \in DOMAIN coresPerNuma

(***************************************************************************)
(* The gpus are the NVIDIA objects without children below the first        *)
(* bridge, each once (lines 252-273).                                      *)
(***************************************************************************)
GpusAreLeavesOfFirstBridge ==
  phase = "ready" =>
    LET found == {gpus[i] : i \in DOMAIN gpus}
    IN  /\ found = {o \in topology.nvidia : IsLeaf(o) /\ BelowBridge(o)}
        /\ Len(gpus) = Cardinality(found)

(***************************************************************************)
(* The two walks end, in a process that is ready or in a crash.            *)
(***************************************************************************)
DiscoveryEnds == <>(phase \in {"ready", "segfault"})
=============================================================================
