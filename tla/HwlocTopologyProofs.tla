------------------------ MODULE HwlocTopologyProofs ------------------------
(***************************************************************************)
(* Theorems about HwlocTopology, for every tree of objects that satisfies  *)
(* TopologyAssumption: any number of objects of any types in any nesting.  *)
(*                                                                         *)
(* The argument is about find_parent_by_type.  Its search goes up from an  *)
(* object and stops at halt, so with the parent as halt it sees the object *)
(* alone (ParentIsNeverFound); and with a socket as halt it can only find  *)
(* a socket that is not this one (OtherSocketIsFound).                     *)
(*                                                                         *)
(* For the gpus it is about preorder: what is below an object comes right  *)
(* after it without a gap (SubtreeHasNoGap), so that the walk may stop at  *)
(* the first object that is not below the bridge.                          *)
(***************************************************************************)
EXTENDS HwlocTopology, FoldLemmas

(***************************************************************************)
(* Every entry of a node's vector is the key of the vector.                *)
(***************************************************************************)
SelfEntries ==
  /\ coresPerNuma = [k \in DOMAIN coresPerNuma |-> coresPerNuma[k]]
  /\ DOMAIN coresPerNuma \subseteq Nat
  /\ \A k \in DOMAIN coresPerNuma : coresPerNuma[k] \in Seq({k})

(***************************************************************************)
(* Insert finds the key of a socket there and drops the vector that grew.  *)
(***************************************************************************)
SocketsAreEmpty == \A s \in DOMAIN coresPerSocket : coresPerSocket[s] = <<>>

(***************************************************************************)
(* The objects the first walk is past have their keys.                     *)
(***************************************************************************)
Passed(o) == phase = "cpu" => o < component

KeysAreThere ==
  \A o \in 1 .. topology.n : Passed(o) =>
    /\ type(o) = "socket" => o \in DOMAIN coresPerSocket
    /\ type(o) = "numanode" => os_index(o) \in DOMAIN coresPerNuma

(***************************************************************************)
(* The gpus are those of the objects the second walk is past, each once;   *)
(* it began below the first bridge and ends outside of it.                 *)
(***************************************************************************)
IsGpu(o) == o \in topology.nvidia /\ IsLeaf(o) /\ BelowBridge(o)

InSecondWalk == phase \in {"gpu", "ready"}

NoneBeforeSecondWalk == ~ InSecondWalk => gpus = <<>>

GpusSoFar ==
  InSecondWalk =>
    /\ \A i \in DOMAIN gpus : IsGpu(gpus[i]) /\ gpus[i] < component
    /\ \A o \in 1 .. topology.n :
         IsGpu(o) /\ o < component => \E i \in DOMAIN gpus : gpus[i] = o
    /\ \A i, j \in DOMAIN gpus : gpus[i] = gpus[j] => i = j

PastTheBridge ==
  /\ InSecondWalk => \E b \in OfType("bridge") : FirstBridge(b) /\ b < component
  /\ phase = "ready" /\ component <= topology.n => ~ BelowBridge(component)

IInv ==
  /\ topology \in Topologies
  /\ TypeOK
  /\ component >= 2
  /\ pusPerCore = EmptyMap
  /\ SelfEntries
  /\ SocketsAreEmpty
  /\ OneSocketPlacesNoCore
  /\ KeysAreThere
  /\ NoneBeforeSecondWalk
  /\ GpusSoFar
  /\ PastTheBridge

-----------------------------------------------------------------------------
(***************************************************************************)
(* The assumptions, at the machine at hand.                                *)
(***************************************************************************)
LEMMA TopologyFacts ==
  ASSUME topology \in Topologies
  PROVE  /\ topology.n \in Nat \ {0}
         /\ topology.type \in [1 .. topology.n -> Types]
         /\ topology.parent \in [2 .. topology.n -> 1 .. topology.n]
         /\ topology.os_index \in [1 .. topology.n -> Nat]
         /\ topology.lineage \in [1 .. topology.n -> SUBSET (1 .. topology.n)]
         /\ \A o \in 1 .. topology.n : \A a \in Lineage(o) : a <= o
         /\ \A o \in 2 .. topology.n : Lineage(o) = {o} \cup Lineage(parent(o))
         /\ \A o \in 1 .. topology.n : o \in Lineage(o)
         /\ topology.nvidia \subseteq 1 .. topology.n
         /\ type(1) = "machine"
         /\ Lineage(1) = {1}
         /\ \A o \in 2 .. topology.n : parent(o) \in Lineage(o - 1)
BY TopologyAssumption DEF Lineage, parent, type

(***************************************************************************)
(* The search that halts at the parent finds nothing above the object.     *)
(***************************************************************************)
LEMMA ParentIsNeverFound ==
  ASSUME topology \in Topologies, NEW o \in 2 .. topology.n, NEW T,
         type(o) # T
  PROVE  ~ find_parent_by_type(parent(o), o, T)
<1> DEFINE p == parent(o)
<1>1. p \in 1 .. topology.n /\ p \in Lineage(p) /\ p \in Lineage(o)
  BY TopologyFacts DEF parent
<1>2. ASSUME NEW a \in Lineage(o), type(a) = T, a # p, p \in Lineage(a)
      PROVE  FALSE
  <2>1. a \in Lineage(p)
    BY <1>2, TopologyFacts
  <2>2. a \in 1 .. topology.n /\ a <= p
    BY <2>1, <1>1, TopologyFacts DEF Lineage
  <2>3. p <= a
    BY <1>2, <2>2, TopologyFacts
  <2>4. a \in Nat /\ p \in Nat
    BY <1>1, <2>2, TopologyFacts
  <2>5. a = p
    <3> HIDE DEF p
    <3> QED BY <2>2, <2>3, <2>4
  <2> QED BY <1>2, <2>5
<1> QED BY <1>1, <1>2 DEF find_parent_by_type

(***************************************************************************)
(* The search for a socket that halts at a socket finds another one.       *)
(***************************************************************************)
LEMMA OtherSocketIsFound ==
  ASSUME topology \in Topologies, NEW o \in 1 .. topology.n,
         NEW s \in OfType("socket"), find_parent_by_type(s, o, "socket")
  PROVE  \E a \in OfType("socket") : a # s
<1>1. PICK a \in Lineage(o) : /\ type(a) = "socket"
                              /\ s \in Lineage(o) => a # s
  BY DEF find_parent_by_type
<1>2. a \in OfType("socket")
  BY <1>1, TopologyFacts DEF OfType, Lineage
<1> QED BY <1>1, <1>2

(***************************************************************************)
(* Two elements make two.                                                  *)
(***************************************************************************)
LEMMA TwoSockets ==
  ASSUME topology \in Topologies,
         NEW s \in OfType("socket"), NEW a \in OfType("socket"), a # s
  PROVE  ~ (Cardinality(OfType("socket")) <= 1)
<1>1. IsFiniteSet(OfType("socket"))
  <2>1. IsFiniteSet(1 .. topology.n)
    <3>1. 1 \in Int /\ topology.n \in Int
      BY TopologyFacts
    <3> QED BY <3>1, FS_Interval
  <2> QED BY <2>1, FS_Subset DEF OfType
<1>2. IsFiniteSet({a, s}) /\ Cardinality({a, s}) = 2
  <2>1. IsFiniteSet({s}) /\ Cardinality({s}) = 1
    BY FS_Singleton
  <2>2. Cardinality({s} \cup {a}) = Cardinality({s}) + 1 /\ IsFiniteSet({s} \cup {a})
    BY <2>1, FS_AddElement
  <2>3. {s} \cup {a} = {a, s}
    OBVIOUS
  <2> QED BY <2>1, <2>2, <2>3
<1>3. Cardinality({a, s}) <= Cardinality(OfType("socket"))
  BY <1>1, FS_Subset
<1>4. Cardinality(OfType("socket")) \in Nat
  BY <1>1, FS_CardinalityType
<1> QED BY <1>2, <1>3, <1>4

-----------------------------------------------------------------------------
(***************************************************************************)
(* The ancestors of an ancestor are ancestors.                             *)
(***************************************************************************)
LEMMA AncestorsOfAncestors ==
  ASSUME topology \in Topologies,
         NEW q \in 1 .. topology.n, NEW p \in Lineage(q)
  PROVE  Lineage(p) \subseteq Lineage(q)
<1> DEFINE Bad == {k \in 1 .. topology.n :
                     \E a \in Lineage(k) : ~ (Lineage(a) \subseteq Lineage(k))}
<1>1. SUFFICES ASSUME Bad # {}
               PROVE  FALSE
  OBVIOUS
<1>2. Bad \subseteq Nat
  BY TopologyFacts
<1>3. PICK k \in Bad : \A j \in Bad : ~ (j < k)
  BY <1>1, <1>2, LeastNatural
<1>4. k \in 1 .. topology.n
  OBVIOUS
<1>5. PICK a \in Lineage(k) : ~ (Lineage(a) \subseteq Lineage(k))
  BY <1>3
<1>6. k # 1
  BY <1>5, TopologyFacts
<1>7. k \in 2 .. topology.n /\ k - 1 \in 1 .. topology.n /\ parent(k) \in Lineage(k - 1)
  BY <1>4, <1>6, TopologyFacts
<1>8. parent(k) \in 1 .. topology.n /\ parent(k) < k
  <2>1. parent(k) \in 1 .. topology.n
    BY <1>7, TopologyFacts DEF parent
  <2>2. parent(k) <= k - 1
    BY <1>7, TopologyFacts
  <2> QED BY <1>4, <2>1, <2>2, TopologyFacts
<1>9. Lineage(k) = {k} \cup Lineage(parent(k))
  BY <1>7, TopologyFacts
<1>10. a \in Lineage(parent(k))
  BY <1>5, <1>9
<1>11. parent(k) \in Bad
  BY <1>5, <1>8, <1>9, <1>10
<1> HIDE DEF Bad
<1> QED BY <1>3, <1>8, <1>11

(***************************************************************************)
(* Objects below b are found right behind b: with o every object between   *)
(* the two is below b.                                                     *)
(***************************************************************************)
LEMMA SubtreeHasNoGap ==
  ASSUME topology \in Topologies,
         NEW b \in 1 .. topology.n, NEW o \in 1 .. topology.n,
         NEW c \in 1 .. topology.n,
         b \in Lineage(o), b < c, c <= o
  PROVE  b \in Lineage(c)
<1> DEFINE Below == {k \in c .. o : b \in Lineage(k)}
<1>1. o \in Below /\ Below \subseteq Nat /\ Below # {}
  BY TopologyFacts
<1>2. PICK m \in Below : \A k \in Below : ~ (k < m)
  BY <1>1, LeastNatural
<1>3. m \in c .. o /\ b \in Lineage(m)
  OBVIOUS
<1>4. m = c
  <2>1. SUFFICES ASSUME m # c
                 PROVE  m - 1 \in Below
    <3>1. m \in Int /\ m - 1 < m
      BY <1>3
    <3> QED BY <1>2, <3>1
  <2>2. m \in 2 .. topology.n /\ m - 1 \in 1 .. topology.n /\ m - 1 \in c .. o /\ b # m
    BY <1>3, <2>1, TopologyFacts
  <2>3. Lineage(m) = {m} \cup Lineage(parent(m)) /\ parent(m) \in Lineage(m - 1)
    BY <2>2, TopologyFacts
  <2>4. Lineage(parent(m)) \subseteq Lineage(m - 1)
    BY <2>2, <2>3, AncestorsOfAncestors
  <2> QED BY <1>3, <2>2, <2>3, <2>4
<1> QED BY <1>3, <1>4

(***************************************************************************)
(* So an object that is not below the first bridge is followed by none     *)
(* that is.                                                                *)
(***************************************************************************)
LEMMA NoGpuBehind ==
  ASSUME topology \in Topologies,
         NEW b \in OfType("bridge"), FirstBridge(b),
         NEW c \in 1 .. topology.n, b < c, ~ BelowBridge(c),
         NEW o \in 1 .. topology.n, c <= o
  PROVE  ~ BelowBridge(o)
<1>1. SUFFICES ASSUME BelowBridge(o)
               PROVE  b \in Lineage(c)
  <2>1. b # c
    BY TopologyFacts DEF OfType
  <2> QED BY <1>1, <2>1 DEF BelowBridge
<1>2. PICK d \in Lineage(o) : FirstBridge(d)
  BY <1>1 DEF BelowBridge
<1>3. d = b
  <2>1. d \in 1 .. topology.n /\ b \in 1 .. topology.n /\ b <= d /\ d <= b
    BY <1>2 DEF FirstBridge, OfType
  <2> QED BY <2>1, TopologyFacts
<1> QED BY <1>2, <1>3, SubtreeHasNoGap DEF OfType

-----------------------------------------------------------------------------
(***************************************************************************)
(* A step of the walk stays in the tree and changes no other variable.     *)
(***************************************************************************)
LEMMA VisitingFacts ==
  ASSUME IInv, NEW T, Visiting(T)
  PROVE  /\ component \in 2 .. topology.n
         /\ component \in 1 .. topology.n
         /\ os_index(component) \in Nat
         /\ type(component) = T
         /\ component' = component + 1 /\ component' \in Nat /\ component' >= 2
         /\ topology' = topology /\ phase' = phase /\ gpus' = gpus
         /\ phase = "cpu"
<1>1. topology.n \in Nat /\ component \in Nat
  BY TopologyFacts DEF IInv, TypeOK
<1>2. component \in 2 .. topology.n /\ component \in 1 .. topology.n
  BY <1>1 DEF IInv, Visiting
<1>3. os_index(component) \in Nat
  BY <1>2, TopologyFacts DEF IInv, os_index
<1> QED BY <1>1, <1>2, <1>3 DEF Visiting

(***************************************************************************)
(* A step that loses no key, and adds that of the object it visits, keeps  *)
(* what is said of the two walks.                                          *)
(***************************************************************************)
LEMMA VisitingKeepsWalks ==
  ASSUME IInv, NEW T, Visiting(T),
         DOMAIN coresPerSocket \subseteq DOMAIN coresPerSocket',
         DOMAIN coresPerNuma \subseteq DOMAIN coresPerNuma',
         T = "socket" => component \in DOMAIN coresPerSocket',
         T = "numanode" => os_index(component) \in DOMAIN coresPerNuma'
  PROVE  KeysAreThere' /\ NoneBeforeSecondWalk' /\ GpusSoFar' /\ PastTheBridge'
<1>1. /\ component \in 1 .. topology.n /\ type(component) = T
      /\ component' = component + 1
      /\ topology' = topology /\ phase' = phase /\ gpus' = gpus /\ phase = "cpu"
  BY VisitingFacts
<1>2. KeysAreThere'
  <2>1. SUFFICES ASSUME NEW o \in 1 .. topology.n, o < component'
                 PROVE  /\ type(o) = "socket" => o \in DOMAIN coresPerSocket'
                        /\ type(o) = "numanode" => os_index(o) \in DOMAIN coresPerNuma'
    BY <1>1 DEF KeysAreThere, Passed, type, os_index
  <2>2. CASE o = component
    BY <1>1, <2>2
  <2>3. CASE o < component
    BY <2>3 DEF IInv, KeysAreThere, Passed
  <2> QED BY <1>1, <2>1, <2>2, <2>3, TopologyFacts DEF IInv
<1> QED BY <1>1, <1>2
        DEF IInv, NoneBeforeSecondWalk, GpusSoFar, PastTheBridge, InSecondWalk

LEMMA VisitSocketKeepsInv ==
  ASSUME IInv, VisitSocket
  PROVE  IInv'
<1>1. /\ component \in 1 .. topology.n /\ type(component) = "socket"
      /\ component' \in Nat /\ component' >= 2
      /\ topology' = topology /\ phase' = phase /\ gpus' = gpus
      /\ coresPerNuma' = coresPerNuma /\ pusPerCore' = pusPerCore
  BY VisitingFacts DEF VisitSocket
<1>2. DOMAIN coresPerSocket' \subseteq DOMAIN coresPerSocket \cup {component}
  BY DEF VisitSocket, Inserted, Assigned
<1>3. DOMAIN coresPerSocket' \subseteq OfType("socket")
  BY <1>1, <1>2 DEF IInv, TypeOK, OfType
<1>4. TypeOK'
  BY <1>1, <1>3 DEF IInv, TypeOK, OfType, type
<1>5. SelfEntries' /\ OneSocketPlacesNoCore' /\ (pusPerCore = EmptyMap)'
  BY <1>1 DEF IInv, SelfEntries, OneSocketPlacesNoCore, OfType, type, EmptyMap
<1>6. SocketsAreEmpty'
  BY DEF IInv, SocketsAreEmpty, VisitSocket, Inserted, Assigned
<1>7. KeysAreThere' /\ NoneBeforeSecondWalk' /\ GpusSoFar' /\ PastTheBridge'
  <2>1. DOMAIN coresPerSocket' = DOMAIN coresPerSocket \cup {component}
    BY DEF VisitSocket, Inserted, Assigned
  <2> QED BY <1>1, <2>1, VisitingKeepsWalks DEF VisitSocket
<1> QED BY <1>1, <1>4, <1>5, <1>6, <1>7 DEF IInv

(***************************************************************************)
(* The two changes of coresPerNuma keep its entries what they are: a new   *)
(* key with an empty vector, and copies of the key at the key.             *)
(***************************************************************************)
LEMMA InsertKeepsSelfEntries ==
  ASSUME SelfEntries, NEW k \in Nat, coresPerNuma' = Inserted(coresPerNuma, k, <<>>)
  PROVE  /\ SelfEntries'
         /\ \A x \in DOMAIN coresPerNuma' :
              coresPerNuma'[x] = <<>> \/ (x \in DOMAIN coresPerNuma
                                          /\ coresPerNuma'[x] = coresPerNuma[x])
<1>1. <<>> \in Seq({k})
  OBVIOUS
<1>2. CASE k \in DOMAIN coresPerNuma
  BY <1>2 DEF Inserted, SelfEntries
<1>3. CASE k \notin DOMAIN coresPerNuma
  BY <1>1, <1>3 DEF Inserted, Assigned, SelfEntries
<1> QED BY <1>2, <1>3

LEMMA CopiesAreEntries ==
  ASSUME NEW k, NEW times \in Nat
  PROVE  Copies(k, times) \in Seq({k})
<1>1. Copies(k, times) \in [1 .. times -> {k}]
  BY DEF Copies
<1> QED BY <1>1

LEMMA PlacingKeepsSelfEntries ==
  ASSUME SelfEntries, NEW k \in Nat, NEW times \in Nat \ {0},
         coresPerNuma' = PlacedAtNode(k, k, times)
  PROVE  SelfEntries'
<1>1. Copies(k, times) \in Seq({k}) /\ Copies(k, times - 1) \in Seq({k})
  BY CopiesAreEntries
<1>2. CASE k \in DOMAIN coresPerNuma
  <2>1. coresPerNuma[k] \o Copies(k, times) \in Seq({k})
    BY <1>1, <1>2 DEF SelfEntries
  <2>2. coresPerNuma' = Assigned(coresPerNuma, k, coresPerNuma[k] \o Copies(k, times))
    BY <1>2 DEF PlacedAtNode
  <2> QED BY <2>1, <2>2 DEF Assigned, SelfEntries
<1>3. CASE k \notin DOMAIN coresPerNuma
  <2>1. coresPerNuma' = Assigned(coresPerNuma, k, Copies(k, times - 1))
    BY <1>3 DEF PlacedAtNode
  <2> QED BY <1>1, <2>1 DEF Assigned, SelfEntries
<1> QED BY <1>2, <1>3

(***************************************************************************)
(* Vectors that repeat a number of Nat are vectors over Nat.               *)
(***************************************************************************)
LEMMA SelfEntriesAreNaturals ==
  ASSUME NEW map, DOMAIN map \subseteq Nat,
         \A k \in DOMAIN map : map[k] \in Seq({k})
  PROVE  \A k \in DOMAIN map : map[k] \in Seq(Nat)
<1>1. ASSUME NEW k \in Nat, NEW s \in Seq({k})
      PROVE  s \in Seq(Nat)
  <2>1. Len(s) \in Nat /\ s \in [1 .. Len(s) -> {k}]
    OBVIOUS
  <2>2. s \in [1 .. Len(s) -> Nat]
    BY <2>1
  <2> QED BY <2>1, <2>2
<1> QED BY <1>1

LEMMA VisitNumaNodeKeepsInv ==
  ASSUME IInv, VisitNumaNode
  PROVE  IInv'
<1>1. /\ os_index(component) \in Nat
      /\ component' \in Nat /\ component' >= 2
      /\ topology' = topology /\ phase' = phase /\ gpus' = gpus
      /\ coresPerSocket' = coresPerSocket /\ pusPerCore' = pusPerCore
      /\ coresPerNuma' = Inserted(coresPerNuma, os_index(component), <<>>)
  BY VisitingFacts DEF VisitNumaNode
<1>2. /\ SelfEntries'
      /\ \A x \in DOMAIN coresPerNuma' :
           coresPerNuma'[x] = <<>> \/ (x \in DOMAIN coresPerNuma
                                       /\ coresPerNuma'[x] = coresPerNuma[x])
  BY <1>1, InsertKeepsSelfEntries DEF IInv
<1>3. TypeOK'
  <2>1. \A k \in DOMAIN coresPerNuma' : coresPerNuma'[k] \in Seq(Nat)
    BY <1>2, SelfEntriesAreNaturals DEF SelfEntries
  <2> QED BY <1>1, <2>1 DEF IInv, TypeOK, OfType, type
<1>4. OneSocketPlacesNoCore' /\ SocketsAreEmpty' /\ (pusPerCore = EmptyMap)'
  BY <1>1, <1>2 DEF IInv, OneSocketPlacesNoCore, SocketsAreEmpty, OfType, type, EmptyMap
<1>5. KeysAreThere' /\ NoneBeforeSecondWalk' /\ GpusSoFar' /\ PastTheBridge'
  <2>1. DOMAIN coresPerNuma' = DOMAIN coresPerNuma \cup {os_index(component)}
    BY <1>1 DEF Inserted, Assigned
  <2> QED BY <1>1, <2>1, VisitingKeepsWalks DEF VisitNumaNode
<1> QED BY <1>1, <1>2, <1>3, <1>4, <1>5 DEF IInv

LEMMA VisitCoreKeepsInv ==
  ASSUME IInv, VisitCore
  PROVE  IInv'
<1> DEFINE k == os_index(component)
<1>1. /\ k \in Nat /\ component \in 1 .. topology.n
      /\ component' \in Nat /\ component' >= 2
      /\ topology' = topology /\ phase' = phase /\ gpus' = gpus
      /\ DOMAIN coresPerSocket' = DOMAIN coresPerSocket /\ pusPerCore' = pusPerCore
      /\ \/ coresPerNuma' = coresPerNuma
         \/ /\ Sockets # {}
            /\ coresPerNuma' = PlacedAtNode(k, k, Cardinality(Sockets))
  BY VisitingFacts DEF VisitCore
<1>2. Sockets \subseteq OfType("socket")
  BY DEF Sockets, IInv, TypeOK
<1>3. IsFiniteSet(Sockets)
  <2>1. IsFiniteSet(1 .. topology.n)
    BY TopologyFacts, FS_Interval DEF IInv
  <2> QED BY <1>2, <2>1, FS_Subset DEF OfType
<1>4. Sockets # {} => Cardinality(Sockets) \in Nat \ {0}
  BY <1>3, FS_CardinalityType, FS_EmptySet
<1>5. SelfEntries'
  <2>1. CASE coresPerNuma' = coresPerNuma
    BY <2>1 DEF IInv, SelfEntries
  <2>2. CASE Sockets # {} /\ coresPerNuma' = PlacedAtNode(k, k, Cardinality(Sockets))
    BY <2>2, <1>1, <1>4, PlacingKeepsSelfEntries DEF IInv
  <2> QED BY <1>1, <2>1, <2>2
<1>6. Cardinality(OfType("socket")) <= 1 => Sockets = {}
  <2>1. SUFFICES ASSUME NEW s \in Sockets
                 PROVE  ~ (Cardinality(OfType("socket")) <= 1)
    OBVIOUS
  <2>2. PICK a \in OfType("socket") : a # s
    BY <1>1, <1>2, OtherSocketIsFound DEF Sockets, IInv
  <2> QED BY <1>2, <2>2, TwoSockets DEF IInv
<1>7. OneSocketPlacesNoCore'
  BY <1>1, <1>6 DEF IInv, OneSocketPlacesNoCore, OfType, type
<1>8. TypeOK'
  <2>1. \A x \in DOMAIN coresPerNuma' : coresPerNuma'[x] \in Seq(Nat)
    BY <1>5, SelfEntriesAreNaturals DEF SelfEntries
  <2> QED BY <1>1, <2>1 DEF IInv, TypeOK, OfType, type
<1>9. SocketsAreEmpty'
  BY DEF IInv, SocketsAreEmpty, VisitCore, Sockets, Inserted
<1>10. KeysAreThere' /\ NoneBeforeSecondWalk' /\ GpusSoFar' /\ PastTheBridge'
  <2>1. DOMAIN coresPerNuma \subseteq DOMAIN coresPerNuma'
    BY <1>1 DEF PlacedAtNode, Assigned
  <2> QED BY <1>1, <2>1, VisitingKeepsWalks DEF VisitCore
<1> QED BY <1>1, <1>5, <1>7, <1>8, <1>9, <1>10 DEF IInv

LEMMA VisitPUKeepsInv ==
  ASSUME IInv, VisitPU
  PROVE  IInv'
<1>1. /\ component \in 2 .. topology.n /\ type(component) = "pu"
      /\ component' \in Nat /\ component' >= 2
      /\ topology' = topology /\ phase' = phase /\ gpus' = gpus
      /\ coresPerSocket' = coresPerSocket /\ coresPerNuma' = coresPerNuma
  BY VisitingFacts DEF VisitPU
<1>2. ~ find_parent_by_type(parent(component), component, "core")
  BY <1>1, ParentIsNeverFound DEF IInv
<1>3. pusPerCore' = pusPerCore
  BY <1>2 DEF VisitPU
<1>4. TypeOK'
  BY <1>1 DEF IInv, TypeOK, OfType, type
<1>5. /\ SelfEntries' /\ OneSocketPlacesNoCore' /\ SocketsAreEmpty'
      /\ (pusPerCore = EmptyMap)'
  BY <1>1, <1>3
     DEF IInv, SelfEntries, OneSocketPlacesNoCore, SocketsAreEmpty, OfType, type, EmptyMap
<1>6. KeysAreThere' /\ NoneBeforeSecondWalk' /\ GpusSoFar' /\ PastTheBridge'
  BY <1>1, VisitingKeepsWalks DEF VisitPU
<1> QED BY <1>1, <1>4, <1>5, <1>6 DEF IInv

(***************************************************************************)
(* The steps that leave the three maps alone.                              *)
(***************************************************************************)
LEMMA MapsKeptKeepsInv ==
  ASSUME IInv, UNCHANGED <<topology, maps>>,
         phase' \in {"cpu", "gpu", "ready", "segfault"},
         component' \in Nat, component' >= 2,
         gpus' \in Seq(1 .. topology.n),
         KeysAreThere', NoneBeforeSecondWalk', GpusSoFar', PastTheBridge'
  PROVE  IInv'
<1>1. TypeOK'
  BY DEF IInv, TypeOK, OfType, type, maps
<1>2. /\ SelfEntries' /\ OneSocketPlacesNoCore' /\ SocketsAreEmpty'
      /\ (pusPerCore = EmptyMap)'
  BY DEF IInv, SelfEntries, OneSocketPlacesNoCore, SocketsAreEmpty, OfType, type,
         EmptyMap, maps
<1> QED BY <1>1, <1>2 DEF IInv, maps

LEMMA VisitPciFacts ==
  ASSUME IInv, VisitPci
  PROVE  /\ component' \in Nat /\ component' >= 2
         /\ gpus' \in Seq(1 .. topology.n)
<1>1. component \in Nat /\ component >= 2 /\ topology.n \in Nat
  BY TopologyFacts DEF IInv, TypeOK
<1>2. component \in 1 .. topology.n
  BY <1>1 DEF VisitPci
<1>3. gpus \in Seq(1 .. topology.n)
  BY DEF IInv, TypeOK
<1>4. Append(gpus, component) \in Seq(1 .. topology.n)
  BY <1>2, <1>3
<1>5. component' \in Nat /\ component' >= 2
  BY <1>1 DEF VisitPci
<1>6. gpus' = gpus \/ gpus' = Append(gpus, component)
  BY DEF VisitPci
<1> QED BY <1>3, <1>4, <1>5, <1>6

(***************************************************************************)
(* Outside the first walk the keys are all there.                          *)
(***************************************************************************)
LEMMA KeysStayThere ==
  ASSUME IInv, UNCHANGED <<topology, maps>>,
         phase = "cpu" =>
           component > topology.n \/ (phase' = "cpu" /\ component' = component),
         phase # "cpu" => phase' # "cpu"
  PROVE  KeysAreThere'
<1>1. SUFFICES ASSUME NEW o \in 1 .. topology.n, Passed(o)'
               PROVE  Passed(o)
  BY DEF IInv, KeysAreThere, type, os_index, maps
<1> QED BY <1>1, TopologyFacts DEF Passed, IInv, TypeOK

LEMMA CpuDoneKeepsInv ==
  ASSUME IInv, CpuDone
  PROVE  IInv'
<1>1. PICK b \in OfType("bridge") : FirstBridge(b) /\ component' = b + 1
  BY DEF CpuDone
<1>2. b \in Nat \ {0} /\ b < component'
  BY <1>1, TopologyFacts DEF OfType, IInv
<1>3. /\ UNCHANGED <<topology, maps>> /\ gpus' = gpus /\ gpus = <<>>
      /\ phase = "cpu" /\ phase' = "gpu" /\ component > topology.n
  BY DEF CpuDone, IInv, NoneBeforeSecondWalk, InSecondWalk
<1>4. KeysAreThere'
  BY <1>3, KeysStayThere
<1>5. GpusSoFar'
  <2>1. ASSUME NEW o \in 1 .. topology.n, BelowBridge(o)
        PROVE  ~ (o < component')
    <3>1. PICK d \in Lineage(o) \ {o} : FirstBridge(d)
      BY <2>1 DEF BelowBridge
    <3>2. d \in 1 .. topology.n /\ d <= o /\ b <= d
      BY <1>1, <3>1, TopologyFacts DEF FirstBridge, OfType, IInv
    <3> QED BY <1>1, <1>2, <3>1, <3>2, TopologyFacts DEF IInv
  <2> QED BY <1>3, <2>1
          DEF GpusSoFar, IsGpu, BelowBridge, FirstBridge, OfType, type, Lineage
<1>6. PastTheBridge' /\ NoneBeforeSecondWalk'
  BY <1>1, <1>2, <1>3
     DEF PastTheBridge, NoneBeforeSecondWalk, InSecondWalk, FirstBridge, OfType, type
<1>7. component' \in Nat /\ component' >= 2
  BY <1>1, <1>2
<1>8. gpus' \in Seq(1 .. topology.n)
  BY <1>3 DEF IInv, TypeOK
<1> QED BY <1>3, <1>4, <1>5, <1>6, <1>7, <1>8, MapsKeptKeepsInv

LEMMA ElementsOfSeq ==
  ASSUME NEW T, NEW s \in Seq(T)
  PROVE  \A i \in DOMAIN s : s[i] \in T
OBVIOUS

(***************************************************************************)
(* The second walk takes an object that is below the bridge: if it is a    *)
(* gpu it becomes the last one, and it is greater than those before it.    *)
(***************************************************************************)
LEMMA VisitPciKeepsGpus ==
  ASSUME IInv, VisitPci
  PROVE  GpusSoFar'
<1>1. /\ component \in 1 .. topology.n /\ component' = component + 1
      /\ topology' = topology /\ phase = "gpu" /\ phase' = "gpu"
      /\ BelowBridge(component) /\ gpus \in Seq(1 .. topology.n)
  BY TopologyFacts DEF IInv, TypeOK, VisitPci
<1>2. /\ \A i \in DOMAIN gpus : IsGpu(gpus[i]) /\ gpus[i] < component
      /\ \A o \in 1 .. topology.n :
           IsGpu(o) /\ o < component => \E i \in DOMAIN gpus : gpus[i] = o
      /\ \A i, j \in DOMAIN gpus : gpus[i] = gpus[j] => i = j
  BY <1>1 DEF IInv, GpusSoFar, InSecondWalk
<1>3. \A o \in 1 .. topology.n : o < component' <=> o < component \/ o = component
  BY <1>1, TopologyFacts DEF IInv
<1>4. \A i \in DOMAIN gpus : gpus[i] \in 1 .. topology.n
  BY <1>1, ElementsOfSeq
<1>5. SUFFICES /\ \A i \in DOMAIN gpus' : IsGpu(gpus'[i]) /\ gpus'[i] < component'
               /\ \A o \in 1 .. topology.n :
                    IsGpu(o) /\ o < component' => \E i \in DOMAIN gpus' : gpus'[i] = o
               /\ \A i, j \in DOMAIN gpus' : gpus'[i] = gpus'[j] => i = j
  BY <1>1 DEF GpusSoFar, IsGpu, IsLeaf, BelowBridge, FirstBridge, OfType, type, Lineage, parent
<1>6. CASE ~ IsGpu(component)
  <2>1. gpus' = gpus
    BY <1>1, <1>6 DEF VisitPci, IsGpu
  <2> QED BY <1>2, <1>3, <1>4, <1>6, <2>1
<1>7. CASE IsGpu(component)
  <2>1. gpus' = Append(gpus, component)
    BY <1>1, <1>7 DEF VisitPci, IsGpu
  <2>2. /\ DOMAIN gpus' = DOMAIN gpus \cup {Len(gpus) + 1}
        /\ \A i \in DOMAIN gpus : gpus'[i] = gpus[i]
        /\ gpus'[Len(gpus) + 1] = component
    BY <1>1, <2>1
  <2>3. ASSUME NEW i \in DOMAIN gpus'
        PROVE  IsGpu(gpus'[i]) /\ gpus'[i] < component'
    BY <1>2, <1>3, <1>4, <1>7, <1>1, <2>2
  <2>4. ASSUME NEW o \in 1 .. topology.n, IsGpu(o), o < component'
        PROVE  \E i \in DOMAIN gpus' : gpus'[i] = o
    BY <1>2, <1>3, <2>2, <2>4
  <2>5. ASSUME NEW i \in DOMAIN gpus', NEW j \in DOMAIN gpus', gpus'[i] = gpus'[j]
        PROVE  i = j
    <3>1. \A k \in DOMAIN gpus : gpus[k] # component
      BY <1>1, <1>2, <1>4
    <3> QED BY <1>2, <2>2, <2>5, <3>1
  <2> QED BY <2>3, <2>4, <2>5
<1> QED BY <1>6, <1>7

LEMMA VisitPciKeepsInv ==
  ASSUME IInv, VisitPci
  PROVE  IInv'
<1>1. /\ UNCHANGED <<topology, maps>> /\ phase = "gpu" /\ phase' = "gpu"
      /\ component' = component + 1 /\ component \in Nat
  BY DEF VisitPci, IInv, TypeOK
<1>2. KeysAreThere' /\ NoneBeforeSecondWalk'
  BY <1>1, KeysStayThere DEF NoneBeforeSecondWalk, InSecondWalk
<1>3. PastTheBridge'
  <2>1. PICK b \in OfType("bridge") : FirstBridge(b) /\ b < component
    BY <1>1 DEF IInv, PastTheBridge, InSecondWalk
  <2>2. b < component'
    BY <1>1, <2>1, TopologyFacts DEF OfType, IInv
  <2> QED BY <1>1, <2>1, <2>2 DEF PastTheBridge, FirstBridge, OfType, type
<1> QED BY <1>1, <1>2, <1>3, VisitPciKeepsGpus, VisitPciFacts, MapsKeptKeepsInv

LEMMA GpuDoneKeepsInv ==
  ASSUME IInv, GpuDone
  PROVE  IInv'
<1>1. /\ UNCHANGED <<topology, maps>> /\ phase = "gpu" /\ phase' = "ready"
      /\ component' = component /\ gpus' = gpus
      /\ component <= topology.n => ~ BelowBridge(component)
  BY DEF GpuDone
<1>2. KeysAreThere' /\ NoneBeforeSecondWalk'
  BY <1>1, KeysStayThere DEF NoneBeforeSecondWalk, InSecondWalk
<1>3. GpusSoFar' /\ PastTheBridge'
  BY <1>1 DEF IInv, GpusSoFar, PastTheBridge, InSecondWalk, IsGpu, IsLeaf, BelowBridge,
              FirstBridge, OfType, type, Lineage, parent
<1> QED BY <1>1, <1>2, <1>3, MapsKeptKeepsInv DEF IInv, TypeOK

(***************************************************************************)
(* The steps that leave both walks where they are.                         *)
(***************************************************************************)
LEMMA StandingStillKeepsInv ==
  ASSUME IInv, UNCHANGED <<topology, component, maps, gpus>>,
         \/ phase' = phase
         \/ phase = "cpu" /\ component > topology.n /\ phase' = "segfault"
  PROVE  IInv'
<1>1. phase' \in {"cpu", "gpu", "ready", "segfault"}
  BY DEF IInv, TypeOK
<1>2. KeysAreThere'
  BY KeysStayThere
<1>3. NoneBeforeSecondWalk' /\ GpusSoFar' /\ PastTheBridge'
  BY DEF IInv, NoneBeforeSecondWalk, GpusSoFar, PastTheBridge, InSecondWalk, IsGpu,
         IsLeaf, BelowBridge, FirstBridge, OfType, type, Lineage, parent
<1> QED BY <1>1, <1>2, <1>3, MapsKeptKeepsInv DEF IInv, TypeOK

LEMMA StepKeepsInv ==
  ASSUME IInv, [Next]_vars
  PROVE  IInv'
<1>1. CASE VisitSocket
  BY <1>1, VisitSocketKeepsInv
<1>2. CASE VisitNumaNode
  BY <1>2, VisitNumaNodeKeepsInv
<1>3. CASE VisitCore
  BY <1>3, VisitCoreKeepsInv
<1>4. CASE VisitPU
  BY <1>4, VisitPUKeepsInv
<1>5. CASE VisitOther
  <2>1. Visiting(type(component)) /\ UNCHANGED maps
        /\ type(component) \notin {"socket", "numanode"}
    BY <1>5 DEF VisitOther
  <2>2. KeysAreThere' /\ NoneBeforeSecondWalk' /\ GpusSoFar' /\ PastTheBridge'
    BY <2>1, VisitingKeepsWalks DEF maps
  <2> QED BY <2>1, <2>2, VisitingFacts, MapsKeptKeepsInv DEF IInv, TypeOK
<1>6. CASE CpuDone
  BY <1>6, CpuDoneKeepsInv
<1>7. CASE NoBridge
  BY <1>7, StandingStillKeepsInv DEF NoBridge
<1>8. CASE VisitPci
  BY <1>8, VisitPciKeepsInv
<1>9. CASE GpuDone
  BY <1>9, GpuDoneKeepsInv
<1>10. CASE UNCHANGED vars
  BY <1>10, StandingStillKeepsInv DEF vars
<1> QED BY <1>1, <1>2, <1>3, <1>4, <1>5, <1>6, <1>7, <1>8, <1>9, <1>10 DEF Next

LEMMA InitEstablishesInv ==
  ASSUME Init
  PROVE  IInv
<1>1. <<>> \in Seq(1 .. topology.n)
  OBVIOUS
<1>2. DOMAIN coresPerSocket = {} /\ DOMAIN coresPerNuma = {}
  BY DEF Init, EmptyMap
<1>3. TypeOK
  BY <1>1, <1>2 DEF Init, TypeOK
<1>4. SelfEntries /\ OneSocketPlacesNoCore
  BY <1>2 DEF Init, SelfEntries, OneSocketPlacesNoCore, EmptyMap
<1>5. SocketsAreEmpty
  BY <1>2 DEF SocketsAreEmpty
<1>6. KeysAreThere
  <2>1. SUFFICES ASSUME NEW o \in 1 .. topology.n, Passed(o)
                 PROVE  type(o) = "machine"
    BY DEF KeysAreThere
  <2>2. o = 1
    BY <2>1, TopologyFacts DEF Init, Passed
  <2> QED BY <2>2, TopologyFacts DEF Init
<1>7. NoneBeforeSecondWalk /\ GpusSoFar /\ PastTheBridge
  BY DEF Init, NoneBeforeSecondWalk, GpusSoFar, PastTheBridge, InSecondWalk
<1> QED BY <1>3, <1>4, <1>5, <1>6, <1>7 DEF Init, IInv

LEMMA Inductive == Spec => []IInv
<1>1. Init => IInv
  BY InitEstablishesInv
<1>2. IInv /\ [Next]_vars => IInv'
  BY StepKeepsInv
<1> QED BY <1>1, <1>2, PTL DEF Spec

-----------------------------------------------------------------------------
(***************************************************************************)
(* The keys of the socket map are sockets, the gpus are objects of the     *)
(* machine.                                                                *)
(***************************************************************************)
THEOREM TypeCorrect == Spec => []TypeOK
<1>1. IInv => TypeOK
  BY DEF IInv
<1> QED BY <1>1, Inductive, PTL

(***************************************************************************)
(* nCores() answers 0 on every machine, at every moment, and what is       *)
(* indexed by cores is empty.                                              *)
(***************************************************************************)
THEOREM NoCoreOnAnyMachine == Spec => []NoCoreIsFound
<1>1. IInv => NoCoreIsFound
  <2>1. SUFFICES ASSUME IInv
                 PROVE  NoCoreIsFound
    OBVIOUS
  <2>2. DOMAIN pusPerCore = {} /\ Cardinality(DOMAIN pusPerCore) = 0
    BY <2>1, FS_EmptySet DEF IInv, EmptyMap
  <2>3. nCores = 0
    BY <2>2 DEF nCores
  <2>4. 0 .. Cardinality(DOMAIN nProcessUnitsPerCore) - 1 = {}
    BY <2>2 DEF nProcessUnitsPerCore
  <2>5. ASSUME NEW i \in OfType("core"), NEW j \in OfType("core")
        PROVE  LatencyIndex(os_index(i), os_index(j)) = os_index(j)
    <3>1. os_index(i) \in Nat /\ os_index(j) \in Nat
      BY <2>1, TopologyFacts DEF IInv, OfType, os_index
    <3> QED BY <2>3, <3>1 DEF LatencyIndex
  <2> QED BY <2>3, <2>4, <2>5 DEF NoCoreIsFound
<1> QED BY <1>1, Inductive, PTL

(***************************************************************************)
(* nCoresPerSocket() is a list of zeros on every machine, at every moment. *)
(***************************************************************************)
THEOREM SocketsStayEmpty == Spec => []NoSocketGetsACore
<1>1. IInv => NoSocketGetsACore
  BY DEF IInv, SocketsAreEmpty, NoSocketGetsACore, nCoresPerSocket
<1> QED BY <1>1, Inductive, PTL

(***************************************************************************)
(* Asked for the NUMA node of a core, the process names that core or       *)
(* answers -1, on every machine.                                           *)
(***************************************************************************)
THEOREM NumaAnswersTheCore == Spec => []NumaEntriesNameThemselves
<1>1. IInv => NumaEntriesNameThemselves
  <2>1. SUFFICES ASSUME IInv, NEW k \in DOMAIN coresPerNuma
                 PROVE  /\ \A i \in DOMAIN coresPerNuma[k] : coresPerNuma[k][i] = k
                        /\ getNumaForCore(k) \in {-1, k}
    BY DEF NumaEntriesNameThemselves
  <2>2. coresPerNuma[k] \in Seq({k})
    BY <2>1 DEF IInv, SelfEntries
  <2>3. \A i \in DOMAIN coresPerNuma[k] : coresPerNuma[k][i] = k
    BY <2>2
  <2>4. coresPerNuma[k] # <<>> => coresPerNuma[k][1] = k
    BY <2>2
  <2> QED BY <2>3, <2>4 DEF getNumaForCore
<1> QED BY <1>1, Inductive, PTL

(***************************************************************************)
(* On a machine with one socket, or none, no core is placed at a node.     *)
(***************************************************************************)
THEOREM OneSocketMachines == Spec => []OneSocketPlacesNoCore
<1>1. IInv => OneSocketPlacesNoCore
  BY DEF IInv
<1> QED BY <1>1, Inductive, PTL

(***************************************************************************)
(* nSockets() is right on every machine once the cpus are discovered, and  *)
(* no NUMA node is missing from its map.                                   *)
(***************************************************************************)
THEOREM NothingIsMissed == Spec => []SocketsAndNodesAreFound
<1>1. IInv => SocketsAndNodesAreFound
  <2>1. SUFFICES ASSUME IInv, phase # "cpu"
                 PROVE  /\ nSockets = Cardinality(OfType("socket"))
                        /\ \A o \in OfType("numanode") : os_index(o) \in DOMAIN coresPerNuma
    BY DEF SocketsAndNodesAreFound
  <2>2. OfType("socket") \subseteq DOMAIN coresPerSocket
    BY <2>1 DEF IInv, KeysAreThere, Passed, OfType
  <2>3. DOMAIN coresPerSocket \subseteq OfType("socket")
    BY <2>1 DEF IInv, TypeOK
  <2>4. \A o \in OfType("numanode") : os_index(o) \in DOMAIN coresPerNuma
    BY <2>1 DEF IInv, KeysAreThere, Passed, OfType
  <2>5. DOMAIN coresPerSocket = OfType("socket")
    BY <2>2, <2>3
  <2> QED BY <2>4, <2>5 DEF nSockets
<1> QED BY <1>1, Inductive, PTL

(***************************************************************************)
(* The gpus of a process that is ready are the NVIDIA leaves below the     *)
(* first bridge, each once, on every machine that has a bridge.            *)
(***************************************************************************)
THEOREM GpusAreFoundOnce == Spec => []GpusAreLeavesOfFirstBridge
<1>1. IInv => GpusAreLeavesOfFirstBridge
  <2> DEFINE found == {gpus[i] : i \in DOMAIN gpus}
  <2>1. SUFFICES ASSUME IInv, phase = "ready"
                 PROVE  /\ found = {o \in topology.nvidia : IsLeaf(o) /\ BelowBridge(o)}
                        /\ Len(gpus) = Cardinality(found)
    BY DEF GpusAreLeavesOfFirstBridge
  <2>2. gpus \in Seq(1 .. topology.n) /\ component \in Nat /\ component >= 2
    BY <2>1 DEF IInv, TypeOK
  <2>3. /\ \A i \in DOMAIN gpus : IsGpu(gpus[i])
        /\ \A o \in 1 .. topology.n :
             IsGpu(o) /\ o < component => \E i \in DOMAIN gpus : gpus[i] = o
        /\ \A i, j \in DOMAIN gpus : gpus[i] = gpus[j] => i = j
    BY <2>1 DEF IInv, GpusSoFar, InSecondWalk
  <2>4. ASSUME NEW o \in 1 .. topology.n, IsGpu(o)
        PROVE  o < component
    <3>1. SUFFICES ASSUME component <= o
                   PROVE  FALSE
      BY <2>2, TopologyFacts, <2>1 DEF IInv
    <3>2. component \in 1 .. topology.n /\ component <= topology.n
      BY <2>1, <2>2, <3>1, TopologyFacts DEF IInv
    <3>3. PICK b \in OfType("bridge") : FirstBridge(b) /\ b < component
      BY <2>1 DEF IInv, PastTheBridge, InSecondWalk
    <3>4. ~ BelowBridge(component)
      BY <2>1, <3>2 DEF IInv, PastTheBridge
    <3>5. ~ BelowBridge(o)
      BY <2>1, <3>1, <3>2, <3>3, <3>4, NoGpuBehind DEF IInv
    <3> QED BY <2>4, <3>5 DEF IsGpu
  <2>5. found = {o \in topology.nvidia : IsLeaf(o) /\ BelowBridge(o)}
    <3>1. topology.nvidia \subseteq 1 .. topology.n
      BY <2>1, TopologyFacts DEF IInv
    <3> QED BY <2>3, <2>4, <3>1 DEF IsGpu
  <2>6. Len(gpus) = Cardinality(found)
    <3>1. Len(gpus) \in Nat /\ DOMAIN gpus = 1 .. Len(gpus)
      BY <2>2
    <3>2. gpus \in Bijection(1 .. Len(gpus), found)
      BY <2>2, <2>3, <3>1 DEF Bijection, Injection, Surjection, IsInjective
    <3>3. ExistsBijection(1 .. Len(gpus), found)
      BY <3>2 DEF ExistsBijection
    <3> QED BY <3>1, <3>3, FS_CountingElements
  <2> QED BY <2>5, <2>6
<1> QED BY <1>1, Inductive, PTL
=============================================================================
