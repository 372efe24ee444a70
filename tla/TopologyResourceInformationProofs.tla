----------------- MODULE TopologyResourceInformationProofs -----------------
(***************************************************************************)
(* Theorems about TopologyResourceInformation, for any number of processes,*)
(* writers, groups and cpus.  Its processes are readers of CgroupCpusets,  *)
(* so the invariant proved there holds of them too (ProcessesAreReaders).  *)
(*                                                                         *)
(* That a zero in a cost vector means an overrun is a pigeonhole argument: *)
(* the vector has as many elements as the map has cpus, so a cpu outside   *)
(* leaves an element that no cpu fills.  It takes that the map is finite,  *)
(* though garbage ends its runs (CountsAreFinite).                         *)
(***************************************************************************)
EXTENDS TopologyResourceInformation, CgroupCpusetsProofs

CountsAreFinite == \A r \in Readers : IsFiniteSet(DOMAIN util[r])

(***************************************************************************)
(* A call has something to count only if the list of groups has one, and   *)
(* the list is made before any call.                                       *)
(***************************************************************************)
ListedGroups ==
  \A r \in Readers :
    proc[r] \in Counting =>
      /\ at[r] # "listing"
      /\ at[r] = "ok" \/ left[r] # <<>> => groups[r] # <<>>

IInvOfProcesses ==
  /\ IInv
  /\ TypeOKOfProcesses
  /\ CountsAreFinite
  /\ ZeroCostMeansOverrun
  /\ ListedGroups

-----------------------------------------------------------------------------
(***************************************************************************)
(* The pigeonhole: a map fits its vector if and only if it fills it.       *)
(***************************************************************************)
LEMMA FitsIfAndOnlyIfFills ==
  ASSUME NEW map, IsFiniteSet(DOMAIN map)
  PROVE  Outside(map) = {} <=> Indexes(map) \subseteq DOMAIN map
<1> DEFINE D == DOMAIN map
           n == Cardinality(D)
<1>1. n \in Nat
  BY FS_CardinalityType
<1>2. IsFiniteSet(Indexes(map)) /\ Cardinality(Indexes(map)) = n
  <2> HIDE DEF n
  <2>1. 0 \in Int /\ n - 1 \in Int
    BY <1>1
  <2>2. IsFiniteSet(0 .. n - 1) /\ Cardinality(0 .. n - 1) = IF 0 > n - 1 THEN 0 ELSE n - 1 - 0 + 1
    BY <2>1, FS_Interval
  <2>3. (IF 0 > n - 1 THEN 0 ELSE n - 1 - 0 + 1) = n
    BY <1>1
  <2>4. Indexes(map) = 0 .. n - 1
    BY DEF Indexes, n
  <2> QED BY <2>2, <2>3, <2>4
<1>3. D \subseteq Indexes(map) => D = Indexes(map)
  BY <1>2, FS_Subset
<1>4. Indexes(map) \subseteq D => D = Indexes(map)
  BY <1>2, FS_Subset
<1> QED BY <1>3, <1>4 DEF Outside

LEMMA CostsOfCounts ==
  ASSUME NEW map, Counts(map), IsFiniteSet(DOMAIN map)
  PROVE  /\ \A i \in DOMAIN costVec(map) : i \in Nat /\ costVec(map)[i] \in 0 .. 2
         /\ Outside(map) # {} <=> \E i \in DOMAIN costVec(map) : costVec(map)[i] = 0
<1>1. Cardinality(DOMAIN map) \in Nat
  BY FS_CardinalityType
<1>2. DOMAIN costVec(map) = Indexes(map) /\ Indexes(map) \subseteq Nat
  BY <1>1 DEF costVec, Indexes
<1>3. ASSUME NEW i \in Indexes(map)
      PROVE  /\ costVec(map)[i] \in 0 .. 2
             /\ costVec(map)[i] = 0 <=> i \notin DOMAIN map
  BY <1>3 DEF costVec, Counts
<1> QED BY <1>2, <1>3, FitsIfAndOnlyIfFills

-----------------------------------------------------------------------------
(***************************************************************************)
(* What the processes do to the cpusets is what readers do.                *)
(***************************************************************************)
LEMMA StepOfProcessesIsAStep == [NextOfProcesses]_<<vars, own>> => [Next]_vars
<1>1. ASSUME NEW r \in Readers, Answer(r)
      PROVE  UNCHANGED vars
  BY <1>1 DEF Answer, Constructed, DeliverCounts, DeliverCosts, Overrun, AskForUnits,
              CountFails, HasCounts
<1>2. ASSUME NEW r \in Readers, NEW call \in Counting, Ask(r, call)
      PROVE  BeginUtilization(r)
  BY <1>2 DEF Ask
<1>3. ASSUME NEW r \in Readers, Construct(r) \/ Utilize(r) \/ AskTopology(r)
      PROVE  ListGroups(r) \/ Read(r) \/ UNCHANGED vars
  BY <1>3 DEF Construct, Utilize, AskTopology
<1>4. UNCHANGED <<vars, own>> => UNCHANGED vars
  OBVIOUS
<1> QED BY <1>1, <1>2, <1>3, <1>4 DEF NextOfProcesses, Next

(***************************************************************************)
(* The maps stay finite.                                                   *)
(***************************************************************************)
LEMMA CountsStayFinite ==
  ASSUME IInv, CountsAreFinite, [Next]_vars
  PROVE  CountsAreFinite'
<1>1. ASSUME NEW r \in Readers, BeginUtilization(r)
      PROVE  CountsAreFinite'
  <2>1. PICK past \in Pasts(Cpus) :
          util' = [util EXCEPT ![r] = [cpu \in Indices(Cpus, past) |-> 1]]
    BY <1>1 DEF BeginUtilization
  <2>2. IsFiniteSet(Indices(Cpus, past))
    BY IndicesAreFinite, MachineAssumption
  <2>3. ASSUME NEW q \in Readers
        PROVE  \/ util'[q] = util[q]
               \/ util'[q] = [cpu \in Indices(Cpus, past) |-> 1]
    BY <2>1
  <2> QED BY <2>2, <2>3 DEF CountsAreFinite
<1>2. ASSUME NEW r \in Readers, CountGroup(r)
      PROVE  CountsAreFinite'
  <2> DEFINE cpus == dirs[Head(left[r])].cpus
  <2>1. left[r] \in Seq(Groups) /\ left[r] # <<>>
    BY <1>2 DEF IInv, TypeOK, LeftIsTheRest, CountGroup, Looking
  <2>2. cpus \in SUBSET Cpus
    BY <2>1, HeadAndTail DEF IInv, TypeOK, Directory
  <2>3. cpus \in SUBSET Nat /\ IsFiniteSet(cpus)
    BY <2>2, MachineAssumption, FS_Subset
  <2>4. PICK past \in Pasts(cpus) :
          util' = [util EXCEPT ![r] = Counted(util[r], cpus, past)]
    BY <1>2 DEF CountGroup
  <2> HIDE DEF cpus
  <2>5. IsFiniteSet(DOMAIN Counted(util[r], cpus, past))
    <3>1. IsFiniteSet(Indices(cpus, past)) /\ IsFiniteSet(DOMAIN util[r])
      BY <2>3, <2>4, IndicesAreFinite DEF CountsAreFinite
    <3> QED BY <3>1, FS_Union DEF Counted
  <2>6. ASSUME NEW q \in Readers
        PROVE  util'[q] = util[q] \/ util'[q] = Counted(util[r], cpus, past)
    BY <2>4
  <2> QED BY <2>5, <2>6 DEF CountsAreFinite
<1>3. ASSUME UNCHANGED util
      PROVE  CountsAreFinite'
  BY <1>3 DEF CountsAreFinite
<1>4. ASSUME NEW w \in Writers, Write(w)
      PROVE  UNCHANGED util
  BY <1>4 DEF Write, Rmdir, RmdirFails, Open, OpenFails, WriteRefused, Attach, Assign,
              reading
<1>5. ASSUME NEW w \in Writers, NEW call \in Call, Create(w, call) \/ Look(w, call)
      PROVE  UNCHANGED util
  BY <1>5 DEF Create, Look, reading
<1>6. ASSUME NEW r \in Readers, ListGroups(r) \/ Read(r)
      PROVE  UNCHANGED util \/ CountGroup(r)
  BY <1>6 DEF ListGroups, Read, KeepName, AllListed, GroupMissing, GroupFound,
              NoGroupLeft, CountNothing, OpenFile, Throw
<1>7. ASSUME NEW pid \in Pids, TaskExits(pid)
      PROVE  UNCHANGED util
  BY <1>7 DEF TaskExits, reading
<1>8. UNCHANGED vars => UNCHANGED util
  BY DEF vars
<1> QED BY <1>1, <1>2, <1>3, <1>4, <1>5, <1>6, <1>7, <1>8 DEF Next, WritersAndTasks

(***************************************************************************)
(* Processes step one at a time, and those that do not step keep theirs.   *)
(***************************************************************************)
LEMMA TurnKeepsTypes ==
  ASSUME TypeOKOfProcesses, ZeroCostMeansOverrun, NEW r \in Readers,
         NEW state \in Counting \cup {"none", "listing", "ready", "dead"}, Turns(r, state)
  PROVE  /\ TypeOKOfProcesses' /\ ZeroCostMeansOverrun'
         /\ \A q \in Readers : proc'[q] = IF q = r THEN state ELSE proc[q]
BY DEF Turns, TypeOKOfProcesses, ZeroCostMeansOverrun

LEMMA DeliverCostsKeepsTypes ==
  ASSUME IInvOfProcesses, NEW r \in Readers, DeliverCosts(r)
  PROVE  TypeOKOfProcesses' /\ ZeroCostMeansOverrun'
<1> DEFINE map == util[r]
<1>1. Counts(map) /\ IsFiniteSet(DOMAIN map)
  BY UtilTyped DEF IInvOfProcesses, CountsAreFinite
<1>2. /\ proc' = [proc EXCEPT ![r] = "ready"]
      /\ cost' = [cost EXCEPT ![r] = costVec(map)]
      /\ overran' = [overran EXCEPT ![r] = Outside(map) # {}]
  BY DEF DeliverCosts
<1>3. /\ \A i \in DOMAIN costVec(map) : i \in Nat /\ costVec(map)[i] \in 0 .. 2
      /\ Outside(map) # {} <=> \E i \in DOMAIN costVec(map) : costVec(map)[i] = 0
  BY <1>1, CostsOfCounts
<1> HIDE DEF map
<1>4. /\ proc \in [Readers -> Counting \cup {"none", "listing", "ready", "dead"}]
      /\ DOMAIN cost = Readers /\ overran \in [Readers -> BOOLEAN]
  BY DEF IInvOfProcesses, TypeOKOfProcesses
<1>5. ASSUME NEW q \in Readers
      PROVE  /\ cost'[q] = IF q = r THEN costVec(map) ELSE cost[q]
             /\ overran'[q] = IF q = r THEN Outside(map) # {} ELSE overran[q]
  BY <1>2, <1>4
<1>6. TypeOKOfProcesses'
  <2>1. proc' \in [Readers -> Counting \cup {"none", "listing", "ready", "dead"}]
    BY <1>2, <1>4
  <2>2. DOMAIN cost' = Readers /\ overran' \in [Readers -> BOOLEAN]
    BY <1>2, <1>4
  <2>3. ASSUME NEW q \in Readers, NEW i \in DOMAIN cost'[q]
        PROVE  i \in Nat /\ cost'[q][i] \in 0 .. 2
    BY <1>3, <1>5, <2>3 DEF IInvOfProcesses, TypeOKOfProcesses
  <2> QED BY <2>1, <2>2, <2>3 DEF TypeOKOfProcesses
<1>7. ZeroCostMeansOverrun'
  <2>1. ASSUME NEW q \in Readers
        PROVE  overran'[q] <=> \E i \in DOMAIN cost'[q] : cost'[q][i] = 0
    <3>1. CASE q = r
      <4>1. cost'[q] = costVec(map) /\ overran'[q] = (Outside(map) # {})
        BY <1>5, <3>1
      <4> QED BY <1>3, <4>1, Zenon
    <3>2. CASE q # r
      <4>1. cost'[q] = cost[q] /\ overran'[q] = overran[q]
        BY <1>5, <3>2
      <4>2. overran[q] <=> \E i \in DOMAIN cost[q] : cost[q][i] = 0
        BY DEF IInvOfProcesses, ZeroCostMeansOverrun
      <4> QED BY <4>1, <4>2, Zenon
    <3> QED BY <3>1, <3>2
  <2> QED BY <2>1 DEF ZeroCostMeansOverrun
<1> QED BY <1>6, <1>7

LEMMA ReaderFacts ==
  ASSUME IInvOfProcesses
  PROVE  /\ at \in [Readers -> States \cup Looking \cup {"listing"}]
         /\ left \in [Readers -> Seq(Groups)]
         /\ groups \in [Readers -> Seq(Groups)]
         /\ \A r \in Readers : at[r] \in {"opening", "open", "stale"} => left[r] # <<>>
BY DEF IInvOfProcesses, IInv, TypeOK, LeftIsTheRest, Looking

(***************************************************************************)
(* What a process that counts has left to count, through each step.        *)
(***************************************************************************)
LEMMA UtilizeKeepsListed ==
  ASSUME IInvOfProcesses, NEW r \in Readers, Utilize(r)
  PROVE  ListedGroups'
<1>1. proc' = proc /\ Read(r)
  BY DEF Utilize, own
<1>2. ASSUME NEW q \in Readers, q # r
      PROVE  at'[q] = at[q] /\ left'[q] = left[q] /\ groups'[q] = groups[q]
  BY <1>1, <1>2, ReaderFacts
     DEF Read, KeepName, AllListed, GroupMissing, GroupFound, NoGroupLeft, CountNothing,
         OpenFile, Throw, CountGroup
<1>3. ASSUME proc[r] \in Counting
      PROVE  /\ at'[r] # "listing"
             /\ at'[r] = "ok" \/ left'[r] # <<>> => groups'[r] # <<>>
  <2>1. ~ KeepName(r) /\ ~ AllListed(r)
    BY <1>3 DEF KeepName, AllListed, IInvOfProcesses, ListedGroups
  <2>2. groups' = groups /\ at'[r] # "listing"
    BY <1>1, <2>1, ReaderFacts
       DEF Read, GroupMissing, GroupFound, NoGroupLeft, CountNothing, OpenFile, Throw,
           CountGroup
  <2>3. at'[r] = "ok" \/ left'[r] # <<>> => left[r] # <<>>
    BY <1>1, <2>1, ReaderFacts
       DEF Read, GroupMissing, GroupFound, NoGroupLeft, CountNothing, OpenFile, Throw,
           CountGroup
  <2>4. left[r] # <<>> => groups[r] # <<>>
    BY <1>3 DEF IInvOfProcesses, ListedGroups
  <2> QED BY <2>2, <2>3, <2>4
<1> QED BY <1>1, <1>2, <1>3 DEF IInvOfProcesses, ListedGroups

LEMMA AskKeepsListed ==
  ASSUME IInvOfProcesses, NEW r \in Readers, NEW call \in Counting, Ask(r, call)
  PROVE  ListedGroups'
<1>1. /\ at' = [at EXCEPT ![r] = "looking"] /\ left' = [left EXCEPT ![r] = groups[r]]
      /\ groups' = groups /\ proc' = [proc EXCEPT ![r] = call]
  BY DEF Ask, BeginUtilization, Turns
<1>2. proc \in [Readers -> Counting \cup {"none", "listing", "ready", "dead"}]
  BY DEF IInvOfProcesses, TypeOKOfProcesses
<1> QED BY <1>1, <1>2, ReaderFacts DEF IInvOfProcesses, ListedGroups

LEMMA LeavingKeepsListed ==
  ASSUME IInvOfProcesses, NEW r \in Readers, proc'[r] \notin Counting,
         \A q \in Readers \ {r} : /\ proc'[q] = proc[q] /\ at'[q] = at[q]
                                  /\ left'[q] = left[q] /\ groups'[q] = groups[q]
  PROVE  ListedGroups'
BY DEF IInvOfProcesses, ListedGroups

-----------------------------------------------------------------------------
LEMMA StepKeepsInvOfProcesses ==
  ASSUME IInvOfProcesses, [NextOfProcesses]_<<vars, own>>
  PROVE  IInvOfProcesses'
<1>1. IInv' /\ CountsAreFinite'
  BY StepOfProcessesIsAStep, StepKeepsInv, CountsStayFinite DEF IInvOfProcesses
<1>2. proc \in [Readers -> Counting \cup {"none", "listing", "ready", "dead"}]
  BY DEF IInvOfProcesses, TypeOKOfProcesses
<1>3. \A state \in {"listing", "ready", "dead"} : state \notin Counting
  BY DEF Counting
<1>4. ASSUME UNCHANGED own
      PROVE  TypeOKOfProcesses' /\ ZeroCostMeansOverrun'
  BY <1>4 DEF IInvOfProcesses, TypeOKOfProcesses, ZeroCostMeansOverrun, own
<1>5. ASSUME NEW r \in Readers, NEW state \in {"listing", "ready", "dead"},
             Turns(r, state),
             UNCHANGED vars \/ ListGroups(r)
      PROVE  TypeOKOfProcesses' /\ ZeroCostMeansOverrun' /\ ListedGroups'
  <2>1. TypeOKOfProcesses' /\ ZeroCostMeansOverrun'
    BY <1>5, TurnKeepsTypes DEF IInvOfProcesses
  <2>2. ASSUME NEW q \in Readers, q # r
        PROVE  proc'[q] = proc[q] /\ at'[q] = at[q] /\ left'[q] = left[q] /\ groups'[q] = groups[q]
    BY <1>2, <1>5, <2>2, ReaderFacts DEF Turns, ListGroups, vars
  <2>3. proc'[r] \notin Counting
    BY <1>2, <1>3, <1>5 DEF Turns
  <2> QED BY <2>1, <2>2, <2>3, LeavingKeepsListed
<1>6. ASSUME NEW r \in Readers, DeliverCosts(r)
      PROVE  TypeOKOfProcesses' /\ ZeroCostMeansOverrun' /\ ListedGroups'
  <2>1. proc' = [proc EXCEPT ![r] = "ready"] /\ UNCHANGED vars
    BY <1>6 DEF DeliverCosts, HasCounts
  <2>2. ListedGroups'
    BY <1>2, <1>3, <2>1, LeavingKeepsListed DEF vars
  <2> QED BY <1>6, <2>2, DeliverCostsKeepsTypes
<1>7. ASSUME NEW r \in Readers, Construct(r) \/ AskTopology(r) \/ Answer(r)
      PROVE  TypeOKOfProcesses' /\ ZeroCostMeansOverrun' /\ ListedGroups'
  <2>1. \/ DeliverCosts(r)
        \/ \E state \in {"listing", "ready", "dead"} :
             Turns(r, state) /\ (UNCHANGED vars \/ ListGroups(r))
    BY <1>7 DEF Construct, Constructed, AskTopology, Answer, DeliverCounts, Overrun, AskForUnits,
                CountFails, HasCounts
  <2> QED BY <1>5, <1>6, <2>1
<1>8. ASSUME NEW r \in Readers, NEW call \in Counting, Ask(r, call)
      PROVE  TypeOKOfProcesses' /\ ZeroCostMeansOverrun' /\ ListedGroups'
  <2>1. Turns(r, call)
    BY <1>8 DEF Ask
  <2> QED BY <1>8, <2>1, TurnKeepsTypes, AskKeepsListed DEF IInvOfProcesses
<1>9. ASSUME NEW r \in Readers, Utilize(r)
      PROVE  TypeOKOfProcesses' /\ ZeroCostMeansOverrun' /\ ListedGroups'
  BY <1>4, <1>9, UtilizeKeepsListed DEF Utilize
<1>10. ASSUME UNCHANGED own, UNCHANGED <<groups, left>>,
              \A r \in Readers : at'[r] = at[r] \/ at'[r] = "stale"
       PROVE  TypeOKOfProcesses' /\ ZeroCostMeansOverrun' /\ ListedGroups'
  <2>1. ListedGroups'
    BY <1>10 DEF own, IInvOfProcesses, ListedGroups
  <2> QED BY <1>4, <1>10, <2>1
<1>11. WritersAndTasks => /\ UNCHANGED <<groups, left>>
                          /\ \A r \in Readers : at'[r] = at[r] \/ at'[r] = "stale"
  BY DEF WritersAndTasks, Write, Create, Look, Rmdir, RmdirFails, Open, OpenFails,
         WriteRefused, Attach, Assign, TaskExits, reading
<1>12. UNCHANGED <<vars, own>> => UNCHANGED own /\ UNCHANGED <<groups, left, at>>
  BY DEF vars
<1> QED
  BY <1>1, <1>7, <1>8, <1>9, <1>10, <1>11, <1>12 DEF NextOfProcesses, IInvOfProcesses

LEMMA InitEstablishesInvOfProcesses ==
  ASSUME InitProcesses
  PROVE  IInvOfProcesses
<1>1. IInv
  BY InitEstablishesInv DEF InitProcesses
<1>2. \A r \in Readers : DOMAIN util[r] = {} /\ groups[r] = <<>> /\ proc[r] = "none"
  BY DEF InitProcesses, Init
<1>3. CountsAreFinite /\ ListedGroups
  BY <1>2, FS_EmptySet DEF CountsAreFinite, ListedGroups, Counting
<1>4. \A r \in Readers : DOMAIN cost[r] = {} /\ overran[r] = FALSE
  BY DEF InitProcesses
<1>5. TypeOKOfProcesses /\ ZeroCostMeansOverrun
  BY <1>4 DEF InitProcesses, TypeOKOfProcesses, ZeroCostMeansOverrun
<1> QED BY <1>1, <1>3, <1>5 DEF IInvOfProcesses

LEMMA InductiveOfProcesses == SpecOfProcesses => []IInvOfProcesses
<1>1. InitProcesses => IInvOfProcesses
  BY InitEstablishesInvOfProcesses
<1>2. IInvOfProcesses /\ [NextOfProcesses]_<<vars, own>> => IInvOfProcesses'
  BY StepKeepsInvOfProcesses
<1> QED BY <1>1, <1>2, PTL DEF SpecOfProcesses

-----------------------------------------------------------------------------
(***************************************************************************)
(* TopologyResourceInformation uses the cpuset functions as a reader does: *)
(* what holds of every reader's safety holds of it.                        *)
(***************************************************************************)
THEOREM ProcessesAreReaders == SpecOfProcesses => Init /\ [][Next]_vars
<1>1. InitProcesses => Init
  BY DEF InitProcesses
<1> QED BY <1>1, StepOfProcessesIsAStep, PTL DEF SpecOfProcesses

(***************************************************************************)
(* Calls and cost vectors keep their types; no cost passes 2.              *)
(***************************************************************************)
THEOREM TypeCorrectOfProcesses == SpecOfProcesses => []TypeOKOfProcesses
<1>1. IInvOfProcesses => TypeOKOfProcesses
  BY DEF IInvOfProcesses
<1> QED BY <1>1, InductiveOfProcesses, PTL

(***************************************************************************)
(* A cost of zero is delivered exactly by a call that wrote outside of the *)
(* vector, on a machine of any cpus.                                       *)
(***************************************************************************)
THEOREM ZerosAreOverruns == SpecOfProcesses => []ZeroCostMeansOverrun
<1>1. IInvOfProcesses => ZeroCostMeansOverrun
  BY DEF IInvOfProcesses
<1> QED BY <1>1, InductiveOfProcesses, PTL

(***************************************************************************)
(* A process that listed no group never answers a call for counts.         *)
(***************************************************************************)
THEOREM NoAnswerWithoutAGroup == SpecOfProcesses => AnswersNeedAListedGroup
<1>1. ASSUME IInvOfProcesses, [NextOfProcesses]_<<vars, own>>
      PROVE  [ \A r \in Readers :
                 proc[r] \in Counting /\ proc'[r] = "ready" => groups[r] # <<>> ]_proc
  <2>1. SUFFICES ASSUME NextOfProcesses, NEW r \in Readers,
                        proc[r] \in Counting, proc'[r] = "ready"
                 PROVE  at[r] = "ok"
    BY <1>1 DEF IInvOfProcesses, ListedGroups, own
  <2>2. proc \in [Readers -> Counting \cup {"none", "listing", "ready", "dead"}]
    BY <1>1 DEF IInvOfProcesses, TypeOKOfProcesses
  <2>3. proc[r] \notin {"none", "ready"} /\ proc[r] # proc'[r] /\ "ready" \notin Counting
    BY <2>1 DEF Counting
  <2>4. ~ UNCHANGED own
    BY <2>3 DEF own
  <2>5. PICK q \in Readers : \/ Construct(q) \/ Answer(q) \/ AskTopology(q)
                             \/ \E call \in Counting : Ask(q, call)
    BY <2>1, <2>4 DEF NextOfProcesses, Utilize
  <2>6. q = r
    BY <2>2, <2>3, <2>5
       DEF Construct, Constructed, Answer, AskTopology, Ask, Turns, DeliverCounts,
           DeliverCosts, Overrun, AskForUnits, CountFails
  <2>7. DeliverCounts(r) \/ DeliverCosts(r)
    BY <2>1, <2>2, <2>3, <2>5, <2>6
       DEF Counting, Construct, Constructed, Answer, AskTopology, Ask, Turns, Overrun, AskForUnits, CountFails
  <2> QED BY <2>7 DEF DeliverCounts, DeliverCosts, HasCounts
<1> QED BY <1>1, InductiveOfProcesses, PTL DEF SpecOfProcesses, AnswersNeedAListedGroup
=============================================================================
