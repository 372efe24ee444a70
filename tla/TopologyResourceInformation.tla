-------------------- MODULE TopologyResourceInformation --------------------
(***************************************************************************)
(* TopologyResourceInformationProcess (src/TopologyResourceInformation.hpp)*)
(* on top of the cpuset functions: the readers of CgroupCpusets are its    *)
(* processes, and writers change the groups below them.  A process lists   *)
(* the groups once, when it is made, and every later call for task counts  *)
(* goes through that list.                                                 *)
(*                                                                         *)
(* Its member topology is the facade HwlocTopology, whose own process is   *)
(* never set, so a call that reaches it dispatches to a null pointer.      *)
(***************************************************************************)
EXTENDS CgroupCpusets

VARIABLES
  proc,     \* of each process: "none", "listing" in its constructor, "ready",
            \* the call it is in, or "dead"
  cost,     \* the vector it delivered last, by cpu number from 0
  overran   \* history: filling that vector wrote outside of it

own == <<proc, cost, overran>>

Counting == {"getTaskCount", "getTaskFrequencyVector", "getWeightedTaskFrequencyVector"}

InitProcesses ==
  /\ Init
  /\ proc = [r \in Readers |-> "none"]
  /\ cost = [r \in Readers |-> <<>>]
  /\ overran = [r \in Readers |-> FALSE]

Turns(r, state) ==
  /\ proc' = [proc EXCEPT ![r] = state]
  /\ UNCHANGED <<cost, overran>>

(***************************************************************************)
(* The constructor.  The list of cpus that it reads as well is never used. *)
(***************************************************************************)
Construct(r) ==
  /\ proc[r] = "none"
  /\ ListGroups(r)
  /\ Turns(r, "listing")

Constructed(r) ==
  /\ proc[r] = "listing"
  /\ at[r] = "ok"
  /\ UNCHANGED vars
  /\ Turns(r, "ready")

(***************************************************************************)
(* The three calls that count begin with getTaskCount, which looks through *)
(* the listed groups.                                                      *)
(***************************************************************************)
Ask(r, call) ==
  /\ proc[r] = "ready"
  /\ BeginUtilization(r)
  /\ Turns(r, call)

Utilize(r) ==
  /\ proc[r] \in Counting \cup {"listing"}
  /\ Read(r)
  /\ UNCHANGED own

HasCounts(r, call) ==
  /\ proc[r] = call
  /\ at[r] = "ok"
  /\ UNCHANGED vars

DeliverCounts(r) ==
  /\ HasCounts(r, "getTaskCount")
  /\ Turns(r, "ready")

(***************************************************************************)
(* The cost vector has as many elements as the map, all zero at first, and *)
(* each count is written at the number of its cpu.                         *)
(***************************************************************************)
ToTheLastCpu(map) ==   \* mutant: room for the highest number
  0 .. (IF map = <<>> THEN -1 ELSE CHOOSE m \in DOMAIN map : \A k \in DOMAIN map : k <= m)

Indexes(map) == 0 .. Cardinality(DOMAIN map) - 1

Outside(map) == DOMAIN map \ Indexes(map)

costVec(map) ==
  [i \in Indexes(map) |-> IF i \in DOMAIN map THEN map[i] ELSE 0]

(***************************************************************************)
(* A write outside the vector may go unnoticed or end the process.         *)
(***************************************************************************)
DeliverCosts(r) ==
  /\ HasCounts(r, "getTaskFrequencyVector")
  /\ proc' = [proc EXCEPT ![r] = "ready"]
  /\ cost' = [cost EXCEPT ![r] = costVec(util[r])]
  /\ overran' = [overran EXCEPT ![r] = Outside(util[r]) # {}]

Overrun(r) ==
  /\ HasCounts(r, "getTaskFrequencyVector")
  /\ Outside(util[r]) # {}
  /\ Turns(r, "dead")

(***************************************************************************)
(* The weights need the processing units per core, and nSockets, nCores,   *)
(* nProcessingUnits, nCoresPerSocket, getCoreDistance, getNumaForCore and  *)
(* getCudaCpus are the facade's own calls.                                 *)
(***************************************************************************)
AskForUnits(r) ==
  /\ HasCounts(r, "getWeightedTaskFrequencyVector")
  /\ Turns(r, "dead")

AskTopology(r) ==
  /\ proc[r] = "ready"
  /\ UNCHANGED vars
  /\ Turns(r, "dead")

OnlyThrows(r) ==   \* mutant: an error is neither looked for nor fatal
  /\ proc[r] \in Counting
  /\ at[r] = "dead"
  /\ UNCHANGED vars
  /\ Turns(r, "dead")

(***************************************************************************)
(* Try::get aborts on an error, which is not looked for, and nothing       *)
(* catches what the parser throws.                                         *)
(***************************************************************************)
CountFails(r) ==
  /\ proc[r] \in Counting
  /\ at[r] \in {"error", "dead"}
  /\ UNCHANGED vars
  /\ Turns(r, "dead")

Answer(r) ==
  \/ Constructed(r)
  \/ DeliverCounts(r)
  \/ DeliverCosts(r)
  \/ Overrun(r)
  \/ AskForUnits(r)
  \/ CountFails(r)

NextOfProcesses ==
  \/ \E r \in Readers : Construct(r) \/ Utilize(r) \/ Answer(r) \/ AskTopology(r)
  \/ \E r \in Readers, call \in Counting : Ask(r, call)
  \/ WritersAndTasks /\ UNCHANGED own

(***************************************************************************)
(* A call in progress is carried on by the thread of its process.          *)
(***************************************************************************)
SpecOfProcesses ==
  /\ InitProcesses
  /\ [][NextOfProcesses]_<<vars, own>>
  /\ \A r \in Readers : WF_<<vars, own>>(Utilize(r) \/ Answer(r))
-----------------------------------------------------------------------------
TypeOKOfProcesses ==
  /\ proc \in [Readers -> Counting \cup {"none", "listing", "ready", "dead"}]
  /\ DOMAIN cost = Readers
  /\ \A r \in Readers : \A i \in DOMAIN cost[r] : i \in Nat /\ cost[r][i] \in 0 .. 2
  /\ overran \in [Readers -> BOOLEAN]

(***************************************************************************)
(* Every cost of a vector is positive exactly when filling it stayed       *)
(* inside (lines 118-126): the parser leaves gaps among the cpus, and for  *)
(* each gap some other count is written past the end.                      *)
(***************************************************************************)
ZeroCostMeansOverrun ==
  \A r \in Readers : overran[r] <=> \E i \in DOMAIN cost[r] : cost[r][i] = 0

(***************************************************************************)
(* The list of groups is the one of line 52 for ever: a process made when  *)
(* there was no group answers no call for counts, whatever groups there    *)
(* are by then.                                                            *)
(***************************************************************************)
AnswersNeedAListedGroup ==
  [][ \A r \in Readers :
        proc[r] \in Counting /\ proc'[r] = "ready" => groups[r] # <<>> ]_proc

(***************************************************************************)
(* Every call for counts is answered or ends the process (lines 98-147).   *)
(***************************************************************************)
EveryCountEnds ==
  \A r \in Readers : proc[r] \in Counting ~> proc[r] \in {"ready", "dead"}
=============================================================================
