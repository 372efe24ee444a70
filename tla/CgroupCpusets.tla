--------------------------- MODULE CgroupCpusets ---------------------------
(***************************************************************************)
(* The cpuset functions (src/cgroupcpusets.cpp) and their users.  They     *)
(* keep no state: everything is in the directories below                   *)
(* /sys/fs/cgroup/cpuset, which every process of the machine shares.  A    *)
(* function that looks for a directory, opens a file of it and reads or    *)
(* writes the file takes three steps.  Writers make, fill and remove       *)
(* groups; readers list the groups and ask for the utilization of the      *)
(* cpus.  The subsystem is mounted.                                        *)
(***************************************************************************)
EXTENDS Integers, Sequences, FiniteSets, SequencesExt

CONSTANTS
  Groups,
  Pids,
  Cpus,      \* the machine's, by os index
  Nodes,     \* its memory nodes
  Lists,     \* the vectors that writers assign
  Garbage,   \* what is read one past the end of a vector<int>
  Writers,
  Readers,
  None       \* no call yet

ASSUME MachineAssumption ==
  Cpus \subseteq Nat /\ Nodes \subseteq Nat /\ IsFiniteSet(Cpus)
ASSUME GroupsAssumption == IsFiniteSet(Groups)
ASSUME ListsAssumption == Lists \subseteq Seq(Nat)
ASSUME GarbageAssumption == Garbage \subseteq Int /\ Garbage # {}

Call ==
  [op : {"create", "destroy"}, group : Groups]
    \cup [op : {"attach"}, group : Groups, pid : Pids]
    \cup [op : {"assign"}, group : Groups, file : {"cpus", "mems"}, list : Lists]

VARIABLES
  dirs,    \* the directory of each group
  doing,   \* the last call of each writer and where it is, or how it ended
  groups,  \* the list of groups each reader holds
  at,      \* where its call is, or how the last one ended
  left,    \* the groups that call has still to look at
  util,    \* its map from cpu to count
  stayed,  \* history: the groups that were there all the time since it began
  kept     \* history: those that were since a writer opened its file

history == <<stayed, kept>>
writing == <<dirs, doing, history>>
reading == <<groups, at, left, util>>
vars == <<dirs, doing, groups, at, left, util, stayed, kept>>

Absent == [there |-> FALSE, cpus |-> {}, mems |-> {}, tasks |-> {}]
Fresh == [Absent EXCEPT !.there = TRUE]

There == {g \in Groups : dirs[g].there}

Init ==
  /\ dirs = [g \in Groups |-> Absent]
  /\ doing = [w \in Writers |-> [call |-> None, state |-> "ok"]]
  /\ groups = [r \in Readers |-> <<>>]
  /\ at = [r \in Readers |-> "ok"]
  /\ left = [r \in Readers |-> <<>>]
  /\ util = [r \in Readers |-> <<>>]
  /\ stayed = [r \in Readers |-> {}]
  /\ kept = [w \in Writers |-> {}]
-----------------------------------------------------------------------------
(***************************************************************************)
(* Writers.                                                                *)
(***************************************************************************)
Free(w) == doing[w].state \in {"ok", "error"}

In(w, state, ops) == doing[w].state = state /\ doing[w].call.op \in ops

Becomes(w, call, state) ==
  doing' = [doing EXCEPT ![w] = [call |-> call, state |-> state]]

Ends(w, state) == Becomes(w, doing[w].call, state)

(***************************************************************************)
(* os::mkdir makes what is missing of the path, so create_cpuset_group is  *)
(* content with a group that is there.                                     *)
(***************************************************************************)
Create(w, call) ==
  /\ Free(w)
  /\ call.op = "create"
  /\ dirs' = IF dirs[call.group].there THEN dirs
             ELSE [dirs EXCEPT ![call.group] = Fresh]
  /\ Becomes(w, call, "ok")
  /\ UNCHANGED <<reading, history>>

(***************************************************************************)
(* The other four begin with os::exists.  To assign an empty vector is to  *)
(* read its first element through a null pointer.                          *)
(***************************************************************************)
NullRead(call) == call.op = "assign" /\ call.list = <<>>

Look(w, call) ==
  /\ Free(w)
  /\ call.op # "create"
  /\ Becomes(w, call, IF ~ dirs[call.group].there THEN "error"
                      ELSE IF NullRead(call) THEN "dead" ELSE "running")
  /\ UNCHANGED <<dirs, reading, history>>

(***************************************************************************)
(* os::rmdir fails when the directory is gone or in use, and wherever the  *)
(* kernel refuses to unlink the control files.  A file of the directory    *)
(* that somebody has open can be neither read nor written any more, even   *)
(* if the group is made again.                                             *)
(***************************************************************************)
Unlinked(g) ==
  [v \in Writers |->
     IF doing[v].state = "open" /\ doing[v].call.group = g
     THEN [doing[v] EXCEPT !.state = "stale"] ELSE doing[v]]

Rmdir(w) ==
  LET g == doing[w].call.group
  IN  /\ In(w, "running", {"destroy"})
      /\ dirs[g].there
      /\ dirs[g].tasks = {}
      /\ dirs' = [dirs EXCEPT ![g] = Absent]
      /\ doing' = [Unlinked(g) EXCEPT ![w].state = "ok"]
      /\ at' = [r \in Readers |->
                  IF at[r] = "open" /\ Head(left[r]) = g THEN "stale" ELSE at[r]]
      /\ stayed' = [r \in Readers |-> stayed[r] \ {g}]
      /\ kept' = [v \in Writers |-> kept[v] \ {g}]
      /\ UNCHANGED <<groups, left, util>>

RmdirFails(w) ==
  /\ In(w, "running", {"destroy"})
  /\ Ends(w, "error")
  /\ UNCHANGED <<dirs, reading, history>>

(***************************************************************************)
(* std::ofstream opens a file of the directory, or does not.               *)
(***************************************************************************)
Open(w) ==
  /\ In(w, "running", {"attach", "assign"})
  /\ dirs[doing[w].call.group].there
  /\ Ends(w, "open")
  /\ kept' = [kept EXCEPT ![w] = There]
  /\ UNCHANGED <<dirs, reading, stayed>>

OpenFails(w) ==
  /\ In(w, "running", {"attach", "assign"})
  /\ ~ dirs[doing[w].call.group].there
  /\ Ends(w, "error")
  /\ UNCHANGED <<dirs, reading, history>>

(***************************************************************************)
(* The text goes out when the file is flushed or closed.  What the kernel  *)
(* makes of it is not asked, and it takes nothing once the group is gone.  *)
(***************************************************************************)
WriteRefused(w) ==
  /\ In(w, "stale", {"attach", "assign"})
  /\ Ends(w, "ok")
  /\ UNCHANGED <<dirs, reading, history>>

(***************************************************************************)
(* The kernel moves a task, unless it has exited, into a group that has    *)
(* cpus and memory, and gives a group the cpus or the memory of a list if  *)
(* the machine has all of them.                                            *)
(***************************************************************************)
Moved(g, pid) ==
  IF dirs[g].cpus # {} /\ dirs[g].mems # {}
  THEN [h \in Groups |->
          [dirs[h] EXCEPT !.tasks = IF h = g THEN @ \cup {pid} ELSE @ \ {pid}]]
  ELSE dirs

Given(g, file, set) ==
  IF set \subseteq (IF file = "cpus" THEN Cpus ELSE Nodes)
  THEN [dirs EXCEPT ![g][file] = set]
  ELSE dirs

Attach(w) ==
  LET call == doing[w].call
  IN  /\ In(w, "open", {"attach"})
      /\ dirs' \in {dirs, Moved(call.group, call.pid)}
      /\ Ends(w, "ok")
      /\ UNCHANGED <<reading, history>>

WrittenPast(list, past) ==   \* mutant: >= for > in the test of the size
  IF Len(list) >= 1 THEN ToSet(Front(list)) \cup {past} ELSE {list[1]}

(***************************************************************************)
(* The list that is written ends with *std::end, not with the last cpu.    *)
(***************************************************************************)
Written(list, past) ==
  IF Len(list) > 1 THEN ToSet(Front(list)) \cup {past} ELSE {list[1]}

Assign(w) ==
  LET call == doing[w].call
  IN  /\ In(w, "open", {"assign"})
      /\ \E past \in Garbage :
           dirs' = Given(call.group, call.file, Written(call.list, past))
      /\ Ends(w, "ok")
      /\ UNCHANGED <<reading, history>>

TaskExits(pid) ==
  /\ dirs' = [g \in Groups |-> [dirs[g] EXCEPT !.tasks = @ \ {pid}]]
  /\ UNCHANGED <<doing, reading, history>>
-----------------------------------------------------------------------------
(***************************************************************************)
(* parse_os_index_file.  The kernel writes a set of cpus as runs: "4" for  *)
(* one, "0-3" for more.  Of a run the function keeps the two ends, and the *)
(* upper one once more with everything from there to below the integer     *)
(* behind the vector, one garbage value for each run.                      *)
(***************************************************************************)
Runs(S) ==
  {run \in [first : S, last : S] : /\ run.first <= run.last
                                  /\ run.first .. run.last \subseteq S
                                  /\ run.first - 1 \notin S
                                  /\ run.last + 1 \notin S}

Longer(S) == {run \in Runs(S) : run.first < run.last}

Beyond(S, past, cpu) ==
  {run \in Longer(S) : run.last <= cpu /\ cpu < past[run]}

Times(S, past, cpu) ==
  Cardinality({run \in Runs(S) : cpu = run.first})
    + Cardinality({run \in Longer(S) : cpu = run.last})
    + Cardinality(Beyond(S, past, cpu))

Indices(S, past) ==
  {run.first : run \in Runs(S)} \cup {run.last : run \in Runs(S)}
    \cup UNION {run.last .. past[run] - 1 : run \in Longer(S)}

Pasts(S) == [Longer(S) -> Garbage]

CountedUp(map, S, past) ==   \* mutant: the value for map::count
  [cpu \in DOMAIN map \cup Indices(S, past) |->
     (IF cpu \in DOMAIN map THEN map[cpu] ELSE 0) + Times(S, past, cpu)]

(***************************************************************************)
(* The loop over the cpus of a group.  map::count is 0 or 1, so a cpu that *)
(* is in the map already is set to two, whatever it was before.            *)
(***************************************************************************)
Counted(map, S, past) ==
  [cpu \in DOMAIN map \cup Indices(S, past) |->
     IF cpu \notin Indices(S, past) THEN map[cpu]
     ELSE IF cpu \in DOMAIN map \/ Times(S, past, cpu) > 1 THEN 2
     ELSE 1]
-----------------------------------------------------------------------------
(***************************************************************************)
(* Readers.  get_cpuset_groups reads the names of the groups, in the order *)
(* the directory has them in, and keeps those that are still directories   *)
(* when it looks at them one after the other.                              *)
(***************************************************************************)
Idle(r) == at[r] \in {"ok", "error"}

ListGroups(r) ==
  /\ Idle(r)
  /\ \E list \in SetToSeqs(There) : left' = [left EXCEPT ![r] = list]
  /\ groups' = [groups EXCEPT ![r] = <<>>]
  /\ at' = [at EXCEPT ![r] = "listing"]
  /\ UNCHANGED <<writing, util>>

KeepName(r) ==
  /\ at[r] = "listing"
  /\ left[r] # <<>>
  /\ groups' = [groups EXCEPT ![r] =
                  IF dirs[Head(left[r])].there THEN Append(@, Head(left[r])) ELSE @]
  /\ left' = [left EXCEPT ![r] = Tail(@)]
  /\ UNCHANGED <<writing, at, util>>

AllListed(r) ==
  /\ at[r] = "listing"
  /\ left[r] = <<>>
  /\ at' = [at EXCEPT ![r] = "ok"]
  /\ UNCHANGED <<writing, groups, left, util>>

(***************************************************************************)
(* get_cpuset_cpu_utilization: the cpus of the machine count one each ...  *)
(***************************************************************************)
BeginUtilization(r) ==
  /\ Idle(r)
  /\ \E past \in Pasts(Cpus) :
       util' = [util EXCEPT ![r] = [cpu \in Indices(Cpus, past) |-> 1]]
  /\ at' = [at EXCEPT ![r] = "looking"]
  /\ left' = [left EXCEPT ![r] = groups[r]]
  /\ stayed' = [stayed EXCEPT ![r] = There]
  /\ UNCHANGED <<dirs, doing, groups, kept>>

SkipsAny(r) ==   \* mutant: the test of line 332 is wrong
  /\ at[r] = "looking"
  /\ left[r] # <<>>
  /\ left' = [left EXCEPT ![r] = Tail(@)]
  /\ UNCHANGED <<writing, groups, at, util>>

MissingStays(r) ==   \* mutant: the iterator moves for groups that exist
  /\ at[r] = "looking"
  /\ left[r] # <<>>
  /\ ~ dirs[Head(left[r])].there
  /\ UNCHANGED vars

(***************************************************************************)
(* ... and any_of goes through the groups.  A group that does not exist is *)
(* passed over, and the first one that does exist is the last.             *)
(***************************************************************************)
GroupMissing(r) ==
  /\ at[r] = "looking"
  /\ left[r] # <<>>
  /\ ~ dirs[Head(left[r])].there
  /\ left' = [left EXCEPT ![r] = Tail(@)]
  /\ UNCHANGED <<writing, groups, at, util>>

GroupFound(r) ==
  /\ at[r] = "looking"
  /\ left[r] # <<>>
  /\ dirs[Head(left[r])].there
  /\ at' = [at EXCEPT ![r] = "opening"]
  /\ UNCHANGED <<writing, groups, left, util>>

NoGroupIsFine(r) ==   \* mutant: the map of the machine is returned
  /\ at[r] = "looking"
  /\ left[r] = <<>>
  /\ at' = [at EXCEPT ![r] = "ok"]
  /\ UNCHANGED <<writing, groups, left, util>>

NoGroupLeft(r) ==
  /\ at[r] = "looking"
  /\ left[r] = <<>>
  /\ at' = [at EXCEPT ![r] = "error"]
  /\ UNCHANGED <<writing, groups, left, util>>

(***************************************************************************)
(* A file that does not open is parsed as having no indices.  Of one that  *)
(* does, the empty line of a group without cpus makes std::stoi throw, and *)
(* so does the line that getline does not get when the group was removed.  *)
(***************************************************************************)
CountNothing(r) ==
  /\ at[r] = "opening"
  /\ ~ dirs[Head(left[r])].there
  /\ at' = [at EXCEPT ![r] = "ok"]
  /\ UNCHANGED <<writing, groups, left, util>>

OpenFile(r) ==
  /\ at[r] = "opening"
  /\ dirs[Head(left[r])].there
  /\ at' = [at EXCEPT ![r] = "open"]
  /\ UNCHANGED <<writing, groups, left, util>>

ThrowUnopened(r) ==   \* mutant: the line of a file that did not open is parsed
  /\ at[r] \in {"opening", "open", "stale"}
  /\ at[r] # "stale" => dirs[Head(left[r])].cpus = {}
  /\ at' = [at EXCEPT ![r] = "dead"]
  /\ UNCHANGED <<writing, groups, left, util>>

Throw(r) ==
  /\ \/ at[r] = "stale"
     \/ at[r] = "open" /\ dirs[Head(left[r])].cpus = {}
  /\ at' = [at EXCEPT ![r] = "dead"]
  /\ UNCHANGED <<writing, groups, left, util>>

CountGroup(r) ==
  LET cpus == dirs[Head(left[r])].cpus
  IN  /\ at[r] = "open"
      /\ cpus # {}
      /\ \E past \in Pasts(cpus) :
           util' = [util EXCEPT ![r] = Counted(@, cpus, past)]
      /\ at' = [at EXCEPT ![r] = "ok"]
      /\ UNCHANGED <<writing, groups, left>>

Write(w) ==
  \/ Rmdir(w)
  \/ RmdirFails(w)
  \/ Open(w)
  \/ OpenFails(w)
  \/ WriteRefused(w)
  \/ Attach(w)
  \/ Assign(w)

Read(r) ==
  \/ KeepName(r)
  \/ AllListed(r)
  \/ GroupMissing(r)
  \/ GroupFound(r)
  \/ NoGroupLeft(r)
  \/ CountNothing(r)
  \/ OpenFile(r)
  \/ Throw(r)
  \/ CountGroup(r)

WritersAndTasks ==
  \/ \E w \in Writers : Write(w) \/ \E call \in Call : Create(w, call) \/ Look(w, call)
  \/ \E pid \in Pids : TaskExits(pid)

Next ==
  \/ WritersAndTasks
  \/ \E r \in Readers : Read(r) \/ ListGroups(r) \/ BeginUtilization(r)

(***************************************************************************)
(* A call that has begun is carried on by the thread that made it.         *)
(***************************************************************************)
Spec == /\ Init /\ [][Next]_vars
        /\ \A w \in Writers : WF_vars(Write(w))
        /\ \A r \in Readers : WF_vars(Read(r))
-----------------------------------------------------------------------------
States == {"ok", "error", "dead"}

Writing == {"running", "open", "stale"}

Looking == {"looking", "opening", "open", "stale"}

Directory == [there : BOOLEAN, cpus : SUBSET Cpus, mems : SUBSET Nodes,
              tasks : SUBSET Pids]

(***************************************************************************)
(* The types.  A count is 1 or 2: it does not tell how many groups share a *)
(* cpu, nor how often the file of one group names it (line 316).           *)
(***************************************************************************)
TypeOK ==
  /\ dirs \in [Groups -> Directory]
  /\ doing \in [Writers -> [call : Call \cup {None}, state : States \cup Writing]]
  /\ groups \in [Readers -> Seq(Groups)]
  /\ at \in [Readers -> States \cup Looking \cup {"listing"}]
  /\ left \in [Readers -> Seq(Groups)]
  /\ \A r \in Readers : \A cpu \in DOMAIN util[r] : cpu \in Int /\ util[r][cpu] \in {1, 2}
  /\ stayed \in [Readers -> SUBSET Groups]
  /\ kept \in [Writers -> SUBSET Groups]

(***************************************************************************)
(* A utilization that fails has had nothing to count: none of the groups   *)
(* of its list was there all the time the call took, whatever writers made *)
(* and removed between its looks (lines 366-380).                          *)
(***************************************************************************)
ErrorMeansNoneStayed ==
  \A r \in Readers : at[r] = "error" => stayed[r] \cap ToSet(groups[r]) = {}

(***************************************************************************)
(* A reader dies of two things only: a group of its list that is there and *)
(* has no cpus, or one that was removed after the reader had opened its    *)
(* file.  A group that is gone when the file is opened, at whatever moment *)
(* since the list was made, kills nobody (lines 76, 77, 122 and 332-342).  *)
(***************************************************************************)
DeathNeedsAnEmptyGroup ==
  [][ \A r \in Readers :
        at[r] # "dead" /\ at'[r] = "dead" =>
          \/ \E g \in ToSet(groups[r]) : dirs[g].there /\ dirs[g].cpus = {}
          \/ at[r] = "stale" /\ \E g \in ToSet(groups[r]) : g \notin stayed[r] ]_at

(***************************************************************************)
(* A vector of one cpu is written as it is: when the call succeeds the     *)
(* group has that cpu and no other, if it was there all the time since its *)
(* file was opened; it may have been removed and made again before that,   *)
(* since os::exists saw it (lines 242-257).  Without the condition this is *)
(* not so, for the group may be removed before the file is closed.         *)
(***************************************************************************)
Answered(w, op) ==
  doing[w].state \in Writing /\ doing[w].call.op = op /\ doing'[w].state = "ok"

OneCpuIsExact ==
  [][ \A w \in Writers :
        LET call == doing[w].call
        IN  Answered(w, "assign") /\ call.file = "cpus"
              /\ Len(call.list) = 1 /\ call.list[1] \in Cpus
              /\ call.group \in kept[w]
            => dirs'[call.group].cpus = ToSet(call.list) ]_doing

(***************************************************************************)
(* Every call that is begun ends, if only with the process.                *)
(***************************************************************************)
EveryCallEnds ==
  /\ \A w \in Writers : doing[w].state \in Writing ~> doing[w].state \in States
  /\ \A r \in Readers : at[r] \in Looking \cup {"listing"} ~> at[r] \in States

(***************************************************************************)
(* What is said of these functions and the code does not do.               *)
(*                                                                         *)
(* README:22-24, "pinning tasks to a set of cpu cores": after a successful *)
(* assign_cpuset_group_cpus the group has the cpus of the vector.          *)
(***************************************************************************)
AssignedAsAsked ==
  [][ \A w \in Writers :
        LET call == doing[w].call
        IN  Answered(w, "assign") /\ call.file = "cpus" /\ ToSet(call.list) \subseteq Cpus
            => dirs'[call.group].cpus = ToSet(call.list) ]_doing

(***************************************************************************)
(* TopologyResourceInformation.hpp:95-96, of the map that getTaskCount has *)
(* from get_cpuset_cpu_utilization: "get the number of tasks assigned to   *)
(* cores".  A core with more tasks has the larger count, if all the groups *)
(* that exist are on the reader's list and the parser left neither core    *)
(* out of the machine's.                                                   *)
(***************************************************************************)
TasksOn(cpu) == UNION {dirs[g].tasks : g \in {h \in Groups : cpu \in dirs[h].cpus}}

CountsTasks ==
  [][ \A r \in Readers :
        at[r] = "open" /\ at'[r] = "ok" /\ There \subseteq ToSet(groups[r]) =>
          \A c, d \in Cpus \cap DOMAIN util[r] :
            Cardinality(TasksOn(c)) < Cardinality(TasksOn(d)) =>
              util'[r][c] < util'[r][d] ]_at
=============================================================================
