----------------------------- MODULE CgroupDemo -----------------------------
(***************************************************************************)
(* The demonstration program (src/cgroupcpusets_main.cpp): a parent and a  *)
(* child with pipes between them.  The parent reads a pid from pipe_a to   *)
(* its end, makes a group of all cpus, attaches the pid and asks for the   *)
(* utilization; the child writes its pid and waits for the end of pipe_b.  *)
(* The end of a pipe is seen once nobody holds its writing side.           *)
(*                                                                         *)
(* The parent is a writer and a reader of CgroupCpusets.  Other programs   *)
(* make and remove the same group, and anyone may kill the two.            *)
(***************************************************************************)
EXTENDS CgroupCpusets

CONSTANTS
  Parent,   \* as a writer and as a reader
  Child,    \* the pid of the child
  Demo      \* the group "demo"

ASSUME DemoAssumption ==
  Parent \in Writers \cap Readers /\ Child \in Pids /\ Demo \in Groups

VARIABLES
  parent,    \* the next step of the parent, "gone" after the last
  child,     \* "none", "forked", "written", "reading" or "gone"
  pidSent,   \* the child's pid is in pipe_a
  chld_pid,  \* the parent's variables: not initialized,
  cpus,      \* the vector of cpus
  mems,      \* and that of memory nodes
  killed     \* history: one of the two was killed

own == <<parent, child, pidSent, chld_pid, cpus, mems, killed>>

InitDemo ==
  /\ Init
  /\ parent = "start"
  /\ child = "none"
  /\ pidSent = FALSE
  /\ chld_pid \in Pids
  /\ cpus = <<>>
  /\ mems = <<>>
  /\ killed = FALSE

OthersOfA == child \notin {"none", "gone"}   \* holds pipe_a[1], the parent closed its own

ClosesB == parent = "start"   \* mutant: the parent closes it, as the child does

HoldsB == parent # "gone"   \* the parent never closes pipe_b[1]

Goes(step) ==
  /\ parent' = step
  /\ UNCHANGED <<child, pidSent, chld_pid, cpus, mems, killed>>
-----------------------------------------------------------------------------
(***************************************************************************)
(* What get_cpuset_cpus makes of a set that the kernel lists: the indices  *)
(* in order, each as often as it was read.                                 *)
(***************************************************************************)
End(S, past) == Max({0} \cup {cpu + 1 : cpu \in Indices(S, past)})

Vector(S, past) ==
  LET below[n \in 0 .. End(S, past)] ==
        IF n = 0 THEN <<>>
        ELSE below[n - 1] \o [i \in 1 .. Times(S, past, n - 1) |-> n - 1]
  IN  below[End(S, past)]

get_cpuset_cpus == {Vector(Cpus, past) : past \in Pasts(Cpus)}

get_cpuset_mems_of_nodes == {Vector(Nodes, past) : past \in Pasts(Nodes)}   \* mutant

get_cpuset_mems == get_cpuset_cpus   \* as line 166 of cgroupcpusets.cpp has it

Fork ==
  /\ parent = "start"
  /\ cpus' \in get_cpuset_cpus
  /\ \/ parent' = "read" /\ child' = "forked"
     \/ parent' = "gone" /\ UNCHANGED child
  /\ UNCHANGED <<vars, pidSent, chld_pid, mems, killed>>

ReadPid ==
  /\ parent = "read"
  /\ pidSent
  /\ pidSent' = FALSE
  /\ chld_pid' = Child
  /\ UNCHANGED <<vars, parent, child, cpus, mems, killed>>

ReadsOnce ==   \* mutant: one pid is read, not all there is
  /\ parent = "read"
  /\ chld_pid = Child
  /\ mems' \in get_cpuset_mems
  /\ parent' = "create"
  /\ UNCHANGED <<vars, child, pidSent, chld_pid, cpus, killed>>

ReadToEnd ==
  /\ parent = "read"
  /\ ~ pidSent
  /\ ~ OthersOfA
  /\ mems' \in get_cpuset_mems
  /\ parent' = "create"
  /\ UNCHANGED <<vars, child, pidSent, chld_pid, cpus, killed>>

(***************************************************************************)
(* The calls on the group, one after the other; what they return is not    *)
(* looked at.                                                              *)
(***************************************************************************)
CallOf ==
  [create  |-> [op |-> "create", group |-> Demo],
   cpus    |-> [op |-> "assign", group |-> Demo, file |-> "cpus", list |-> cpus],
   mems    |-> [op |-> "assign", group |-> Demo, file |-> "mems", list |-> mems],
   attach  |-> [op |-> "attach", group |-> Demo, pid |-> chld_pid],
   destroy |-> [op |-> "destroy", group |-> Demo]]

After == [create |-> "cpus", cpus |-> "mems", mems |-> "attach", attach |-> "list",
          destroy |-> "wait"]

BeginCall ==
  /\ parent \in DOMAIN CallOf
  /\ Create(Parent, CallOf[parent]) \/ Look(Parent, CallOf[parent])
  /\ Goes(After[parent])

(***************************************************************************)
(* The kernel attaches no process that has ended.                          *)
(***************************************************************************)
FinishCall ==
  /\ parent # "gone"
  /\ Write(Parent)
  /\ In(Parent, "open", {"attach"}) /\ doing[Parent].call.pid = Child /\ child = "gone"
       => dirs' = dirs
  /\ UNCHANGED own

List ==
  /\ parent = "list"
  /\ Free(Parent)
  /\ ListGroups(Parent)
  /\ Goes("utilization")

Utilization ==
  /\ parent = "utilization"
  /\ BeginUtilization(Parent)
  /\ Goes("count")

Count ==
  /\ parent \in {"utilization", "count"}
  /\ Read(Parent)
  /\ UNCHANGED own

ShowCounts ==
  /\ parent = "count"
  /\ at[Parent] \in States
  /\ Goes(IF at[Parent] = "ok" THEN "destroy" ELSE "gone")
  /\ UNCHANGED vars

(***************************************************************************)
(* waitpid, and pipe_a once more to its end.                               *)
(***************************************************************************)
Wait ==
  /\ parent = "wait"
  /\ Free(Parent)
  /\ child = "gone"
  /\ Goes("gone")
  /\ UNCHANGED vars

ParentSteps ==
  Fork \/ ReadPid \/ ReadToEnd \/ BeginCall \/ FinishCall \/ List \/ Utilization
    \/ Count \/ ShowCounts \/ Wait
-----------------------------------------------------------------------------
(***************************************************************************)
(* The child.  Writing to pipe_a when the parent is gone, as it does at    *)
(* last, ends it with SIGPIPE.                                             *)
(***************************************************************************)
WritePid ==
  /\ child = "forked"
  /\ child' = IF parent = "gone" THEN "gone" ELSE "written"
  /\ pidSent' = (parent # "gone")
  /\ UNCHANGED <<vars, parent, chld_pid, cpus, mems, killed>>

CloseB ==
  /\ child = "written"
  /\ child' = "reading"
  /\ UNCHANGED <<vars, parent, pidSent, chld_pid, cpus, mems, killed>>

EndOfB ==
  /\ child = "reading"
  /\ ~ HoldsB
  /\ child' = "gone"
  /\ UNCHANGED <<vars, parent, pidSent, chld_pid, cpus, mems, killed>>

ChildSteps == WritePid \/ CloseB \/ EndOfB

KillParent ==
  /\ child # "none"
  /\ parent # "gone"
  /\ parent' = "gone"
  /\ killed' = TRUE
  /\ UNCHANGED <<vars, child, pidSent, chld_pid, cpus, mems>>

KillChild ==
  /\ child \notin {"none", "gone"}
  /\ child' = "gone"
  /\ killed' = TRUE
  /\ TaskExits(Child)
  /\ UNCHANGED <<parent, pidSent, chld_pid, cpus, mems>>

OtherPrograms ==
  /\ \/ \E w \in Writers \ {Parent} :
          \/ Write(w)
          \/ \E call \in Call : /\ call.op \in {"create", "destroy"}
                                /\ Create(w, call) \/ Look(w, call)
     \/ \E pid \in Pids \ {Child} : TaskExits(pid)
  /\ UNCHANGED own

NextOfDemo ==
  \/ ParentSteps
  \/ ChildSteps
  \/ KillParent
  \/ KillChild
  \/ OtherPrograms

(***************************************************************************)
(* Both processes run while they have a step to take.                      *)
(***************************************************************************)
SpecOfDemo ==
  /\ InitDemo
  /\ [][NextOfDemo]_<<vars, own>>
  /\ WF_<<vars, own>>(ParentSteps)
  /\ WF_<<vars, own>>(ChildSteps)
-----------------------------------------------------------------------------
(***************************************************************************)
(* Once there are two, nothing but a kill ends the demo: left alone, the   *)
(* parent reads pipe_a, which the child holds, and the child reads pipe_b, *)
(* which the parent holds, for ever (lines 40 and 52).  A kill of either   *)
(* brings both to their end.                                               *)
(***************************************************************************)
OnlyAKillEndsTheDemo ==
  /\ \/ <>[](parent = "read" /\ child = "reading")
     \/ <>killed
     \/ <>(parent = "gone" /\ child = "none")
  /\ killed ~> parent = "gone" /\ child = "gone"

(***************************************************************************)
(* The child is never in the group, for the parent comes to attach it only *)
(* when it is dead; what is attached instead, if its pid never arrived, is *)
(* any other task (lines 50-60).                                           *)
(***************************************************************************)
OnlyStrangersAreAttached ==
  /\ Child \notin dirs[Demo].tasks
  /\ dirs[Demo].tasks # {} => killed

(***************************************************************************)
(* On a machine with a cpu above all its memory nodes the parent asks for  *)
(* nodes that are not there (line 55, and line 166 of cgroupcpusets.cpp):  *)
(* the highest cpu ends a run, and no garbage takes it off the list.       *)
(***************************************************************************)
AsksForMissingNodes ==
  mems # <<>> /\ (\E c \in Cpus : \A n \in Nodes : n < c) => ~ (ToSet(mems) \subseteq Nodes)
=============================================================================
