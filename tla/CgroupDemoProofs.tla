-------------------------- MODULE CgroupDemoProofs --------------------------
(***************************************************************************)
(* Theorems about CgroupDemo, for any groups, cpus, garbage and other      *)
(* programs: whom the demo attaches, and for which memory nodes it asks.   *)
(*                                                                         *)
(* The parent comes past its first read only when the child is gone, and   *)
(* the child is gone only when one of the two was killed, for each waits   *)
(* for the other's end (Waiting).  From there on the calls of the parent   *)
(* are made for a dead child (ParentCalls), and nobody else attaches.      *)
(*                                                                         *)
(* The nodes are a vector of cpus, and the highest cpu is in each such     *)
(* vector: it ends a run, and the parser keeps both ends of every run.     *)
(***************************************************************************)
EXTENDS CgroupDemo, CgroupCpusetsProofs, FoldLemmas

Waiting ==
  /\ parent = "start" => child = "none"
  /\ parent = "read" => child # "none"
  /\ parent \notin {"start", "read", "gone"} => child = "gone"
  /\ child = "gone" => killed
  /\ parent = "gone" /\ child # "none" => killed

ParentCalls ==
  LET call == doing[Parent].call
  IN  doing[Parent].state \in Writing =>
        /\ child = "gone"
        /\ call.group = Demo
        /\ call.op = "assign" => call.file \in {"cpus", "mems"}
        /\ call.op = "attach" => call.pid \in Pids

OtherCalls ==
  \A w \in Writers \ {Parent} :
    doing[w].state \in Writing =>
      /\ doing[w].state = "running"
      /\ doing[w].call.op = "destroy" /\ doing[w].call.group \in Groups

Entries ==
  /\ DOMAIN doing = Writers
  /\ \A w \in Writers : DOMAIN doing[w] = {"call", "state"}

IInvOfDemo ==
  /\ dirs \in [Groups -> Directory]
  /\ Entries
  /\ chld_pid \in Pids
  /\ Waiting
  /\ ParentCalls
  /\ OtherCalls
  /\ OnlyStrangersAreAttached

-----------------------------------------------------------------------------
(***************************************************************************)
(* A step that attaches nobody and lets the two wait.                      *)
(***************************************************************************)
LEMMA NobodyAttachedKeepsInv ==
  ASSUME IInvOfDemo,
         dirs' \in [Groups -> Directory], dirs'[Demo].tasks \subseteq dirs[Demo].tasks,
         Entries', chld_pid' \in Pids,
         Waiting', ParentCalls', OtherCalls', killed => killed'
  PROVE  IInvOfDemo'
BY DEF IInvOfDemo, OnlyStrangersAreAttached

LEMMA WaitingKeepsCalls ==
  ASSUME IInvOfDemo, UNCHANGED doing, child = "gone" => child' = "gone"
  PROVE  Entries' /\ ParentCalls' /\ OtherCalls'
BY DEF IInvOfDemo, ParentCalls, OtherCalls, Entries

LEMMA SameDirectories ==
  ASSUME IInvOfDemo, dirs' = dirs
  PROVE  dirs' \in [Groups -> Directory] /\ dirs'[Demo].tasks \subseteq dirs[Demo].tasks
BY DEF IInvOfDemo

(***************************************************************************)
(* The steps of parent and child that are no calls, and the kills.         *)
(***************************************************************************)
LEMMA ParentAloneKeepsInv ==
  ASSUME IInvOfDemo,
         Fork \/ ReadPid \/ ReadToEnd \/ List \/ Utilization \/ Count \/ ShowCounts \/ Wait
  PROVE  IInvOfDemo'
<1>1. UNCHANGED <<dirs, doing>> /\ UNCHANGED killed
  BY DEF Fork, ReadPid, ReadToEnd, List, Utilization, Count, ShowCounts, Wait, Goes, own, vars,
         ListGroups, BeginUtilization, Read, KeepName, AllListed, GroupMissing, GroupFound,
         NoGroupLeft, CountNothing, OpenFile, Throw, CountGroup, writing
<1>2. chld_pid' \in Pids
  BY DemoAssumption DEF Fork, ReadPid, ReadToEnd, List, Utilization, Count, ShowCounts, Wait,
         Goes, own, IInvOfDemo
<1>3. child = "gone" => child' = "gone"
  BY DEF Fork, ReadPid, ReadToEnd, List, Utilization, Count, ShowCounts, Wait,
         Goes, own, IInvOfDemo, Waiting
<1>4. Waiting'
  BY DEF Fork, ReadPid, ReadToEnd, List, Utilization, Count, ShowCounts, Wait,
         Goes, own, IInvOfDemo, Waiting, OthersOfA
<1> QED BY <1>1, <1>2, <1>3, <1>4, SameDirectories, WaitingKeepsCalls, NobodyAttachedKeepsInv

LEMMA ChildKeepsInv ==
  ASSUME IInvOfDemo, ChildSteps \/ KillParent
  PROVE  IInvOfDemo'
<1>1. UNCHANGED <<dirs, doing, chld_pid>> /\ (killed => killed')
  BY DEF ChildSteps, WritePid, CloseB, EndOfB, KillParent, vars
<1>2. child = "gone" => child' = "gone"
  BY DEF ChildSteps, WritePid, CloseB, EndOfB, KillParent
<1>3. Waiting'
  BY DEF ChildSteps, WritePid, CloseB, EndOfB, KillParent, IInvOfDemo, Waiting, HoldsB
<1> QED BY <1>1, <1>2, <1>3, SameDirectories, WaitingKeepsCalls, NobodyAttachedKeepsInv
        DEF IInvOfDemo

LEMMA TaskExitsShrinks ==
  ASSUME IInvOfDemo, NEW pid \in Pids, TaskExits(pid)
  PROVE  dirs' \in [Groups -> Directory] /\ dirs'[Demo].tasks \subseteq dirs[Demo].tasks
BY DemoAssumption DEF IInvOfDemo, TaskExits, Directory

LEMMA KillChildKeepsInv ==
  ASSUME IInvOfDemo, KillChild
  PROVE  IInvOfDemo'
<1>1. UNCHANGED <<doing, chld_pid, parent>> /\ killed' = TRUE /\ child' = "gone"
      /\ child \notin {"none", "gone"} /\ TaskExits(Child)
  BY DEF KillChild, TaskExits
<1>2. Waiting'
  BY <1>1 DEF IInvOfDemo, Waiting
<1> QED BY <1>1, <1>2, DemoAssumption, TaskExitsShrinks, WaitingKeepsCalls,
           NobodyAttachedKeepsInv DEF IInvOfDemo

-----------------------------------------------------------------------------
(***************************************************************************)
(* Calls.  What begins or ends a call changes the caller's entry alone.    *)
(***************************************************************************)
LEMMA OwnStays ==
  ASSUME IInvOfDemo, UNCHANGED own
  PROVE  Waiting' /\ chld_pid' \in Pids /\ child' = child /\ killed' = killed
BY DEF IInvOfDemo, Waiting, own

LEMMA EndingsKeepCalls ==
  ASSUME IInvOfDemo, NEW w \in Writers,
         NEW state \in {"ok", "error", "open"}, Ends(w, state),
         w # Parent => state # "open", doing[w].state \in Writing,
         UNCHANGED child
  PROVE  Entries' /\ ParentCalls' /\ OtherCalls'
BY DemoAssumption DEF IInvOfDemo, ParentCalls, OtherCalls, Ends, Becomes, Writing, Entries

(***************************************************************************)
(* A removal makes stale what others have open, and ends its own call.     *)
(***************************************************************************)
LEMMA RmdirKeepsCalls ==
  ASSUME IInvOfDemo, NEW w \in Writers, Rmdir(w), UNCHANGED child
  PROVE  Entries' /\ ParentCalls' /\ OtherCalls'
<1> DEFINE g == doing[w].call.group
<1>1. doing' = [Unlinked(g) EXCEPT ![w].state = "ok"]
  BY DEF Rmdir
<1> HIDE DEF g
<1>2. Entries'
  BY <1>1 DEF Unlinked, IInvOfDemo, Entries
<1>3. ASSUME NEW v \in Writers, doing'[v].state \in Writing
      PROVE  /\ doing[v].state \in Writing /\ doing'[v].call = doing[v].call
             /\ doing'[v].state = doing[v].state \/ doing[v].state = "open"
  <2>0. DOMAIN doing[v] = {"call", "state"}
    BY DEF IInvOfDemo, Entries
  <2>1. v # w
    BY <1>1, <1>3, <2>0 DEF Unlinked, Writing
  <2>2. doing'[v] = Unlinked(g)[v]
    BY <1>1, <2>1 DEF Unlinked
  <2>3. CASE doing[v].state = "open" /\ doing[v].call.group = g
    <3>1. doing'[v] = [doing[v] EXCEPT !.state = "stale"]
      BY <2>2, <2>3 DEF Unlinked
    <3>2. doing'[v].call = doing[v].call
      BY <2>0, <3>1
    <3> QED BY <2>3, <3>2 DEF Writing
  <2>4. CASE ~ (doing[v].state = "open" /\ doing[v].call.group = g)
    BY <1>3, <2>2, <2>4 DEF Unlinked
  <2> QED BY <2>3, <2>4
<1>4. ParentCalls'
  BY <1>3, DemoAssumption DEF IInvOfDemo, ParentCalls
<1>5. OtherCalls'
  BY <1>3 DEF IInvOfDemo, OtherCalls
<1> QED BY <1>2, <1>4, <1>5

LEMMA CreateShrinks ==
  ASSUME IInvOfDemo, NEW w \in Writers, NEW call, call.group \in Groups, Create(w, call)
  PROVE  dirs' \in [Groups -> Directory] /\ dirs'[Demo].tasks \subseteq dirs[Demo].tasks
<1>1. dirs' = dirs \/ dirs' = [dirs EXCEPT ![call.group] = Fresh]
  BY DEF Create
<1>2. CASE dirs' = [dirs EXCEPT ![call.group] = Fresh]
  BY <1>2, BareDirectories, DemoAssumption DEF IInvOfDemo, Fresh, Absent
<1> QED BY <1>1, <1>2, SameDirectories

LEMMA RmdirShrinks ==
  ASSUME IInvOfDemo, NEW w \in Writers, doing[w].call.group \in Groups, Rmdir(w)
  PROVE  dirs' \in [Groups -> Directory] /\ dirs'[Demo].tasks \subseteq dirs[Demo].tasks
BY BareDirectories, DemoAssumption DEF IInvOfDemo, Rmdir, Absent

(***************************************************************************)
(* Other programs make and remove groups, and attach nobody.               *)
(***************************************************************************)
LEMMA OthersKeepInv ==
  ASSUME IInvOfDemo, OtherPrograms
  PROVE  IInvOfDemo'
<1>1. UNCHANGED own
  BY DEF OtherPrograms
<1>2. ASSUME NEW w \in Writers \ {Parent}, Write(w)
      PROVE  IInvOfDemo'
  <2>1. doing[w].state = "running" /\ doing[w].call.op = "destroy" /\ doing[w].call.group \in Groups
    BY <1>2 DEF Write, Rmdir, RmdirFails, Open, OpenFails, WriteRefused, Attach, Assign, In,
                IInvOfDemo, OtherCalls, Writing
  <2>2. Rmdir(w) \/ RmdirFails(w)
    BY <1>2, <2>1 DEF Write, Open, OpenFails, WriteRefused, Attach, Assign, In
  <2>3. Entries' /\ ParentCalls' /\ OtherCalls'
    BY <1>1, <2>1, <2>2, OwnStays, RmdirKeepsCalls, EndingsKeepCalls DEF RmdirFails, Writing
  <2>4. dirs' \in [Groups -> Directory] /\ dirs'[Demo].tasks \subseteq dirs[Demo].tasks
    BY <2>1, <2>2, RmdirShrinks, SameDirectories DEF RmdirFails
  <2> QED BY <1>1, <2>3, <2>4, OwnStays, NobodyAttachedKeepsInv
<1>3. ASSUME NEW w \in Writers \ {Parent}, NEW call \in Call,
             call.op \in {"create", "destroy"}, Create(w, call) \/ Look(w, call)
      PROVE  IInvOfDemo'
  <2>1. call.group \in Groups
    BY DEF Call
  <2>2. dirs' \in [Groups -> Directory] /\ dirs'[Demo].tasks \subseteq dirs[Demo].tasks
    BY <1>3, <2>1, CreateShrinks, SameDirectories DEF Look
  <2>3. \E state \in {"ok", "error", "dead", "running"} :
          Becomes(w, call, state) /\ (state = "running" => call.op = "destroy")
    BY <1>3 DEF Create, Look
  <2>4. Entries' /\ ParentCalls' /\ OtherCalls'
    BY <1>1, <2>1, <2>3, OwnStays, DemoAssumption
       DEF IInvOfDemo, ParentCalls, OtherCalls, Entries, Becomes, Writing
  <2> QED BY <1>1, <2>2, <2>4, OwnStays, NobodyAttachedKeepsInv
<1>4. ASSUME NEW pid \in Pids, TaskExits(pid)
      PROVE  IInvOfDemo'
  <2>1. UNCHANGED doing
    BY <1>4 DEF TaskExits
  <2> QED BY <1>1, <1>4, <2>1, OwnStays, TaskExitsShrinks, WaitingKeepsCalls,
             NobodyAttachedKeepsInv
<1> QED BY <1>2, <1>3, <1>4 DEF OtherPrograms

(***************************************************************************)
(* A call of the parent.                                                   *)
(***************************************************************************)
LEMMA CallOfFacts ==
  ASSUME IInvOfDemo, parent \in DOMAIN CallOf
  PROVE  LET call == CallOf[parent]
         IN  /\ parent \notin {"start", "read", "gone"}
             /\ After[parent] \notin {"start", "read", "gone"}
             /\ call.group = Demo
             /\ call.op = "assign" => call.file \in {"cpus", "mems"}
             /\ call.op = "attach" => call.pid \in Pids
<1>1. parent \in {"create", "cpus", "mems", "attach", "destroy"}
  BY DEF CallOf
<1>2. CASE parent = "create"
  BY <1>2 DEF CallOf, After
<1>3. CASE parent = "cpus"
  BY <1>3 DEF CallOf, After
<1>4. CASE parent = "mems"
  BY <1>4 DEF CallOf, After
<1>5. CASE parent = "attach"
  BY <1>5 DEF CallOf, After, IInvOfDemo
<1>6. CASE parent = "destroy"
  BY <1>6 DEF CallOf, After
<1> QED BY <1>1, <1>2, <1>3, <1>4, <1>5, <1>6

LEMMA BeginCallKeepsInv ==
  ASSUME IInvOfDemo, BeginCall
  PROVE  IInvOfDemo'
<1> DEFINE call == CallOf[parent]
<1>1. /\ parent \notin {"start", "read", "gone"} /\ After[parent] \notin {"start", "read", "gone"}
      /\ call.group = Demo
      /\ call.op = "assign" => call.file \in {"cpus", "mems"}
      /\ call.op = "attach" => call.pid \in Pids
  BY CallOfFacts DEF BeginCall
<1>2. /\ parent' = After[parent] /\ child' = child /\ chld_pid' = chld_pid /\ killed' = killed
      /\ Create(Parent, call) \/ Look(Parent, call)
  BY DEF BeginCall, Goes
<1> HIDE DEF call
<1>3. child = "gone"
  BY <1>1 DEF IInvOfDemo, Waiting
<1>4. Waiting'
  BY <1>1, <1>2, <1>3 DEF IInvOfDemo, Waiting
<1>5. dirs' \in [Groups -> Directory] /\ dirs'[Demo].tasks \subseteq dirs[Demo].tasks
  BY <1>1, <1>2, DemoAssumption, CreateShrinks, SameDirectories DEF Look
<1>6. \E state : Becomes(Parent, call, state)
  BY <1>2 DEF Create, Look
<1>7. Entries' /\ ParentCalls' /\ OtherCalls'
  BY <1>1, <1>2, <1>3, <1>6, DemoAssumption
     DEF IInvOfDemo, ParentCalls, OtherCalls, Entries, Becomes
<1> QED BY <1>2, <1>4, <1>5, <1>7, NobodyAttachedKeepsInv DEF IInvOfDemo

(***************************************************************************)
(* Only here somebody may come into the group, and not the child.          *)
(***************************************************************************)
LEMMA AttachKeepsGroupStrange ==
  ASSUME IInvOfDemo, FinishCall, Attach(Parent)
  PROVE  dirs' \in [Groups -> Directory] /\ OnlyStrangersAreAttached'
<1> DEFINE pid == doing[Parent].call.pid
<1>1. /\ child = "gone" /\ doing[Parent].call.group = Demo /\ pid \in Pids /\ killed
      /\ In(Parent, "open", {"attach"})
  BY DEF Attach, In, IInvOfDemo, ParentCalls, Waiting, Writing
<1>2. killed'= killed
  BY DEF FinishCall, own
<1>3. pid = Child => dirs' = dirs
  BY <1>1 DEF FinishCall
<1>4. dirs' \in {dirs, Moved(Demo, pid)}
  BY <1>1 DEF Attach
<1> HIDE DEF pid
<1>5. CASE dirs' = dirs
  BY <1>2, <1>5 DEF IInvOfDemo, OnlyStrangersAreAttached
<1>6. CASE dirs' = Moved(Demo, pid) /\ pid # Child
  <2>1. dirs' \in [Groups -> Directory]
    BY <1>1, <1>6, DemoAssumption, MovedIsTyped DEF IInvOfDemo
  <2>2. dirs'[Demo].tasks \subseteq dirs[Demo].tasks \cup {pid}
    BY <1>6, DemoAssumption DEF Moved, IInvOfDemo, Directory
  <2> QED BY <1>1, <1>2, <1>6, <2>1, <2>2 DEF IInvOfDemo, OnlyStrangersAreAttached
<1> QED BY <1>3, <1>4, <1>5, <1>6

LEMMA GivenAttachesNobody ==
  ASSUME IInvOfDemo, NEW file \in {"cpus", "mems"}, NEW set
  PROVE  /\ Given(Demo, file, set) \in [Groups -> Directory]
         /\ Given(Demo, file, set)[Demo].tasks = dirs[Demo].tasks
<1>1. Demo \in Groups /\ dirs \in [Groups -> Directory]
  BY DemoAssumption DEF IInvOfDemo
<1>2. CASE file = "cpus"
  BY <1>1, <1>2 DEF Given, Directory
<1>3. CASE file = "mems"
  BY <1>1, <1>3 DEF Given, Directory
<1> QED BY <1>1, <1>2, <1>3, GivenIsTyped

LEMMA FinishCallKeepsInv ==
  ASSUME IInvOfDemo, FinishCall
  PROVE  IInvOfDemo'
<1>1. Write(Parent) /\ UNCHANGED own
  BY DEF FinishCall
<1>2. \/ Rmdir(Parent)
      \/ \E state \in {"ok", "error", "open"} : Ends(Parent, state)
  BY <1>1 DEF Write, RmdirFails, Open, OpenFails, WriteRefused, Attach, Assign
<1>3. doing[Parent].state \in Writing /\ doing[Parent].call.group = Demo
  BY <1>1 DEF Write, Rmdir, RmdirFails, Open, OpenFails, WriteRefused, Attach, Assign, In,
              IInvOfDemo, ParentCalls, Writing
<1>4. Entries' /\ ParentCalls' /\ OtherCalls'
  BY <1>1, <1>2, <1>3, OwnStays, DemoAssumption, RmdirKeepsCalls, EndingsKeepCalls
<1>5. CASE Attach(Parent)
  BY <1>1, <1>4, <1>5, OwnStays, AttachKeepsGroupStrange DEF IInvOfDemo
<1>6. ASSUME ~ Attach(Parent)
      PROVE  dirs' \in [Groups -> Directory] /\ dirs'[Demo].tasks \subseteq dirs[Demo].tasks
  <2>1. CASE Rmdir(Parent)
    BY <1>3, <2>1, DemoAssumption, RmdirShrinks
  <2>2. CASE \/ RmdirFails(Parent) \/ Open(Parent)
             \/ OpenFails(Parent) \/ WriteRefused(Parent)
    BY <2>2, SameDirectories DEF RmdirFails, Open, OpenFails, WriteRefused
  <2>3. CASE Assign(Parent)
    <3>1. doing[Parent].call.file \in {"cpus", "mems"}
      BY <2>3 DEF Assign, In, IInvOfDemo, ParentCalls, Writing
    <3>2. \E set : dirs' = Given(Demo, doing[Parent].call.file, set)
      BY <1>3, <2>3 DEF Assign
    <3> QED BY <3>1, <3>2, GivenAttachesNobody
  <2> QED BY <1>1, <1>6, <2>1, <2>2, <2>3 DEF Write
<1> QED BY <1>1, <1>4, <1>5, <1>6, OwnStays, NobodyAttachedKeepsInv

-----------------------------------------------------------------------------
LEMMA StepKeepsInvOfDemo ==
  ASSUME IInvOfDemo, [NextOfDemo]_<<vars, own>>
  PROVE  IInvOfDemo'
<1>1. CASE UNCHANGED <<vars, own>>
  BY <1>1, OwnStays, SameDirectories, WaitingKeepsCalls, NobodyAttachedKeepsInv DEF vars
<1> QED BY <1>1, ParentAloneKeepsInv, BeginCallKeepsInv, FinishCallKeepsInv, ChildKeepsInv,
           KillChildKeepsInv, OthersKeepInv DEF NextOfDemo, ParentSteps

LEMMA InitEstablishesInvOfDemo ==
  ASSUME InitDemo
  PROVE  IInvOfDemo
<1>1. /\ dirs = [g \in Groups |-> Absent]
      /\ doing = [w \in Writers |-> [call |-> None, state |-> "ok"]]
  BY DEF InitDemo, Init
<1>2. dirs \in [Groups -> Directory] /\ dirs[Demo].tasks = {}
  BY <1>1, DemoAssumption, BareDirectories DEF Absent
<1>3. Waiting /\ chld_pid \in Pids
  BY DEF InitDemo, Waiting
<1>4. Entries /\ ParentCalls /\ OtherCalls
  BY <1>1, DemoAssumption DEF ParentCalls, OtherCalls, Writing, Entries
<1> QED BY <1>2, <1>3, <1>4 DEF IInvOfDemo, OnlyStrangersAreAttached

(***************************************************************************)
(* The child is never in the demo's group, and nobody is unless one of the *)
(* two was killed, whatever other programs do with the group meanwhile.    *)
(***************************************************************************)
THEOREM ChildIsNeverAttached == SpecOfDemo => []OnlyStrangersAreAttached
<1>1. InitDemo => IInvOfDemo
  BY InitEstablishesInvOfDemo
<1>2. IInvOfDemo /\ [NextOfDemo]_<<vars, own>> => IInvOfDemo'
  BY StepKeepsInvOfDemo
<1>3. IInvOfDemo => OnlyStrangersAreAttached
  BY DEF IInvOfDemo
<1> QED BY <1>1, <1>2, <1>3, PTL DEF SpecOfDemo
-----------------------------------------------------------------------------
(***************************************************************************)
(* A vector is put together from one part for each cpu number, and has all *)
(* the elements of each.                                                   *)
(***************************************************************************)
Joined(below, part, n) ==
  below = [k \in 0 .. n |-> IF k = 0 THEN <<>> ELSE below[k - 1] \o part[k - 1]]

LEMMA JoinedExists ==
  ASSUME NEW part, NEW n \in Nat
  PROVE  \E below : Joined(below, part, n)
<1> DEFINE Bad == {k \in Nat : ~ \E below : Joined(below, part, k)}
<1>1. 0 \notin Bad
  <2>1. Joined([k \in 0 .. 0 |-> <<>>], part, 0)
    BY DEF Joined
  <2> QED BY <2>1
<1>2. ASSUME NEW k \in Nat, k \notin Bad
      PROVE  k + 1 \notin Bad
  <2>1. PICK p : Joined(p, part, k)
    BY <1>2
  <2> DEFINE q == [j \in 0 .. k + 1 |-> IF j = 0 THEN <<>> ELSE p[j - 1] \o part[j - 1]]
  <2>2. \A j \in 0 .. k : q[j] = p[j]
    BY <2>1 DEF Joined
  <2>3. ASSUME NEW j \in 0 .. k + 1
        PROVE  q[j] = IF j = 0 THEN <<>> ELSE q[j - 1] \o part[j - 1]
    <3>1. j # 0 => j - 1 \in 0 .. k
      OBVIOUS
    <3> QED BY <2>2, <3>1
  <2>4. q = [j \in 0 .. k + 1 |-> q[j]]
    OBVIOUS
  <2>5. Joined(q, part, k + 1)
    <3> HIDE DEF q
    <3> QED BY <2>3, <2>4 DEF Joined
  <2> QED BY <2>5
<1>3. Bad = {}
  <2>1. SUFFICES ASSUME Bad # {}
                 PROVE  FALSE
    OBVIOUS
  <2>2. PICK k \in Bad : \A j \in Bad : ~ (j < k)
    BY <2>1, LeastNatural
  <2>3. k \in Nat /\ k # 0
    BY <1>1
  <2>4. k - 1 \in Nat /\ k - 1 \notin Bad
    <3> HIDE DEF Bad
    <3> QED BY <2>2, <2>3
  <2>5. (k - 1) + 1 \notin Bad
    BY <1>2, <2>4
  <2>6. (k - 1) + 1 = k
    BY <2>3
  <2> QED BY <2>2, <2>5, <2>6
<1> QED BY <1>3

LEMMA InConcatenation ==
  ASSUME NEW A, NEW s \in Seq(A), NEW t \in Seq(A)
  PROVE  /\ s \o t \in Seq(A)
         /\ ToSet(s) \subseteq ToSet(s \o t)
         /\ ToSet(t) \subseteq ToSet(s \o t)
<1>1. s \o t \in Seq(A) /\ Len(s \o t) = Len(s) + Len(t) /\ Len(s) \in Nat /\ Len(t) \in Nat
  OBVIOUS
<1>2. \A i \in 1 .. Len(s) : (s \o t)[i] = s[i] /\ i \in 1 .. Len(s \o t)
  OBVIOUS
<1>3. \A i \in 1 .. Len(t) : (s \o t)[Len(s) + i] = t[i] /\ Len(s) + i \in 1 .. Len(s \o t)
  OBVIOUS
<1> HIDE DEF ToSet
<1>4. /\ ToSet(s) = {s[i] : i \in 1 .. Len(s)}
      /\ ToSet(t) = {t[i] : i \in 1 .. Len(t)}
      /\ ToSet(s \o t) = {(s \o t)[i] : i \in 1 .. Len(s \o t)}
  BY <1>1 DEF ToSet
<1> DEFINE u == s \o t
<1>5. /\ \A i \in 1 .. Len(s) : s[i] \in ToSet(u)
      /\ \A i \in 1 .. Len(t) : t[i] \in ToSet(u)
  BY <1>2, <1>3, <1>4
<1> QED BY <1>1, <1>4, <1>5

LEMMA JoinedHasAll ==
  ASSUME NEW A, NEW part, NEW n \in Nat, NEW below, Joined(below, part, n),
         \A k \in 0 .. n - 1 : part[k] \in Seq(A),
         NEW c \in 0 .. n - 1
  PROVE  ToSet(part[c]) \subseteq ToSet(below[n])
<1> DEFINE Fine(k) == /\ below[k] \in Seq(A)
                      /\ c < k => ToSet(part[c]) \subseteq ToSet(below[k])
           Bad == {k \in 0 .. n : ~ Fine(k)}
<1>1. Bad \subseteq Nat /\ \A k \in Bad : k \in 0 .. n /\ ~ Fine(k)
  OBVIOUS
<1>2. \A k \in 0 .. n : k \notin Bad => Fine(k)
  OBVIOUS
<1> HIDE DEF Bad
<1>3. SUFFICES ASSUME Bad # {}
               PROVE  FALSE
  BY <1>2
<1>4. PICK k \in Bad : \A j \in Bad : ~ (j < k)
  BY <1>1, <1>3, LeastNatural
<1>5. k \in 0 .. n /\ ~ Fine(k)
  BY <1>1
<1>6. k # 0
  <2>1. ASSUME k = 0
        PROVE  below[k] = <<>> /\ ~ (c < k)
    BY <2>1 DEF Joined
  <2>2. <<>> \in Seq(A)
    OBVIOUS
  <2> QED BY <1>5, <2>1, <2>2
<1>7. k - 1 \in 0 .. n - 1 /\ k - 1 \in 0 .. n /\ k - 1 < k
  BY <1>5, <1>6
<1>8. Fine(k - 1)
  BY <1>2, <1>4, <1>7
<1>9. below[k] = below[k - 1] \o part[k - 1]
  BY <1>5, <1>6 DEF Joined
<1>10. /\ below[k] \in Seq(A)
       /\ ToSet(below[k - 1]) \subseteq ToSet(below[k])
       /\ ToSet(part[k - 1]) \subseteq ToSet(below[k])
  BY <1>7, <1>8, <1>9, InConcatenation
<1>11. c < k => c < k - 1 \/ c = k - 1
  BY <1>5
<1> QED BY <1>5, <1>8, <1>10, <1>11

-----------------------------------------------------------------------------
(***************************************************************************)
(* The vectors that are read: every index is in its vector, and the        *)
(* highest cpu of a machine is an index, whatever the garbage.             *)
(***************************************************************************)
LEMMA IndicesAreNaturals ==
  ASSUME NEW S \in SUBSET Nat, NEW past \in Pasts(S)
  PROVE  Indices(S, past) \subseteq Nat
<1>1. ASSUME NEW run \in Runs(S)
      PROVE  run.first \in Nat /\ run.last \in Nat
  <2>1. run \in [first : S, last : S]
    BY DEF Runs
  <2>2. run.first \in S /\ run.last \in S
    BY <2>1
  <2> QED BY <2>2
<1>2. ASSUME NEW run \in Longer(S)
      PROVE  run.last .. past[run] - 1 \subseteq Nat
  <2>1. run.last \in Nat
    BY <1>1 DEF Longer
  <2>2. past[run] \in Int
    BY GarbageAssumption DEF Pasts
  <2> QED BY <2>1, <2>2
<1> QED BY <1>1, <1>2 DEF Indices

LEMMA EndIsAbove ==
  ASSUME NEW S \in SUBSET Nat, IsFiniteSet(S), NEW past \in Pasts(S)
  PROVE  End(S, past) \in Nat /\ \A cpu \in Indices(S, past) : cpu < End(S, past)
<1> DEFINE I == Indices(S, past)
           Ends1 == {cpu + 1 : cpu \in I}
           f == [cpu \in I |-> cpu + 1]
<1>1. I \subseteq Nat
  BY IndicesAreNaturals
<1>2. IsFiniteSet(I)
  BY IndicesAreFinite
<1> HIDE DEF I
<1>3. f \in Surjection(I, Ends1)
  BY DEF Surjection
<1>4. IsFiniteSet({0} \cup Ends1)
  BY <1>2, <1>3, FS_Surjection, FS_Singleton, FS_Union
<1>5. {0} \cup Ends1 \subseteq Nat
  BY <1>1
<1>6. Max({0} \cup Ends1) \in {0} \cup Ends1 /\ \A e \in {0} \cup Ends1 : e <= Max({0} \cup Ends1)
  BY <1>4, <1>5, GreatestOfFinite
<1>7. End(S, past) = Max({0} \cup Ends1)
  BY DEF End, I
<1>8. \A cpu \in I : cpu \in Nat /\ cpu + 1 <= End(S, past) /\ End(S, past) \in Nat
  BY <1>1, <1>5, <1>6, <1>7
<1>9. \A cpu \in I : cpu < End(S, past)
  BY <1>8
<1> QED BY <1>5, <1>6, <1>7, <1>9 DEF I

LEMMA TimesAreNatural ==
  ASSUME NEW S \in SUBSET Nat, IsFiniteSet(S), NEW past, NEW cpu
  PROVE  /\ Times(S, past, cpu) \in Nat
         /\ \A run \in Runs(S) : cpu = run.last => Times(S, past, cpu) > 0
<1> DEFINE A == {run \in Runs(S) : cpu = run.first}
           B == {run \in Longer(S) : cpu = run.last}
           C == Beyond(S, past, cpu)
<1>1. A \subseteq Runs(S) /\ B \subseteq Runs(S) /\ C \subseteq Runs(S)
  BY DEF Longer, Beyond
<1>2. /\ IsFiniteSet(A) /\ Cardinality(A) \in Nat
      /\ IsFiniteSet(B) /\ Cardinality(B) \in Nat
      /\ IsFiniteSet(C) /\ Cardinality(C) \in Nat
  BY <1>1, RunsAreFinite, FS_Subset, FS_CardinalityType
<1>3. Times(S, past, cpu) = Cardinality(A) + Cardinality(B) + Cardinality(C)
  BY DEF Times
<1>4. ASSUME NEW run \in Runs(S), cpu = run.last
      PROVE  Cardinality(A) # 0 \/ Cardinality(B) # 0
  <2>1. run \in A \/ run \in B
    <3>1. CASE run.first < run.last
      BY <1>4, <3>1 DEF Longer
    <3>2. CASE run.first = run.last
      BY <1>4, <3>2
    <3>3. run.first \in S /\ run.last \in S /\ run.first <= run.last
      <4>1. run \in [first : S, last : S] /\ run.first <= run.last
        BY DEF Runs
      <4> QED BY <4>1
    <3>4. run.first < run.last \/ run.first = run.last
      <4>1. \A x \in S : x \in Nat
        OBVIOUS
      <4>2. run.first \in Nat /\ run.last \in Nat
        BY <3>3, <4>1
      <4> QED BY <3>3, <4>2
    <3> QED BY <3>1, <3>2, <3>4
  <2> QED BY <1>2, <2>1, FS_EmptySet
<1> HIDE DEF A, B, C
<1> QED BY <1>2, <1>3, <1>4

LEMMA VectorHasIndex ==
  ASSUME NEW S \in SUBSET Nat, IsFiniteSet(S), NEW past \in Pasts(S),
         NEW c \in Indices(S, past), Times(S, past, c) > 0
  PROVE  c \in ToSet(Vector(S, past))
<1> DEFINE n == End(S, past)
           part == [k \in 0 .. n - 1 |-> [i \in 1 .. Times(S, past, k) |-> k]]
           below == CHOOSE b : b = [k \in 0 .. n |->
                      IF k = 0 THEN <<>>
                      ELSE b[k - 1] \o [i \in 1 .. Times(S, past, k - 1) |-> k - 1]]
<1>1. n \in Nat /\ c \in 0 .. n - 1
  BY EndIsAbove, IndicesAreNaturals
<1>2. Vector(S, past) = below[n]
  BY DEF Vector
<1>3. \A k \in 0 .. n - 1 : /\ part[k] = [i \in 1 .. Times(S, past, k) |-> k]
                            /\ part[k] \in Seq(Nat)
  <2>1. SUFFICES ASSUME NEW k \in 0 .. n - 1
                 PROVE  [i \in 1 .. Times(S, past, k) |-> k] \in Seq(Nat)
    OBVIOUS
  <2>2. Times(S, past, k) \in Nat /\ k \in Nat
    BY <1>1, TimesAreNatural
  <2> QED BY <2>2
<1> HIDE DEF part, n
<1>4. ASSUME NEW b
      PROVE  [k \in 0 .. n |->
                IF k = 0 THEN <<>>
                ELSE b[k - 1] \o [i \in 1 .. Times(S, past, k - 1) |-> k - 1]]
             = [k \in 0 .. n |-> IF k = 0 THEN <<>> ELSE b[k - 1] \o part[k - 1]]
  <2>1. ASSUME NEW k \in 0 .. n, k # 0
        PROVE  part[k - 1] = [i \in 1 .. Times(S, past, k - 1) |-> k - 1]
    <3>1. k - 1 \in 0 .. n - 1
      BY <1>1, <2>1
    <3> QED BY <1>3, <3>1
  <2> QED BY <2>1
<1>5. \A b : Joined(b, part, n) <=>
               b = [k \in 0 .. n |->
                      IF k = 0 THEN <<>>
                      ELSE b[k - 1] \o [i \in 1 .. Times(S, past, k - 1) |-> k - 1]]
  BY <1>4 DEF Joined
<1>6. Joined(below, part, n)
  BY <1>1, <1>5, JoinedExists
<1> HIDE DEF below
<1>7. ToSet(part[c]) \subseteq ToSet(below[n])
  BY <1>1, <1>3, <1>6, JoinedHasAll
<1>8. c \in ToSet(part[c])
  <2>1. Times(S, past, c) \in Nat
    BY TimesAreNatural
  <2>2. part[c] = [i \in 1 .. Times(S, past, c) |-> c] /\ 1 \in 1 .. Times(S, past, c)
    BY <1>1, <1>3, <2>1
  <2>3. 1 \in DOMAIN part[c] /\ part[c][1] = c
    BY <2>2
  <2> QED BY <2>3 DEF ToSet
<1> QED BY <1>2, <1>7, <1>8

LEMMA HighestEndsARun ==
  ASSUME NEW S \in SUBSET Nat, IsFiniteSet(S), S # {}
  PROVE  \E run \in Runs(S) : run.last = Max(S)
<1> DEFINE m == Max(S)
           Firsts == {f \in S : f <= m /\ f .. m \subseteq S}
<1>1. m \in S /\ \A s \in S : s <= m
  BY GreatestOfFinite
<1> HIDE DEF m
<1>2. m \in Nat /\ m + 1 \notin S
  BY <1>1
<1>3. m \in Firsts
  <2>1. m .. m \subseteq S
    BY <1>1, <1>2
  <2> QED BY <1>1, <1>2, <2>1
<1>4. PICK f \in Firsts : \A g \in Firsts : ~ (g < f)
  BY <1>3, LeastNatural
<1>5. f \in S /\ f \in Nat /\ f <= m /\ f .. m \subseteq S
  OBVIOUS
<1>6. f - 1 \notin S
  <2>1. SUFFICES ASSUME f - 1 \in S
                 PROVE  FALSE
    OBVIOUS
  <2>2. f - 1 \in Nat /\ f - 1 < f /\ f - 1 <= m
    BY <1>2, <1>5, <2>1
  <2>3. f - 1 .. m \subseteq S
    <3>1. \A x \in f - 1 .. m : x = f - 1 \/ x \in f .. m
      BY <1>2, <1>5
    <3> QED BY <1>5, <2>1, <3>1
  <2>4. f - 1 \in Firsts
    BY <2>1, <2>2, <2>3
  <2> QED BY <1>4, <2>2, <2>4
<1> DEFINE run == [first |-> f, last |-> m]
<1>7. run \in Runs(S)
  BY <1>1, <1>2, <1>5, <1>6 DEF Runs
<1> QED BY <1>7 DEF m

(***************************************************************************)
(* The highest cpu is in every vector that is read of the cpus.            *)
(***************************************************************************)
LEMMA HighestIsRead ==
  ASSUME Cpus # {}, NEW v \in get_cpuset_cpus
  PROVE  Max(Cpus) \in ToSet(v) /\ \A c \in Cpus : c <= Max(Cpus)
<1>1. PICK past \in Pasts(Cpus) : v = Vector(Cpus, past)
  BY DEF get_cpuset_cpus
<1>2. PICK run \in Runs(Cpus) : run.last = Max(Cpus)
  BY MachineAssumption, HighestEndsARun
<1>3. Max(Cpus) \in Indices(Cpus, past)
  BY <1>2 DEF Indices
<1>4. Times(Cpus, past, Max(Cpus)) > 0
  BY <1>2, MachineAssumption, TimesAreNatural
<1> QED BY <1>1, <1>3, <1>4, MachineAssumption, VectorHasIndex, GreatestOfFinite

(***************************************************************************)
(* What the parent holds for memory nodes is such a vector, once it is     *)
(* anything.                                                               *)
(***************************************************************************)
NodesAreCpus == mems = <<>> \/ mems \in get_cpuset_mems

(***************************************************************************)
(* On a machine with a cpu above all its memory nodes the demo asks for a  *)
(* node that is not there, for any cpus, nodes and garbage.                *)
(***************************************************************************)
THEOREM NodesAreMissing == SpecOfDemo => []AsksForMissingNodes
<1>1. InitDemo => NodesAreCpus
  BY DEF InitDemo, NodesAreCpus
<1>2. NodesAreCpus /\ [NextOfDemo]_<<vars, own>> => NodesAreCpus'
  <2>1. SUFFICES ASSUME NodesAreCpus, [NextOfDemo]_<<vars, own>>, ~ ReadToEnd
                 PROVE  mems' = mems
    BY DEF NodesAreCpus, ReadToEnd, get_cpuset_mems, get_cpuset_cpus
  <2> QED BY <2>1 DEF NextOfDemo, ParentSteps, Fork, ReadPid, BeginCall, FinishCall, List,
       Utilization, Count, ShowCounts, Wait, Goes, own, ChildSteps, WritePid, CloseB, EndOfB,
       KillParent, KillChild, OtherPrograms
<1>3. NodesAreCpus => AsksForMissingNodes
  <2>1. SUFFICES ASSUME NodesAreCpus, mems # <<>>,
                        NEW c \in Cpus, \A n \in Nodes : n < c
                 PROVE  ~ (ToSet(mems) \subseteq Nodes)
    BY DEF AsksForMissingNodes
  <2>2. Max(Cpus) \in ToSet(mems) /\ c <= Max(Cpus)
    BY <2>1, HighestIsRead DEF NodesAreCpus, get_cpuset_mems
  <2>3. Max(Cpus) \notin Nodes
    <3>1. c \in Nat /\ \A n \in Nodes : n \in Nat /\ n < c
      BY <2>1, MachineAssumption
    <3> HIDE DEF Max
    <3> QED BY <2>2, <3>1
  <2> QED BY <2>2, <2>3
<1> QED BY <1>1, <1>2, <1>3, PTL DEF SpecOfDemo
=============================================================================
