------------------------ MODULE CgroupCpusetsProofs ------------------------
(***************************************************************************)
(* Theorems about CgroupCpusets, for any groups, cpus, vectors, garbage,   *)
(* writers and readers.                                                    *)
(*                                                                         *)
(* That a utilization which fails had nothing to count is inductive with   *)
(* two additions: a group that stayed is there now (StayedAreThere), and   *)
(* what a running call has still to look at is part of its list and has    *)
(* all the groups of it that stayed, because those that were passed over   *)
(* have not (LeftIsTheRest).  The second also says why a reader that dies  *)
(* found a group of its own list without cpus.  That an open file is that  *)
(* of a group which is there, and a stale one that of a group which was    *)
(* removed (OpenFiles, KeptIsOpen), says the rest of how readers die, and  *)
(* when a write counts.                                                    *)
(***************************************************************************)
EXTENDS CgroupCpusets, FiniteSetTheorems, TLAPS

StayedAreThere == \A r \in Readers : stayed[r] \subseteq There

LeftIsTheRest ==
  \A r \in Readers :
    at[r] \in Looking =>
      /\ stayed[r] \cap ToSet(groups[r]) \subseteq ToSet(left[r])
      /\ ToSet(left[r]) \subseteq ToSet(groups[r])
      /\ at[r] # "looking" => left[r] # <<>>

OpenFiles ==
  \A r \in Readers :
    /\ at[r] = "open" => Head(left[r]) \in There
    /\ at[r] = "stale" => Head(left[r]) \notin stayed[r]

RunningCalls ==
  \A w \in Writers : doing[w].state \in Writing => doing[w].call \in Call

(***************************************************************************)
(* A writer keeps its file open while the group stays.                     *)
(***************************************************************************)
KeptIsOpen ==
  \A w \in Writers :
    doing[w].state = "stale" => doing[w].call.group \notin kept[w]

IInv ==
  /\ TypeOK
  /\ RunningCalls
  /\ StayedAreThere
  /\ LeftIsTheRest
  /\ OpenFiles
  /\ KeptIsOpen
  /\ ErrorMeansNoneStayed

-----------------------------------------------------------------------------
(***************************************************************************)
(* What the writers and the kernel do to the directories keeps their type. *)
(***************************************************************************)
LEMMA BareDirectories == Absent \in Directory /\ Fresh \in Directory
BY DEF Absent, Fresh, Directory

LEMMA GivenIsTyped ==
  ASSUME dirs \in [Groups -> Directory], NEW g \in Groups,
         NEW file \in {"cpus", "mems"}, NEW set
  PROVE  /\ Given(g, file, set) \in [Groups -> Directory]
         /\ \A h \in Groups : Given(g, file, set)[h].there = dirs[h].there
<1>1. CASE file = "cpus"
  BY <1>1 DEF Given, Directory
<1>2. CASE file = "mems"
  BY <1>2 DEF Given, Directory
<1> QED BY <1>1, <1>2

LEMMA MovedIsTyped ==
  ASSUME dirs \in [Groups -> Directory], NEW g \in Groups, NEW pid \in Pids
  PROVE  /\ Moved(g, pid) \in [Groups -> Directory]
         /\ \A h \in Groups : Moved(g, pid)[h].there = dirs[h].there
BY DEF Moved, Directory

(***************************************************************************)
(* What a writer's change of its own entry keeps.                          *)
(***************************************************************************)
DoingTyped ==
  /\ doing \in [Writers -> [call : Call \cup {None}, state : States \cup Writing]]
  /\ kept \in [Writers -> SUBSET Groups]
  /\ RunningCalls
  /\ KeptIsOpen

LEMMA BecomesKeepsDoing ==
  ASSUME DoingTyped, NEW w \in Writers, NEW call \in Call,
         NEW state \in (States \cup Writing) \ {"stale"}, Becomes(w, call, state),
         kept' = kept \/ kept' = [kept EXCEPT ![w] = There]
  PROVE  DoingTyped'
<1>1. /\ doing' \in [Writers -> [call : Call \cup {None}, state : States \cup Writing]]
      /\ RunningCalls'
  BY DEF DoingTyped, RunningCalls, Becomes
<1>2. kept' \in [Writers -> SUBSET Groups]
  BY DEF DoingTyped, There
<1>3. ASSUME NEW v \in Writers, doing'[v].state = "stale"
      PROVE  doing'[v].call.group \notin kept'[v]
  <2>1. v # w
    BY <1>3 DEF Becomes, DoingTyped
  <2>2. doing'[v] = doing[v] /\ kept'[v] = kept[v]
    BY <2>1 DEF Becomes, DoingTyped
  <2> QED BY <1>3, <2>2 DEF DoingTyped, KeptIsOpen
<1> QED BY <1>1, <1>2, <1>3 DEF DoingTyped, KeptIsOpen

LEMMA EndsKeepsDoing ==
  ASSUME DoingTyped, NEW w \in Writers, NEW ops, NEW from \in Writing, In(w, from, ops),
         NEW state \in (States \cup Writing) \ {"stale"}, Ends(w, state),
         kept' = kept \/ kept' = [kept EXCEPT ![w] = There]
  PROVE  DoingTyped'
<1>1. doing[w].call \in Call
  BY DEF DoingTyped, RunningCalls, In
<1> QED BY <1>1, BecomesKeepsDoing DEF Ends

(***************************************************************************)
(* A step that leaves the readers alone, keeps the types and removes no    *)
(* group keeps the invariant.                                              *)
(***************************************************************************)
LEMMA RemovingNothingKeepsInv ==
  ASSUME IInv, UNCHANGED <<reading, stayed>>,
         dirs' \in [Groups -> Directory], DoingTyped',
         \A g \in Groups : dirs[g].there => dirs'[g].there
  PROVE  IInv'
<1>1. TypeOK' /\ RunningCalls' /\ KeptIsOpen'
  BY DEF IInv, TypeOK, reading, DoingTyped
<1>2. StayedAreThere'
  BY DEF IInv, StayedAreThere, There
<1>3. LeftIsTheRest' /\ ErrorMeansNoneStayed'
  BY DEF IInv, LeftIsTheRest, ErrorMeansNoneStayed, reading
<1>4. OpenFiles'
  BY DEF IInv, OpenFiles, There, reading
<1> QED BY <1>1, <1>2, <1>3, <1>4 DEF IInv

LEMMA InvFacts ==
  ASSUME IInv
  PROVE  dirs \in [Groups -> Directory] /\ DoingTyped
BY DEF IInv, TypeOK, DoingTyped

-----------------------------------------------------------------------------
(***************************************************************************)
(* The steps of writers.                                                   *)
(***************************************************************************)
LEMMA CreateKeepsInv ==
  ASSUME IInv, NEW w \in Writers, NEW call \in Call, Create(w, call)
  PROVE  IInv'
<1>1. DoingTyped'
  BY InvFacts, BecomesKeepsDoing DEF Create, States, Writing, history
<1>2. /\ dirs' \in [Groups -> Directory]
      /\ \A g \in Groups : dirs[g].there => dirs'[g].there
  BY InvFacts, BareDirectories DEF Create, Fresh, Absent
<1> QED BY <1>1, <1>2, RemovingNothingKeepsInv DEF Create, history

LEMMA LookKeepsInv ==
  ASSUME IInv, NEW w \in Writers, NEW call \in Call, Look(w, call)
  PROVE  IInv'
<1>1. DoingTyped'
  BY InvFacts, BecomesKeepsDoing DEF Look, States, Writing, history
<1> QED BY <1>1, InvFacts, RemovingNothingKeepsInv DEF Look, history

LEMMA RmdirKeepsInv ==
  ASSUME IInv, NEW w \in Writers, Rmdir(w)
  PROVE  IInv'
<1> DEFINE g == doing[w].call.group
<1>1. /\ UNCHANGED <<groups, left, util>>
      /\ dirs' = [dirs EXCEPT ![g] = Absent]
      /\ doing' = [Unlinked(g) EXCEPT ![w].state = "ok"]
      /\ at' = [r \in Readers |->
                  IF at[r] = "open" /\ Head(left[r]) = g THEN "stale" ELSE at[r]]
      /\ stayed' = [r \in Readers |-> stayed[r] \ {g}]
      /\ kept' = [v \in Writers |-> kept[v] \ {g}]
      /\ doing[w].state = "running"
  BY DEF Rmdir, In
<1>2. /\ doing \in [Writers -> [call : Call \cup {None}, state : States \cup Writing]]
      /\ at \in [Readers -> States \cup Looking \cup {"listing"}]
      /\ kept \in [Writers -> SUBSET Groups] /\ stayed \in [Readers -> SUBSET Groups]
  BY DEF IInv, TypeOK
<1>3. dirs' \in [Groups -> Directory]
  BY <1>1, InvFacts, BareDirectories
<1>4. There \ {g} \subseteq There'
  BY <1>1, InvFacts DEF There
<1> HIDE DEF g
<1>5. ASSUME NEW v \in Writers
      PROVE  /\ doing'[v].call = doing[v].call
             /\ \/ v = w /\ doing'[v].state = "ok"
                \/ v # w /\ doing'[v].state = doing[v].state
                \/ /\ doing[v].state = "open" /\ doing[v].call.group = g
                   /\ doing'[v].state = "stale"
             /\ doing'[v] \in [call : Call \cup {None}, state : States \cup Writing]
  <2>1. CASE v = w
    BY <1>1, <1>2, <2>1 DEF Unlinked, States
  <2>2. CASE v # w
    BY <1>1, <1>2, <2>2 DEF Unlinked, Writing
  <2> QED BY <2>1, <2>2
<1>6. ASSUME NEW r \in Readers
      PROVE  \/ at'[r] = at[r]
             \/ at[r] = "open" /\ Head(left[r]) = g /\ at'[r] = "stale"
  BY <1>1
<1>7. TypeOK'
  <2>1. doing' \in [Writers -> [call : Call \cup {None}, state : States \cup Writing]]
    <3>1. doing' = [v \in Writers |-> doing'[v]]
      BY <1>1 DEF Unlinked
    <3> QED BY <1>5, <3>1
  <2>2. at' \in [Readers -> States \cup Looking \cup {"listing"}]
    BY <1>1, <1>2 DEF Looking
  <2>3. kept' \in [Writers -> SUBSET Groups] /\ stayed' \in [Readers -> SUBSET Groups]
    BY <1>1, <1>2
  <2> QED BY <1>1, <1>3, <2>1, <2>2, <2>3 DEF IInv, TypeOK
<1>8. RunningCalls'
  BY <1>5 DEF IInv, RunningCalls, Writing
<1>9. StayedAreThere'
  BY <1>1, <1>4 DEF IInv, StayedAreThere
<1>10. LeftIsTheRest'
  BY <1>1, <1>6 DEF IInv, LeftIsTheRest, Looking
<1>11. OpenFiles'
  <2>1. ASSUME NEW r \in Readers, at'[r] = "open"
        PROVE  Head(left'[r]) \in There'
    <3>1. at[r] = "open" /\ Head(left[r]) # g
      BY <1>1, <2>1
    <3> QED BY <1>1, <1>4, <3>1 DEF IInv, OpenFiles
  <2>2. ASSUME NEW r \in Readers, at'[r] = "stale"
        PROVE  Head(left'[r]) \notin stayed'[r]
    BY <1>1, <1>6, <2>2 DEF IInv, OpenFiles
  <2> QED BY <2>1, <2>2 DEF OpenFiles
<1>12. KeptIsOpen'
  <2>1. ASSUME NEW v \in Writers, doing'[v].state = "stale"
        PROVE  doing'[v].call.group \notin kept'[v]
    <3>1. doing[v].state = "stale" \/ doing[v].call.group = g
      BY <1>5, <2>1
    <3> QED BY <1>1, <1>5, <3>1 DEF IInv, KeptIsOpen
  <2> QED BY <2>1 DEF KeptIsOpen
<1>13. ErrorMeansNoneStayed'
  BY <1>1, <1>6 DEF IInv, ErrorMeansNoneStayed
<1> QED BY <1>7, <1>8, <1>9, <1>10, <1>11, <1>12, <1>13 DEF IInv

LEMMA AttachKeepsInv ==
  ASSUME IInv, NEW w \in Writers, Attach(w)
  PROVE  IInv'
<1> DEFINE call == doing[w].call
<1>1. DoingTyped'
  BY InvFacts, EndsKeepsDoing DEF Attach, States, Writing, history
<1>2. call.group \in Groups /\ call.pid \in Pids
  BY DEF Attach, In, IInv, RunningCalls, Call, Writing
<1>3. /\ dirs' \in [Groups -> Directory]
      /\ \A g \in Groups : dirs[g].there => dirs'[g].there
  <2>1. dirs' = dirs \/ dirs' = Moved(call.group, call.pid)
    BY DEF Attach
  <2> HIDE DEF call
  <2> QED BY <1>2, <2>1, InvFacts, MovedIsTyped
<1> QED BY <1>1, <1>3, RemovingNothingKeepsInv DEF Attach, history

LEMMA AssignKeepsInv ==
  ASSUME IInv, NEW w \in Writers, Assign(w)
  PROVE  IInv'
<1> DEFINE call == doing[w].call
<1>1. DoingTyped'
  BY InvFacts, EndsKeepsDoing DEF Assign, States, Writing, history
<1>2. call.group \in Groups /\ call.file \in {"cpus", "mems"}
  BY DEF Assign, In, IInv, RunningCalls, Call, Writing
<1>3. /\ dirs' \in [Groups -> Directory]
      /\ \A g \in Groups : dirs[g].there => dirs'[g].there
  <2>1. PICK past \in Garbage :
          dirs' = Given(call.group, call.file, Written(call.list, past))
    BY DEF Assign
  <2> HIDE DEF call
  <2> QED BY <1>2, <2>1, InvFacts, GivenIsTyped
<1> QED BY <1>1, <1>3, RemovingNothingKeepsInv DEF Assign, history

LEMMA OpenKeepsInv ==
  ASSUME IInv, NEW w \in Writers, Open(w)
  PROVE  IInv'
<1>1. DoingTyped'
  BY InvFacts, EndsKeepsDoing DEF Open, Writing
<1> QED BY <1>1, InvFacts, RemovingNothingKeepsInv DEF Open

LEMMA FailureKeepsInv ==
  ASSUME IInv, NEW w \in Writers, RmdirFails(w) \/ OpenFails(w) \/ WriteRefused(w)
  PROVE  IInv'
<1>1. DoingTyped'
  BY InvFacts, EndsKeepsDoing DEF RmdirFails, OpenFails, WriteRefused, States, Writing, history
<1> QED BY <1>1, InvFacts, RemovingNothingKeepsInv
        DEF RmdirFails, OpenFails, WriteRefused, history

LEMMA TaskExitsKeepsInv ==
  ASSUME IInv, NEW pid \in Pids, TaskExits(pid)
  PROVE  IInv'
<1>1. DoingTyped'
  BY InvFacts DEF TaskExits, DoingTyped, RunningCalls, KeptIsOpen, history
<1>2. /\ dirs' \in [Groups -> Directory]
      /\ \A g \in Groups : dirs[g].there => dirs'[g].there
  BY InvFacts DEF TaskExits, Directory
<1> QED BY <1>1, <1>2, RemovingNothingKeepsInv DEF TaskExits, history

-----------------------------------------------------------------------------
(***************************************************************************)
(* The steps of readers.  Those of a running call change at, left and util *)
(* of the reader and nothing else.                                         *)
(***************************************************************************)
Counts(map) == \A cpu \in DOMAIN map : cpu \in Int /\ map[cpu] \in {1, 2}

LEMMA IndicesAreIntegers ==
  ASSUME NEW S \in SUBSET Nat, NEW past \in Pasts(S)
  PROVE  Indices(S, past) \subseteq Int
<1>1. ASSUME NEW run \in Runs(S)
      PROVE  run.first \in Int /\ run.last \in Int
  <2>1. run \in [first : S, last : S]
    BY DEF Runs
  <2>2. run.first \in S /\ run.last \in S
    BY <2>1
  <2>3. \A x \in S : x \in Int
    OBVIOUS
  <2> QED BY <2>2, <2>3
<1>2. ASSUME NEW run \in Longer(S)
      PROVE  run.last .. past[run] - 1 \subseteq Int
  BY <1>1, GarbageAssumption DEF Longer, Pasts
<1> QED BY <1>1, <1>2 DEF Indices

(***************************************************************************)
(* The runs of a finite set are finite in number, and so are the cpus they *)
(* are read as.                                                            *)
(***************************************************************************)
LEMMA RunsAreFinite ==
  ASSUME NEW S, IsFiniteSet(S)
  PROVE  IsFiniteSet(Runs(S))
<1> DEFINE T == [first : S, last : S]
           f == [p \in S \X S |-> [first |-> p[1], last |-> p[2]]]
<1>1. IsFiniteSet(S \X S)
  BY FS_Product
<1>2. f \in Surjection(S \X S, T)
  <2>1. f \in [S \X S -> T]
    OBVIOUS
  <2>2. ASSUME NEW t \in T
        PROVE  \E p \in S \X S : f[p] = t
    <3>1. <<t.first, t.last>> \in S \X S
      OBVIOUS
    <3>2. f[<<t.first, t.last>>] = t
      BY <3>1
    <3> QED BY <3>1, <3>2
  <2> QED BY <2>1, <2>2 DEF Surjection
<1>3. IsFiniteSet(T)
  BY <1>1, <1>2, FS_Surjection
<1> QED BY <1>3, FS_Subset DEF Runs

LEMMA IndicesAreFinite ==
  ASSUME NEW S \in SUBSET Nat, IsFiniteSet(S), NEW past \in Pasts(S)
  PROVE  IsFiniteSet(Indices(S, past))
<1> DEFINE Over == {run.last .. past[run] - 1 : run \in Longer(S)}
           f == [run \in Longer(S) |-> run.last .. past[run] - 1]
<1>1. ASSUME NEW run \in Runs(S)
      PROVE  run.first \in S /\ run.last \in S
  BY DEF Runs
<1>2. IsFiniteSet({run.first : run \in Runs(S)}) /\ IsFiniteSet({run.last : run \in Runs(S)})
  <2>1. {run.first : run \in Runs(S)} \subseteq S /\ {run.last : run \in Runs(S)} \subseteq S
    BY <1>1
  <2> QED BY <2>1, FS_Subset
<1>3. IsFiniteSet(Longer(S))
  <2>1. Longer(S) \subseteq Runs(S)
    BY DEF Longer
  <2> QED BY <2>1, RunsAreFinite, FS_Subset
<1>4. f \in Surjection(Longer(S), Over)
  BY DEF Surjection
<1>5. IsFiniteSet(Over)
  BY <1>3, <1>4, FS_Surjection
<1>6. ASSUME NEW I \in Over
      PROVE  IsFiniteSet(I)
  <2>1. PICK run \in Longer(S) : I = run.last .. past[run] - 1
    OBVIOUS
  <2>2. run.last \in Int
    <3>1. run.last \in S
      BY <1>1 DEF Longer
    <3>2. \A x \in S : x \in Int
      OBVIOUS
    <3> QED BY <3>1, <3>2
  <2>3. past[run] \in Int
    BY GarbageAssumption DEF Pasts
  <2>4. past[run] - 1 \in Int
    BY <2>3
  <2> QED BY <2>1, <2>2, <2>4, FS_Interval
<1>7. IsFiniteSet(UNION Over)
  BY <1>5, <1>6, FS_UNION
<1> QED BY <1>2, <1>7, FS_Union DEF Indices

LEMMA CountedCounts ==
  ASSUME NEW map, Counts(map), NEW S \in SUBSET Nat, NEW past \in Pasts(S)
  PROVE  Counts(Counted(map, S, past))
BY IndicesAreIntegers DEF Counts, Counted

LEMMA ReadingKeepsInv ==
  ASSUME IInv, NEW r \in Readers, UNCHANGED <<writing, groups>>,
         NEW a \in (States \cup Looking) \ {"stale"}, at' = [at EXCEPT ![r] = a],
         NEW l \in Seq(Groups), left' = [left EXCEPT ![r] = l],
         \A q \in Readers : Counts(util'[q]),
         a \in Looking =>
           /\ stayed[r] \cap ToSet(groups[r]) \subseteq ToSet(l)
           /\ ToSet(l) \subseteq ToSet(groups[r])
           /\ a # "looking" => l # <<>>,
         a = "open" => Head(l) \in There,
         a = "error" => stayed[r] \cap ToSet(groups[r]) = {}
  PROVE  IInv'
<1>0. UNCHANGED <<dirs, doing, stayed, kept>>
  BY DEF writing, history
<1>1. TypeOK'
  BY <1>0 DEF IInv, TypeOK, Counts
<1>2. RunningCalls' /\ StayedAreThere' /\ KeptIsOpen'
  BY <1>0 DEF IInv, RunningCalls, StayedAreThere, There, KeptIsOpen
<1>3. /\ at \in [Readers -> States \cup Looking \cup {"listing"}]
      /\ left \in [Readers -> Seq(Groups)]
  BY DEF IInv, TypeOK
<1>4. LeftIsTheRest'
  BY <1>0, <1>3 DEF IInv, LeftIsTheRest
<1>5. OpenFiles'
  BY <1>0, <1>3 DEF IInv, OpenFiles, There
<1>6. ErrorMeansNoneStayed'
  BY <1>0, <1>3 DEF IInv, ErrorMeansNoneStayed
<1> QED BY <1>1, <1>2, <1>4, <1>5, <1>6 DEF IInv

LEMMA UtilTyped ==
  ASSUME IInv
  PROVE  \A q \in Readers : Counts(util[q])
BY DEF IInv, TypeOK, Counts

LEMMA HeadAndTail ==
  ASSUME NEW S, NEW list \in Seq(S), list # <<>>
  PROVE  /\ Head(list) \in S /\ Tail(list) \in Seq(S)
         /\ ToSet(list) \subseteq {Head(list)} \cup ToSet(Tail(list))
         /\ ToSet(Tail(list)) \subseteq ToSet(list)
<1>1. Head(list) \in S /\ Tail(list) \in Seq(S) /\ Len(list) \in Nat \ {0}
  OBVIOUS
<1>2. ASSUME NEW i \in DOMAIN list, i # 1
      PROVE  list[i] \in ToSet(Tail(list))
  <2>1. i - 1 \in DOMAIN Tail(list) /\ Tail(list)[i - 1] = list[i]
    BY <1>1, <1>2
  <2> QED BY <2>1 DEF ToSet
<1>3. list[1] = Head(list)
  BY <1>1
<1>4. ASSUME NEW i \in DOMAIN Tail(list)
      PROVE  Tail(list)[i] \in ToSet(list)
  <2>1. i + 1 \in DOMAIN list /\ Tail(list)[i] = list[i + 1]
    BY <1>1
  <2> QED BY <2>1 DEF ToSet
<1> QED BY <1>1, <1>2, <1>3, <1>4 DEF ToSet

LEMMA GroupMissingKeepsInv ==
  ASSUME IInv, NEW r \in Readers, GroupMissing(r)
  PROVE  IInv'
<1>1. left[r] \in Seq(Groups) /\ left[r] # <<>> /\ at[r] = "looking"
  BY DEF IInv, TypeOK, GroupMissing
<1>2. Head(left[r]) \notin stayed[r]
  BY DEF GroupMissing, IInv, StayedAreThere, There
<1>3. /\ stayed[r] \cap ToSet(groups[r]) \subseteq ToSet(Tail(left[r]))
      /\ ToSet(Tail(left[r])) \subseteq ToSet(groups[r])
  BY <1>1, <1>2, HeadAndTail DEF IInv, LeftIsTheRest, Looking
<1>4. Tail(left[r]) \in Seq(Groups)
  BY <1>1, HeadAndTail
<1>5. at' = [at EXCEPT ![r] = "looking"]
  BY <1>1 DEF GroupMissing, IInv, TypeOK
<1>6. left' = [left EXCEPT ![r] = Tail(left[r])] /\ UNCHANGED <<writing, groups, util>>
  BY DEF GroupMissing
<1>7. \A q \in Readers : Counts(util'[q])
  BY <1>6, UtilTyped
<1>8. PICK l \in Seq(Groups) : l = Tail(left[r])
  BY <1>4
<1>9. left' = [left EXCEPT ![r] = l] /\ UNCHANGED <<writing, groups>>
  BY <1>6, <1>8
<1>10. /\ stayed[r] \cap ToSet(groups[r]) \subseteq ToSet(l)
       /\ ToSet(l) \subseteq ToSet(groups[r])
  BY <1>3, <1>8
<1>11. PICK a \in (States \cup Looking) \ {"stale"} : a = "looking"
  BY DEF Looking
<1>12. at' = [at EXCEPT ![r] = a] /\ a = "looking"
  BY <1>5, <1>11
<1> QED BY <1>7, <1>9, <1>10, <1>12, ReadingKeepsInv

LEMMA FoundKeepsInv ==
  ASSUME IInv, NEW r \in Readers, GroupFound(r) \/ OpenFile(r)
  PROVE  IInv'
<1>1. left[r] \in Seq(Groups) /\ left[r] # <<>>
  BY DEF IInv, TypeOK, GroupFound, OpenFile, LeftIsTheRest, Looking
<1>2. /\ stayed[r] \cap ToSet(groups[r]) \subseteq ToSet(left[r])
      /\ ToSet(left[r]) \subseteq ToSet(groups[r])
  BY DEF GroupFound, OpenFile, IInv, LeftIsTheRest, Looking
<1>3. PICK l \in Seq(Groups) : l = left[r]
  BY <1>1
<1>4. left' = [left EXCEPT ![r] = l] /\ UNCHANGED <<writing, groups, util>>
  BY <1>3 DEF GroupFound, OpenFile, IInv, TypeOK
<1>5. \A q \in Readers : Counts(util'[q])
  BY <1>4, UtilTyped
<1>6. /\ stayed[r] \cap ToSet(groups[r]) \subseteq ToSet(l)
      /\ ToSet(l) \subseteq ToSet(groups[r])
      /\ l # <<>>
  BY <1>1, <1>2, <1>3
<1>7. PICK a \in (States \cup Looking) \ {"stale"} :
        at' = [at EXCEPT ![r] = a] /\ a # "error"
  BY DEF GroupFound, OpenFile, Looking
<1>8. Head(l) \in There
  BY <1>1, <1>3, HeadAndTail DEF GroupFound, OpenFile, There
<1> QED BY <1>8, <1>4, <1>5, <1>6, <1>7, ReadingKeepsInv

LEMMA NoGroupLeftKeepsInv ==
  ASSUME IInv, NEW r \in Readers, NoGroupLeft(r)
  PROVE  IInv'
<1>1. left[r] \in Seq(Groups) /\ left[r] = <<>>
  BY DEF IInv, TypeOK, NoGroupLeft
<1>2. stayed[r] \cap ToSet(groups[r]) = {}
  BY <1>1 DEF NoGroupLeft, IInv, LeftIsTheRest, ToSet, Looking
<1>3. PICK l \in Seq(Groups) : l = left[r]
  BY <1>1
<1>4. /\ left' = [left EXCEPT ![r] = l] /\ UNCHANGED <<writing, groups, util>>
      /\ at' = [at EXCEPT ![r] = "error"]
  BY <1>3 DEF NoGroupLeft, IInv, TypeOK
<1>5. \A q \in Readers : Counts(util'[q])
  BY <1>4, UtilTyped
<1>6. PICK a \in (States \cup Looking) \ {"stale"} : a = "error"
  BY DEF States
<1>7. at' = [at EXCEPT ![r] = a] /\ a \notin Looking /\ a # "open"
  BY <1>4, <1>6 DEF Looking
<1> QED BY <1>2, <1>4, <1>5, <1>7, ReadingKeepsInv

LEMMA EndingKeepsInv ==
  ASSUME IInv, NEW r \in Readers, CountNothing(r) \/ Throw(r)
  PROVE  IInv'
<1>1. left[r] \in Seq(Groups) /\ left' = [left EXCEPT ![r] = left[r]]
  BY DEF IInv, TypeOK, CountNothing, Throw
<1>2. \E a \in {"ok", "dead"} : at' = [at EXCEPT ![r] = a]
  BY DEF CountNothing, Throw
<1>3. UNCHANGED <<writing, groups, util>>
  BY DEF CountNothing, Throw
<1>4. PICK a \in (States \cup Looking) \ {"stale"} :
        at' = [at EXCEPT ![r] = a] /\ a \notin Looking /\ a # "error"
                             /\ a # "open"
  BY <1>2 DEF States, Looking
<1>5. PICK l \in Seq(Groups) : left' = [left EXCEPT ![r] = l]
  BY <1>1
<1>6. \A q \in Readers : Counts(util'[q])
  BY <1>3, UtilTyped
<1> QED BY <1>3, <1>4, <1>5, <1>6, ReadingKeepsInv

LEMMA CountGroupKeepsInv ==
  ASSUME IInv, NEW r \in Readers, CountGroup(r)
  PROVE  IInv'
<1> DEFINE cpus == dirs[Head(left[r])].cpus
<1>1. left[r] \in Seq(Groups) /\ left[r] # <<>> /\ left' = [left EXCEPT ![r] = left[r]]
  BY DEF IInv, TypeOK, CountGroup, LeftIsTheRest, Looking
<1>2. cpus \in SUBSET Nat
  BY <1>1, HeadAndTail, MachineAssumption DEF IInv, TypeOK, Directory
<1>3. PICK past \in Pasts(cpus) :
        util' = [util EXCEPT ![r] = Counted(util[r], cpus, past)]
  BY DEF CountGroup
<1>4. \A q \in Readers : Counts(util'[q])
  <2>1. Counts(Counted(util[r], cpus, past))
    BY <1>2, UtilTyped, CountedCounts
  <2> HIDE DEF cpus
  <2>2. ASSUME NEW q \in Readers
        PROVE  util'[q] = util[q] \/ util'[q] = Counted(util[r], cpus, past)
    BY <1>3
  <2> QED BY <2>1, <2>2, UtilTyped
<1>5. PICK l \in Seq(Groups) : l = left[r]
  BY <1>1
<1>6. /\ left' = [left EXCEPT ![r] = l] /\ UNCHANGED <<writing, groups>>
      /\ at' = [at EXCEPT ![r] = "ok"]
  BY <1>1, <1>5 DEF CountGroup
<1>7. PICK a \in (States \cup Looking) \ {"stale"} : a = "ok"
  BY DEF States
<1>8. at' = [at EXCEPT ![r] = a] /\ a \notin {"error", "open"} /\ a \notin Looking
  BY <1>6, <1>7 DEF Looking
<1> HIDE DEF cpus
<1> QED BY <1>4, <1>6, <1>8, ReadingKeepsInv

(***************************************************************************)
(* A list of groups is one of the orders of a finite set.                  *)
(***************************************************************************)
LEMMA ListsAreSequences == \A list \in SetToSeqs(There) : list \in Seq(Groups)
<1>1. IsFiniteSet(There)
  BY GroupsAssumption, FS_Subset DEF There
<1>2. Cardinality(There) \in Nat
  BY <1>1, FS_CardinalityType
<1>3. ASSUME NEW list \in SetToSeqs(There)
      PROVE  list \in [1 .. Cardinality(There) -> Groups]
  BY <1>3 DEF SetToSeqs, There
<1> QED BY <1>2, <1>3

(***************************************************************************)
(* While a reader lists the groups nothing is asked of its list.           *)
(***************************************************************************)
LEMMA ListingKeepsInv ==
  ASSUME IInv, NEW r \in Readers, UNCHANGED <<writing, util>>,
         NEW list \in Seq(Groups), groups' = [groups EXCEPT ![r] = list],
         NEW l \in Seq(Groups), left' = [left EXCEPT ![r] = l],
         NEW a \in {"listing", "ok"}, at' = [at EXCEPT ![r] = a]
  PROVE  IInv'
<1>0. UNCHANGED <<dirs, doing, stayed, kept>>
  BY DEF writing, history
<1>1. /\ at \in [Readers -> States \cup Looking \cup {"listing"}]
      /\ groups \in [Readers -> Seq(Groups)] /\ left \in [Readers -> Seq(Groups)]
  BY DEF IInv, TypeOK
<1>2. TypeOK'
  BY <1>0, <1>1 DEF IInv, TypeOK, States
<1>3. RunningCalls' /\ StayedAreThere' /\ KeptIsOpen'
  BY <1>0 DEF IInv, RunningCalls, StayedAreThere, There, KeptIsOpen
<1>4. LeftIsTheRest' /\ OpenFiles' /\ ErrorMeansNoneStayed'
  BY <1>0, <1>1 DEF IInv, LeftIsTheRest, OpenFiles, There, ErrorMeansNoneStayed, Looking
<1> QED BY <1>2, <1>3, <1>4 DEF IInv

LEMMA ListGroupsKeepsInv ==
  ASSUME IInv, NEW r \in Readers, ListGroups(r)
  PROVE  IInv'
<1>1. PICK l \in Seq(Groups) : left' = [left EXCEPT ![r] = l]
  BY ListsAreSequences DEF ListGroups
<1>2. PICK list \in Seq(Groups) : groups' = [groups EXCEPT ![r] = list]
  <2>1. <<>> \in Seq(Groups)
    OBVIOUS
  <2>2. groups' = [groups EXCEPT ![r] = <<>>]
    BY DEF ListGroups
  <2>3. PICK list \in Seq(Groups) : list = <<>>
    BY <2>1
  <2> QED BY <2>2, <2>3
<1>3. at' = [at EXCEPT ![r] = "listing"] /\ UNCHANGED <<writing, util>>
  BY DEF ListGroups
<1> QED BY <1>1, <1>2, <1>3, ListingKeepsInv

LEMMA NamesKeepInv ==
  ASSUME IInv, NEW r \in Readers, KeepName(r) \/ AllListed(r)
  PROVE  IInv'
<1>1. /\ at \in [Readers -> States \cup Looking \cup {"listing"}]
      /\ groups \in [Readers -> Seq(Groups)] /\ left \in [Readers -> Seq(Groups)]
  BY DEF IInv, TypeOK
<1>2. UNCHANGED <<writing, util>>
  BY DEF KeepName, AllListed
<1>3. CASE KeepName(r)
  <2>1. Head(left[r]) \in Groups /\ Tail(left[r]) \in Seq(Groups)
    BY <1>1, <1>3, HeadAndTail DEF KeepName
  <2>2. PICK l \in Seq(Groups) : left' = [left EXCEPT ![r] = l]
    BY <1>3, <2>1 DEF KeepName
  <2>3. Append(groups[r], Head(left[r])) \in Seq(Groups) /\ groups[r] \in Seq(Groups)
    BY <1>1, <2>1
  <2>4. PICK list \in Seq(Groups) : groups' = [groups EXCEPT ![r] = list]
    BY <1>3, <2>3 DEF KeepName
  <2>5. at' = [at EXCEPT ![r] = "listing"]
    BY <1>1, <1>3 DEF KeepName
  <2> QED BY <1>2, <2>2, <2>4, <2>5, ListingKeepsInv
<1>4. CASE AllListed(r)
  <2>1. /\ groups' = [groups EXCEPT ![r] = groups[r]]
        /\ left' = [left EXCEPT ![r] = left[r]]
        /\ at' = [at EXCEPT ![r] = "ok"]
    BY <1>1, <1>4 DEF AllListed
  <2>2. groups[r] \in Seq(Groups) /\ left[r] \in Seq(Groups)
    BY <1>1
  <2>3. PICK list \in Seq(Groups), l \in Seq(Groups) : list = groups[r] /\ l = left[r]
    BY <2>2
  <2> QED BY <1>2, <2>1, <2>3, ListingKeepsInv
<1> QED BY <1>3, <1>4

LEMMA BeginUtilizationKeepsInv ==
  ASSUME IInv, NEW r \in Readers, BeginUtilization(r)
  PROVE  IInv'
<1>1. PICK past \in Pasts(Cpus) :
        util' = [util EXCEPT ![r] = [cpu \in Indices(Cpus, past) |-> 1]]
  BY DEF BeginUtilization
<1>2. /\ at' = [at EXCEPT ![r] = "looking"]
      /\ left' = [left EXCEPT ![r] = groups[r]]
      /\ stayed' = [stayed EXCEPT ![r] = There]
      /\ UNCHANGED <<dirs, doing, groups, kept>>
  BY DEF BeginUtilization
<1>3. \A q \in Readers : Counts(util'[q])
  <2>1. Counts([cpu \in Indices(Cpus, past) |-> 1])
    BY IndicesAreIntegers, MachineAssumption DEF Counts
  <2>2. ASSUME NEW q \in Readers
        PROVE  util'[q] = util[q] \/ util'[q] = [cpu \in Indices(Cpus, past) |-> 1]
    BY <1>1
  <2> QED BY <2>1, <2>2, UtilTyped
<1>4. TypeOK'
  BY <1>2, <1>3 DEF IInv, TypeOK, Counts, There, Looking
<1>5. RunningCalls' /\ StayedAreThere' /\ KeptIsOpen'
  BY <1>2 DEF IInv, TypeOK, RunningCalls, StayedAreThere, There, KeptIsOpen
<1>6. /\ at \in [Readers -> States \cup Looking \cup {"listing"}]
      /\ left \in [Readers -> Seq(Groups)] /\ stayed \in [Readers -> SUBSET Groups]
  BY DEF IInv, TypeOK
<1>7. LeftIsTheRest' /\ OpenFiles' /\ ErrorMeansNoneStayed'
  BY <1>2, <1>6 DEF IInv, LeftIsTheRest, OpenFiles, There, ErrorMeansNoneStayed, Looking
<1> QED BY <1>4, <1>5, <1>7 DEF IInv

-----------------------------------------------------------------------------
LEMMA InitEstablishesInv ==
  ASSUME Init
  PROVE  IInv
<1>1. dirs \in [Groups -> Directory]
  BY BareDirectories DEF Init
<1>2. \A r \in Readers : DOMAIN util[r] = {}
  BY DEF Init
<1>3. TypeOK
  BY <1>1, <1>2 DEF Init, TypeOK, States
<1>4. /\ RunningCalls /\ StayedAreThere /\ LeftIsTheRest /\ OpenFiles
      /\ KeptIsOpen /\ ErrorMeansNoneStayed
  BY DEF Init, RunningCalls, StayedAreThere, LeftIsTheRest, OpenFiles, KeptIsOpen,
         ErrorMeansNoneStayed, Writing, Looking
<1> QED BY <1>3, <1>4 DEF IInv

LEMMA StutterKeepsInv ==
  ASSUME IInv, UNCHANGED vars
  PROVE  IInv'
<1>1. DoingTyped'
  BY InvFacts DEF DoingTyped, RunningCalls, KeptIsOpen, vars
<1> QED BY <1>1, InvFacts, RemovingNothingKeepsInv DEF vars, reading

LEMMA StepKeepsInv ==
  ASSUME IInv, [Next]_vars
  PROVE  IInv'
<1>1. ASSUME NEW w \in Writers, Write(w)
      PROVE  IInv'
  BY <1>1, RmdirKeepsInv, FailureKeepsInv, AttachKeepsInv, AssignKeepsInv,
     OpenKeepsInv DEF Write
<1>2. ASSUME NEW w \in Writers, NEW call \in Call, Create(w, call) \/ Look(w, call)
      PROVE  IInv'
  BY <1>2, CreateKeepsInv, LookKeepsInv
<1>3. ASSUME NEW r \in Readers, Read(r)
      PROVE  IInv'
  BY <1>3, NamesKeepInv, GroupMissingKeepsInv, FoundKeepsInv, NoGroupLeftKeepsInv,
     EndingKeepsInv, CountGroupKeepsInv DEF Read
<1>4. ASSUME NEW r \in Readers, ListGroups(r) \/ BeginUtilization(r)
      PROVE  IInv'
  BY <1>4, ListGroupsKeepsInv, BeginUtilizationKeepsInv
<1>5. ASSUME NEW pid \in Pids, TaskExits(pid)
      PROVE  IInv'
  BY <1>5, TaskExitsKeepsInv
<1>6. CASE UNCHANGED vars
  BY <1>6, StutterKeepsInv
<1> QED BY <1>1, <1>2, <1>3, <1>4, <1>5, <1>6 DEF Next, WritersAndTasks

LEMMA Inductive == Spec => []IInv
<1>1. Init => IInv
  BY InitEstablishesInv
<1>2. IInv /\ [Next]_vars => IInv'
  BY StepKeepsInv
<1> QED BY <1>1, <1>2, PTL DEF Spec

-----------------------------------------------------------------------------
(***************************************************************************)
(* The directories, the calls and the readers' maps keep their types; in   *)
(* particular no cpu is ever counted more than twice.                      *)
(***************************************************************************)
THEOREM TypeCorrect == Spec => []TypeOK
<1>1. IInv => TypeOK
  BY DEF IInv
<1> QED BY <1>1, Inductive, PTL

(***************************************************************************)
(* A utilization that ends in an error had no group to count, with any     *)
(* number of writers making and removing groups meanwhile.                 *)
(***************************************************************************)
THEOREM FailuresHadNothingToCount == Spec => []ErrorMeansNoneStayed
<1>1. IInv => ErrorMeansNoneStayed
  BY DEF IInv
<1> QED BY <1>1, Inductive, PTL

(***************************************************************************)
(* What a step does to where a reader is: only the reader moves it, and    *)
(* only the parsing of an empty line ends in its death.                    *)
(***************************************************************************)
LEMMA OnlyThrowKills ==
  ASSUME IInv, [Next]_vars, NEW r \in Readers, at[r] # "dead", at'[r] = "dead"
  PROVE  Throw(r)
<1>0. at \in [Readers -> States \cup Looking \cup {"listing"}]
  BY DEF IInv, TypeOK
<1>1. ASSUME NEW w \in Writers, Write(w)
      PROVE  FALSE
  BY <1>1 DEF Write, Rmdir, RmdirFails, Open, OpenFails, WriteRefused, Attach, Assign,
              reading
<1>2. ASSUME NEW w \in Writers, NEW call \in Call, Create(w, call) \/ Look(w, call)
      PROVE  FALSE
  BY <1>2 DEF Create, Look, reading
<1>3. ASSUME NEW q \in Readers, Read(q)
      PROVE  Throw(r)
  BY <1>0, <1>3 DEF Read, KeepName, AllListed, GroupMissing, GroupFound, NoGroupLeft,
                    CountNothing, OpenFile, Throw, CountGroup
<1>4. ASSUME NEW q \in Readers, ListGroups(q) \/ BeginUtilization(q)
      PROVE  FALSE
  BY <1>0, <1>4 DEF ListGroups, BeginUtilization
<1>5. ASSUME NEW pid \in Pids, TaskExits(pid)
      PROVE  FALSE
  BY <1>5 DEF TaskExits, reading
<1>6. CASE UNCHANGED vars
  BY <1>6 DEF vars
<1> QED BY <1>1, <1>2, <1>3, <1>4, <1>5, <1>6 DEF Next, WritersAndTasks

(***************************************************************************)
(* A reader dies only of a group of its own list: one that is there and    *)
(* has no cpus, or one that was removed after its file was opened.         *)
(***************************************************************************)
THEOREM ReadersDieOfEmptyGroups == Spec => DeathNeedsAnEmptyGroup
<1> DEFINE Cause(r) ==
             \/ \E g \in ToSet(groups[r]) : dirs[g].there /\ dirs[g].cpus = {}
             \/ at[r] = "stale" /\ \E g \in ToSet(groups[r]) : g \notin stayed[r]
           A == \A r \in Readers : at[r] # "dead" /\ at'[r] = "dead" => Cause(r)
<1>1. ASSUME IInv, [Next]_vars, NEW r \in Readers, at[r] # "dead", at'[r] = "dead"
      PROVE  Cause(r)
  <2> DEFINE g == Head(left[r])
  <2>1. at[r] = "stale" \/ (at[r] = "open" /\ dirs[g].cpus = {})
    BY <1>1, OnlyThrowKills DEF Throw
  <2>2. left[r] \in Seq(Groups) /\ left[r] # <<>> /\ ToSet(left[r]) \subseteq ToSet(groups[r])
    BY <1>1, <2>1 DEF IInv, TypeOK, LeftIsTheRest, Looking
  <2>3. g \in ToSet(groups[r])
    <3>1. 1 \in DOMAIN left[r] /\ g = left[r][1]
      BY <2>2
    <3> QED BY <2>2, <3>1 DEF ToSet
  <2>4. at[r] = "stale" => g \notin stayed[r]
    BY <1>1 DEF IInv, OpenFiles
  <2>5. at[r] = "open" => dirs[g].there
    BY <1>1 DEF IInv, OpenFiles, There
  <2> HIDE DEF g
  <2> QED BY <2>1, <2>3, <2>4, <2>5
<1>2. IInv /\ [Next]_vars => [A]_at
  BY <1>1
<1> QED BY <1>2, Inductive, PTL DEF Spec, DeathNeedsAnEmptyGroup

(***************************************************************************)
(* A call to assign that is answered with success has written to its file  *)
(* or was refused, whoever else writes to the same group meanwhile.        *)
(***************************************************************************)
LEMMA AnswersComeFromAssign ==
  ASSUME IInv, [Next]_vars, NEW w \in Writers, Answered(w, "assign")
  PROVE  Assign(w) \/ WriteRefused(w)
<1>0. doing \in [Writers -> [call : Call \cup {None}, state : States \cup Writing]]
  BY DEF IInv, TypeOK
<1>1. doing[w].state \in Writing /\ doing[w].call.op = "assign" /\ doing'[w].state = "ok"
  BY DEF Answered
<1>2. ASSUME NEW v \in Writers, v # w, NEW call, NEW state, Becomes(v, call, state)
      PROVE  FALSE
  BY <1>0, <1>1, <1>2 DEF Becomes, Writing
<1>3. ASSUME NEW v \in Writers, Write(v)
      PROVE  Assign(w) \/ WriteRefused(w)
  <2>1. CASE v = w
    BY <2>1, <1>0, <1>1, <1>3
    DEF Write, Rmdir, RmdirFails, Open, OpenFails, Attach, In, Ends, Becomes
  <2>2. CASE v # w /\ ~ Rmdir(v)
    BY <2>2, <1>2, <1>3
    DEF Write, RmdirFails, Open, OpenFails, WriteRefused, Attach, Assign, Ends
  <2>3. CASE v # w /\ Rmdir(v)
    <3>1. doing'[w] = Unlinked(doing[v].call.group)[w]
      BY <2>3, <1>0 DEF Rmdir, Unlinked
    <3>2. doing'[w].state \in Writing
      BY <3>1, <1>0, <1>1 DEF Unlinked, Writing
    <3> QED BY <3>2, <1>1 DEF Writing
  <2> QED BY <2>1, <2>2, <2>3
<1>4. ASSUME NEW v \in Writers, NEW call \in Call, Create(v, call) \/ Look(v, call)
      PROVE  FALSE
  <2>1. v # w
    BY <1>1, <1>4 DEF Create, Look, Free, Writing
  <2> QED BY <2>1, <1>2, <1>4 DEF Create, Look
<1>5. doing' # doing
  BY <1>1 DEF Writing
<1>6. ASSUME NEW r \in Readers, Read(r) \/ ListGroups(r) \/ BeginUtilization(r)
      PROVE  FALSE
  BY <1>5, <1>6 DEF Read, KeepName, AllListed, GroupMissing, GroupFound, NoGroupLeft,
                    CountNothing, OpenFile, Throw, CountGroup, ListGroups,
                    BeginUtilization, writing
<1>7. ASSUME NEW pid \in Pids, TaskExits(pid)
      PROVE  FALSE
  BY <1>5, <1>7 DEF TaskExits
<1>8. CASE UNCHANGED vars
  BY <1>5, <1>8 DEF vars
<1> QED BY <1>3, <1>4, <1>6, <1>7, <1>8 DEF Next, WritersAndTasks

(***************************************************************************)
(* A vector of one cpu is written exactly, by any of any number of         *)
(* writers, unless the group is removed while the file is open: what lies  *)
(* behind the vector in memory plays no part, nor does what became of the  *)
(* group before.                                                           *)
(***************************************************************************)
THEOREM OneCpuIsWrittenExactly == Spec => OneCpuIsExact
<1> DEFINE A == \A w \in Writers :
                  LET call == doing[w].call
                  IN  Answered(w, "assign") /\ call.file = "cpus"
                        /\ Len(call.list) = 1 /\ call.list[1] \in Cpus
                        /\ call.group \in kept[w]
                      => dirs'[call.group].cpus = ToSet(call.list)
<1>1. ASSUME IInv, [Next]_vars, NEW w \in Writers, NEW call, call = doing[w].call,
             Answered(w, "assign"), call.file = "cpus",
             Len(call.list) = 1, call.list[1] \in Cpus, call.group \in kept[w]
      PROVE  dirs'[call.group].cpus = ToSet(call.list)
  <2>1. Assign(w)
    <3>1. doing[w].state # "stale"
      BY <1>1 DEF IInv, KeptIsOpen
    <3> QED BY <1>1, <3>1, AnswersComeFromAssign DEF WriteRefused, In
  <2>2. call \in Call /\ call.op = "assign"
    BY <1>1 DEF IInv, RunningCalls, Answered
  <2>3. call.group \in Groups /\ call.list \in Seq(Nat)
    BY <2>2, ListsAssumption DEF Call
  <2>4. PICK past \in Garbage : dirs' = Given(call.group, "cpus", Written(call.list, past))
    BY <1>1, <2>1 DEF Assign
  <2>5. Written(call.list, past) = {call.list[1]}
    BY <1>1 DEF Written
  <2>6. ToSet(call.list) = {call.list[1]}
    <3>1. DOMAIN call.list = {1}
      BY <1>1, <2>3
    <3> QED BY <3>1 DEF ToSet
  <2>7. dirs' = [dirs EXCEPT ![call.group]["cpus"] = {call.list[1]}]
    BY <1>1, <2>4, <2>5 DEF Given
  <2>8. dirs \in [Groups -> Directory]
    BY <1>1, InvFacts
  <2> QED BY <2>3, <2>6, <2>7, <2>8 DEF Directory
<1>2. IInv /\ [Next]_vars => [A]_doing
  BY <1>1
<1> QED BY <1>2, Inductive, PTL DEF Spec, OneCpuIsExact
=============================================================================
