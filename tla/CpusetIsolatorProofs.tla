------------------------ MODULE CpusetIsolatorProofs ------------------------
(***************************************************************************)
(* Theorems about CpusetIsolator, for any containers, resources and pids   *)
(* and any bounds.  The inductive invariant adds to the type invariant     *)
(* that the container whose directory is being removed has lost its entry  *)
(* already, which no other call can give back because the actor serves one *)
(* call at a time.  For the aborts a second one says that whatever could   *)
(* lead to one, an entry, a queued update or a removal, is of a container  *)
(* that the running agent was told of, and that no such thing outlives it. *)
(*                                                                         *)
(* That the isolator implements ContainerLedger is about a fold over the   *)
(* mailbox.  The fold is the last element of its history (Folds), and a    *)
(* history without its first call is the history from the entries after    *)
(* that call; so to serve the head of the mailbox changes nothing of the   *)
(* ledger, and to add a call at its end is the abstract step.              *)
(***************************************************************************)
EXTENDS CpusetIsolator, FoldLemmas

RemovingErased ==
  removing # None => /\ removing.op = "cleanup"
                     /\ containerResources[removing.id] = NoResources

IInv ==
  /\ TypeOK
  /\ OneDatabaseUser
  /\ RemovingErased

-----------------------------------------------------------------------------
(***************************************************************************)
(* What a call carries, whatever its kind.                                 *)
(***************************************************************************)
LEMMA CallFields ==
  ASSUME NEW call \in AnyCall
  PROVE  /\ call.id \in Containers
         /\ call.op = "update" => call.resources \in Resources
<1>1. PICK n \in 1 .. MaxCalls : call \in Call(n)
  BY DEF AnyCall
<1>2. CASE call \in [n : {n}, op : Stateless, id : Containers]
  BY <1>2 DEF Stateless
<1>3. CASE call \in [n : {n}, op : {"isolate"}, id : Containers, pid : Pids]
  BY <1>3
<1>4. CASE call \in [n : {n}, op : {"update"}, id : Containers, resources : Resources]
  BY <1>4
<1>5. CASE call \in [n : {n}, op : {"cleanup"}, id : Containers]
  BY <1>5
<1> QED BY <1>1, <1>2, <1>3, <1>4, <1>5 DEF Call

(***************************************************************************)
(* The empty map is a map, and serving a mailbox keeps it one.             *)
(***************************************************************************)
LEMMA NoEntriesTyped == NoEntries \in [Containers -> Resources \cup {NoResources}]
BY DEF NoEntries

LEMMA HeadAndTail ==
  ASSUME mailbox \in Seq(AnyCall), mailbox # <<>>
  PROVE  Head(mailbox) \in AnyCall /\ Tail(mailbox) \in Seq(AnyCall)
OBVIOUS

-----------------------------------------------------------------------------
LEMMA InitEstablishesInv ==
  ASSUME Init
  PROVE  IInv
<1>1. <<>> \in Seq(AnyCall)
  OBVIOUS
<1> QED
  BY <1>1, NoEntriesTyped, BoundsAssumption
  DEF Init, IInv, TypeOK, OneDatabaseUser, RemovingErased

LEMMA StartKeepsInv ==
  ASSUME IInv, Start
  PROVE  IInv'
BY DEF IInv, TypeOK, OneDatabaseUser, RemovingErased, Start, actor, Stamped, getCurrentTime

(***************************************************************************)
(* The end of the process clears everything the invariant constrains.      *)
(***************************************************************************)
LEMMA ProcessEndsKeepsInv ==
  ASSUME IInv, ProcessEnds("down") \/ ProcessEnds("aborted"),
         UNCHANGED <<startDtg, dirs, sent, reply, told>>
  PROVE  IInv'
<1>1. <<>> \in Seq(AnyCall)
  OBVIOUS
<1> QED
  BY <1>1, NoEntriesTyped
  DEF IInv, TypeOK, OneDatabaseUser, RemovingErased, ProcessEnds

LEMMA DispatchKeepsInv ==
  ASSUME IInv, NEW call \in Call(sent + 1), Dispatch(call)
  PROVE  IInv'
<1>1. sent + 1 \in 1 .. MaxCalls
  BY BoundsAssumption DEF IInv, TypeOK, Dispatch
<1>2. call \in AnyCall
  BY <1>1 DEF AnyCall
<1>3. mailbox' \in Seq(AnyCall)
  BY <1>2 DEF IInv, TypeOK, Dispatch
<1>4. sent' \in 0 .. MaxCalls
  BY <1>1 DEF Dispatch
<1>5. told' \subseteq Containers
  BY <1>2, CallFields DEF IInv, TypeOK, Dispatch
<1> QED
  BY <1>3, <1>4, <1>5 DEF IInv, TypeOK, OneDatabaseUser, RemovingErased, Dispatch

(***************************************************************************)
(* The handlers that answer with the entries and the directories left as   *)
(* they were.                                                              *)
(***************************************************************************)
LEMMA AnswerOnlyKeepsInv ==
  ASSUME IInv, ServeStateless \/ Isolate \/ CleanupUnknown
  PROVE  IInv'
<1>1. /\ mailbox' = Tail(mailbox) /\ mailbox # <<>>
      /\ \E future \in {"ready", "failed", "pending"} :
           reply' = [call |-> Head(mailbox), future |-> future]
      /\ UNCHANGED <<agent, dbLock, startDtg, containerResources, pids,
                     removing, dirs, sent, told>>
  BY DEF ServeStateless, Isolate, CleanupUnknown, Serving, Answer
<1>2. Head(mailbox) \in AnyCall /\ mailbox' \in Seq(AnyCall)
  BY <1>1, HeadAndTail DEF IInv, TypeOK
<1> QED BY <1>1, <1>2 DEF IInv, TypeOK, OneDatabaseUser, RemovingErased

LEMMA UpdateKeepsInv ==
  ASSUME IInv, Update
  PROVE  IInv'
<1> DEFINE call == Head(mailbox)
<1>1. /\ mailbox' = Tail(mailbox) /\ mailbox # <<>> /\ call.op = "update"
      /\ removing = None
      /\ reply' = [call |-> call, future |-> "ready"]
      /\ UNCHANGED <<agent, dbLock, startDtg, pids, removing, dirs, sent, told>>
  BY DEF Update, Serving, Answer
<1>2. call \in AnyCall /\ mailbox' \in Seq(AnyCall)
  BY <1>1, HeadAndTail DEF IInv, TypeOK
<1>3. call.id \in Containers /\ call.resources \in Resources
  BY <1>1, <1>2, CallFields
<1>4. containerResources' \in [Containers -> Resources \cup {NoResources}]
  BY <1>3 DEF Update, IInv, TypeOK
<1> QED BY <1>1, <1>2, <1>4 DEF IInv, TypeOK, OneDatabaseUser, RemovingErased

LEMMA CleanupKnownKeepsInv ==
  ASSUME IInv, CleanupKnown
  PROVE  IInv'
<1> DEFINE call == Head(mailbox)
<1>1. /\ mailbox' = Tail(mailbox) /\ mailbox # <<>> /\ call.op = "cleanup"
      /\ removing' = call
      /\ containerResources' = [containerResources EXCEPT ![call.id] = NoResources]
      /\ UNCHANGED <<agent, dbLock, startDtg, pids, dirs, sent, reply, told>>
  BY DEF CleanupKnown, Serving
<1>2. call \in AnyCall /\ mailbox' \in Seq(AnyCall)
  BY <1>1, HeadAndTail DEF IInv, TypeOK
<1>3. call.id \in Containers
  BY <1>2, CallFields
<1>4. /\ containerResources' \in [Containers -> Resources \cup {NoResources}]
      /\ containerResources'[call.id] = NoResources
  BY <1>1, <1>3 DEF IInv, TypeOK
<1> HIDE DEF call
<1> QED BY <1>1, <1>2, <1>4 DEF IInv, TypeOK, OneDatabaseUser, RemovingErased

LEMMA RmdirKeepsInv ==
  ASSUME IInv, Rmdir
  PROVE  IInv'
<1>1. /\ removing # None /\ removing' = None
      /\ reply' = [call |-> removing, future |-> "ready"]
      /\ dirs' = [dirs EXCEPT ![removing.id] = "absent"]
      /\ UNCHANGED <<agent, dbLock, startDtg, mailbox, containerResources,
                     pids, sent, told>>
  BY DEF Rmdir, Answer
<1>2. removing \in AnyCall
  BY <1>1 DEF IInv, TypeOK
<1>3. dirs' \in [Containers -> {"absent", "free", "held"}]
  BY <1>1 DEF IInv, TypeOK
<1> QED BY <1>1, <1>2, <1>3 DEF IInv, TypeOK, OneDatabaseUser, RemovingErased

LEMMA ServeKeepsInv ==
  ASSUME IInv, Serve
  PROVE  IInv'
<1>1. CASE ServeStateless \/ Isolate \/ CleanupUnknown
  BY <1>1, AnswerOnlyKeepsInv
<1>2. CASE Update
  BY <1>2, UpdateKeepsInv
<1>3. CASE CleanupKnown
  BY <1>3, CleanupKnownKeepsInv
<1>4. CASE Rmdir
  BY <1>4, RmdirKeepsInv
<1>5. CASE CleanupNoDirectory \/ RmdirFails
  BY <1>5, ProcessEndsKeepsInv DEF CleanupNoDirectory, RmdirFails
<1> QED BY <1>1, <1>2, <1>3, <1>4, <1>5 DEF Serve

LEMMA StepKeepsInv ==
  ASSUME IInv, [Next]_vars
  PROVE  IInv'
<1>1. CASE Start
  BY <1>1, StartKeepsInv
<1>2. CASE Killed
  BY <1>2, ProcessEndsKeepsInv DEF Killed
<1>3. CASE \E call \in Call(sent + 1) : Dispatch(call)
  BY <1>3, DispatchKeepsInv
<1>4. CASE Serve
  BY <1>4, ServeKeepsInv
<1>5. CASE \E c \in Containers : Directory(c)
  BY <1>5 DEF Directory, IInv, TypeOK, OneDatabaseUser, RemovingErased, actor
<1>6. CASE OtherOpens
  BY <1>6 DEF OtherOpens, IInv, TypeOK, OneDatabaseUser, RemovingErased, actor
<1>7. CASE OtherCloses
  BY <1>7 DEF OtherCloses, IInv, TypeOK, OneDatabaseUser, RemovingErased, actor
<1>8. CASE UNCHANGED vars
  BY <1>8 DEF vars, actor, IInv, TypeOK, OneDatabaseUser, RemovingErased
<1> QED BY <1>1, <1>2, <1>3, <1>4, <1>5, <1>6, <1>7, <1>8 DEF Next

LEMMA Inductive == Spec => []IInv
<1>1. Init => IInv
  BY InitEstablishesInv
<1>2. IInv /\ [Next]_vars => IInv'
  BY StepKeepsInv
<1> QED BY <1>1, <1>2, PTL DEF Spec
-----------------------------------------------------------------------------
(***************************************************************************)
(* The actor's queue holds calls of the interface only, the entries are    *)
(* resources it was given, and an answer is to one of those calls.         *)
(***************************************************************************)
THEOREM TypeCorrect == Spec => []TypeOK
<1>1. IInv => TypeOK
  BY DEF IInv
<1> QED BY <1>1, Inductive, PTL

(***************************************************************************)
(* Through kills, aborts and restarts, the isolator has the database open  *)
(* exactly while its agent runs.                                           *)
(***************************************************************************)
THEOREM DatabaseHasOneUser == Spec => []OneDatabaseUser
<1>1. IInv => OneDatabaseUser
  BY DEF IInv
<1> QED BY <1>1, Inductive, PTL

(***************************************************************************)
(* A cleanup is only answered with success when the entry and the          *)
(* directory are both gone, whatever other programs did to the directory   *)
(* between the look at it and its removal.                                 *)
(***************************************************************************)
THEOREM CleanupIsComplete == Spec => SuccessMeansCleanedUp
<1> DEFINE Success(c) == /\ reply' # None
                         /\ reply'.call.op = "cleanup"
                         /\ reply'.call.id = c
                         /\ reply'.future = "ready"
           A == \A c \in Containers : Success(c) => CleanedUp(c)'
<1>1. ASSUME IInv, [Next]_vars, reply' # reply, NEW c \in Containers, Success(c)
      PROVE  CleanedUp(c)'
  <2>1. CASE Rmdir
    <3>1. /\ removing # None /\ removing.id = c
          /\ dirs' = [dirs EXCEPT ![c] = "absent"]
          /\ containerResources' = containerResources
      BY <2>1, <1>1 DEF Rmdir, Answer
    <3>2. containerResources[c] = NoResources
      BY <3>1, <1>1 DEF IInv, RemovingErased
    <3>3. dirs'[c] = "absent"
      BY <3>1, <1>1 DEF IInv, TypeOK
    <3> QED BY <3>1, <3>2, <3>3 DEF CleanedUp
  <2>2. CASE Update
    BY <2>2, <1>1 DEF Update, Serving, Answer
  <2>3. CASE ServeStateless
    BY <2>3, <1>1 DEF ServeStateless, Serving, Answer, Stateless
  <2>4. CASE Isolate \/ CleanupUnknown
    BY <2>4, <1>1 DEF Isolate, CleanupUnknown, Serving, Answer
  <2>5. CASE CleanupKnown \/ CleanupNoDirectory \/ RmdirFails
    BY <2>5, <1>1 DEF CleanupKnown, CleanupNoDirectory, RmdirFails
  <2>6. CASE Start \/ Killed \/ OtherOpens \/ OtherCloses
    BY <2>6, <1>1 DEF Start, Killed, OtherOpens, OtherCloses
  <2>7. CASE \E call \in Call(sent + 1) : Dispatch(call)
    BY <2>7, <1>1 DEF Dispatch
  <2>8. CASE \E d \in Containers : Directory(d)
    BY <2>8, <1>1 DEF Directory
  <2>9. CASE UNCHANGED vars
    BY <2>9, <1>1 DEF vars
  <2> QED
    BY <2>1, <2>2, <2>3, <2>4, <2>5, <2>6, <2>7, <2>8, <2>9, <1>1 DEF Next, Serve
<1>2. IInv /\ [Next]_vars => [A]_reply
  BY <1>1
<1> QED BY <1>2, Inductive, PTL DEF Spec, SuccessMeansCleanedUp

(***************************************************************************)
(* Whatever could lead to an abort is of a container the running agent was *)
(* told of, and there is nothing of the kind while no agent runs.          *)
(***************************************************************************)
OnlyTold ==
  /\ \A c \in Containers : containerResources[c] # NoResources => c \in told
  /\ \A i \in DOMAIN mailbox : mailbox[i].op = "update" => mailbox[i].id \in told
  /\ removing # None => removing.id \in told

NothingOutlives ==
  agent # "up" => containerResources = NoEntries /\ mailbox = <<>> /\ removing = None

AInv == OnlyTold /\ NothingOutlives

LEMMA EmptyIsTold ==
  ASSUME NEW entries, NEW queue, entries = NoEntries, queue = <<>>
  PROVE  /\ \A c \in Containers : entries[c] = NoResources
         /\ DOMAIN queue = {}
BY DEF NoEntries

LEMMA ProcessEndsIsTold ==
  ASSUME NEW how, ProcessEnds(how)
  PROVE  AInv'
<1>1. containerResources' = NoEntries /\ mailbox' = <<>> /\ removing' = None
  BY DEF ProcessEnds
<1>2. (\A c \in Containers : containerResources'[c] = NoResources) /\ DOMAIN mailbox' = {}
  BY <1>1, EmptyIsTold
<1> QED BY <1>1, <1>2 DEF AInv, OnlyTold, NothingOutlives

LEMMA StartIsTold ==
  ASSUME AInv, Start
  PROVE  AInv'
<1>1. containerResources = NoEntries /\ mailbox = <<>> /\ removing = None
  BY DEF AInv, NothingOutlives, Start
<1>2. UNCHANGED <<containerResources, mailbox, removing>> /\ agent' = "up"
  BY DEF Start, actor
<1>3. (\A c \in Containers : containerResources[c] = NoResources) /\ DOMAIN mailbox = {}
  BY <1>1, EmptyIsTold
<1> QED BY <1>1, <1>2, <1>3 DEF AInv, OnlyTold, NothingOutlives

LEMMA DispatchIsTold ==
  ASSUME IInv, AInv, NEW call, Dispatch(call)
  PROVE  AInv'
<1>1. /\ mailbox' = Append(mailbox, call) /\ mailbox \in Seq(AnyCall)
      /\ told' = IF call.op = "update" THEN told \cup {call.id} ELSE told
      /\ UNCHANGED <<agent, containerResources, removing>> /\ agent = "up"
  BY DEF Dispatch, IInv, TypeOK
<1>2. ASSUME NEW i \in DOMAIN mailbox', mailbox'[i].op = "update"
      PROVE  mailbox'[i].id \in told'
  <2>1. i \in 1 .. Len(mailbox) + 1 /\ Len(mailbox) \in Nat
    BY <1>1
  <2>2. CASE i = Len(mailbox) + 1
    <3>1. mailbox'[i] = call
      BY <1>1, <2>2
    <3> QED BY <1>1, <1>2, <3>1
  <2>3. CASE i # Len(mailbox) + 1
    <3>1. i \in DOMAIN mailbox /\ mailbox'[i] = mailbox[i]
      BY <1>1, <2>1, <2>3
    <3>2. mailbox[i].id \in told
      BY <1>2, <3>1 DEF AInv, OnlyTold
    <3> QED BY <1>1, <3>1, <3>2
  <2> QED BY <2>2, <2>3
<1>3. told \subseteq told'
  BY <1>1
<1> QED BY <1>1, <1>2, <1>3 DEF AInv, OnlyTold, NothingOutlives

(***************************************************************************)
(* What the handlers take from the mailbox and put into the entries.       *)
(***************************************************************************)
LEMMA ServeIsTold ==
  ASSUME IInv, AInv, ServeStateless \/ Isolate \/ Update \/ CleanupUnknown \/ CleanupKnown
  PROVE  AInv'
<1> DEFINE call == Head(mailbox)
<1>1. /\ mailbox' = Tail(mailbox) /\ mailbox # <<>> /\ mailbox \in Seq(AnyCall)
      /\ agent = "up" /\ agent' = agent /\ told' = told
  BY DEF IInv, TypeOK, ServeStateless, Isolate, Update, CleanupUnknown, CleanupKnown,
         Serving
<1>2. call \in AnyCall /\ call.id \in Containers /\ call = mailbox[1] /\ 1 \in DOMAIN mailbox
  <2>1. call \in AnyCall /\ call = mailbox[1] /\ 1 \in DOMAIN mailbox
    BY <1>1
  <2> HIDE DEF call
  <2> QED BY <2>1, CallFields
<1>3. ASSUME NEW i \in DOMAIN mailbox'
      PROVE  i + 1 \in DOMAIN mailbox /\ mailbox'[i] = mailbox[i + 1]
  BY <1>1
<1>4. \A i \in DOMAIN mailbox' : mailbox'[i].op = "update" => mailbox'[i].id \in told'
  BY <1>1, <1>3 DEF AInv, OnlyTold
<1>5. containerResources \in [Containers -> Resources \cup {NoResources}]
  BY DEF IInv, TypeOK
<1>6. CASE ServeStateless \/ Isolate \/ CleanupUnknown
  <2>1. UNCHANGED <<containerResources, removing>>
    BY <1>6 DEF ServeStateless, Isolate, CleanupUnknown
  <2> QED BY <1>1, <1>4, <2>1 DEF AInv, OnlyTold, NothingOutlives
<1>7. CASE Update
  <2>1. /\ removing' = removing /\ call.op = "update"
        /\ \A c \in Containers : c # call.id => containerResources'[c] = containerResources[c]
    BY <1>5, <1>7 DEF Update, Serving
  <2>2. call.id \in told
    BY <1>2, <2>1 DEF AInv, OnlyTold
  <2>3. \A c \in Containers : containerResources'[c] # NoResources => c \in told'
    BY <1>1, <2>1, <2>2 DEF AInv, OnlyTold
  <2> QED BY <1>1, <1>4, <2>1, <2>3 DEF AInv, OnlyTold, NothingOutlives
<1>8. CASE CleanupKnown
  <2>1. /\ removing' = call /\ containerResources[call.id] # NoResources
        /\ \A c \in Containers : \/ containerResources'[c] = containerResources[c]
                                 \/ containerResources'[c] = NoResources
    BY <1>5, <1>8 DEF CleanupKnown, Serving
  <2>2. call.id \in told'
    BY <1>1, <1>2, <2>1 DEF AInv, OnlyTold
  <2>3. \A c \in Containers : containerResources'[c] # NoResources => c \in told'
    BY <1>1, <2>1 DEF AInv, OnlyTold
  <2> HIDE DEF call
  <2> QED BY <1>1, <1>4, <2>1, <2>2, <2>3 DEF AInv, OnlyTold, NothingOutlives
<1> QED BY <1>6, <1>7, <1>8

LEMMA StepIsTold ==
  ASSUME IInv, AInv, [Next]_vars
  PROVE  AInv'
<1>1. CASE Start
  BY <1>1, StartIsTold
<1>2. CASE Killed \/ CleanupNoDirectory \/ RmdirFails
  BY <1>2, ProcessEndsIsTold DEF Killed, CleanupNoDirectory, RmdirFails
<1>3. CASE \E call \in Call(sent + 1) : Dispatch(call)
  BY <1>3, DispatchIsTold
<1>4. CASE ServeStateless \/ Isolate \/ Update \/ CleanupUnknown \/ CleanupKnown
  BY <1>4, ServeIsTold
<1>5. CASE Rmdir
  BY <1>5 DEF Rmdir, AInv, OnlyTold, NothingOutlives
<1>6. CASE \/ \E c \in Containers : Directory(c)
           \/ OtherOpens \/ OtherCloses \/ UNCHANGED vars
  BY <1>6 DEF Directory, OtherOpens, OtherCloses, vars, actor, AInv, OnlyTold,
              NothingOutlives
<1> QED BY <1>1, <1>2, <1>3, <1>4, <1>5, <1>6 DEF Next, Serve

(***************************************************************************)
(* An agent aborts only over a container it was told of itself: the        *)
(* cleanup that killed one agent is harmless to the next, for any number   *)
(* of containers, calls and restarts.                                      *)
(***************************************************************************)
THEOREM AbortsDoNotRepeat == Spec => NoAbortLoop
<1> DEFINE Known == \E c \in told : BeingCleaned(c)
<1>1. Init => AInv
  <2>1. SUFFICES ASSUME Init
                 PROVE  AInv
    OBVIOUS
  <2>2. containerResources = NoEntries /\ mailbox = <<>> /\ removing = None
    BY <2>1 DEF Init
  <2>3. (\A c \in Containers : containerResources[c] = NoResources) /\ DOMAIN mailbox = {}
    BY <2>2, EmptyIsTold
  <2> QED BY <2>2, <2>3 DEF AInv, OnlyTold, NothingOutlives
<1>2. IInv /\ AInv /\ [Next]_vars => AInv'
  BY StepIsTold
<1>3. ASSUME IInv, AInv, [Next]_vars, agent' # agent, agent' = "aborted"
      PROVE  Known
  <2>1. CASE CleanupNoDirectory
    <3>1. /\ mailbox # <<>> /\ removing = None
          /\ containerResources[Head(mailbox).id] # NoResources
      BY <2>1 DEF CleanupNoDirectory
    <3>2. Head(mailbox) \in AnyCall
      BY <3>1, <1>3, HeadAndTail DEF IInv, TypeOK
    <3>3. Head(mailbox).id \in told
      BY <3>1, <3>2, <1>3, CallFields DEF AInv, OnlyTold
    <3> QED BY <3>1, <3>3 DEF BeingCleaned
  <2>2. CASE RmdirFails
    <3>1. removing # None /\ removing.id \in told
      BY <2>2, <1>3 DEF RmdirFails, AInv, OnlyTold
    <3> QED BY <3>1 DEF BeingCleaned
  <2>3. CASE Serve /\ ~ CleanupNoDirectory /\ ~ RmdirFails
    BY <2>3, <1>3 DEF Serve, ServeStateless, Isolate, Update, CleanupUnknown,
                      CleanupKnown, Rmdir
  <2>4. CASE Start \/ Killed \/ OtherOpens \/ OtherCloses
    BY <2>4, <1>3 DEF Start, Killed, ProcessEnds, OtherOpens, OtherCloses
  <2>5. CASE \E call \in Call(sent + 1) : Dispatch(call)
    BY <2>5, <1>3 DEF Dispatch
  <2>6. CASE \E d \in Containers : Directory(d)
    BY <2>6, <1>3 DEF Directory
  <2>7. CASE UNCHANGED vars
    BY <2>7, <1>3 DEF vars
  <2> QED BY <2>1, <2>2, <2>3, <2>4, <2>5, <2>6, <2>7, <1>3 DEF Next
<1>4. IInv /\ AInv /\ [Next]_vars => [agent' = "aborted" => Known]_agent
  BY <1>3
<1> QED BY <1>1, <1>2, <1>4, Inductive, PTL DEF Spec, NoAbortLoop
-----------------------------------------------------------------------------
(***************************************************************************)
(* The calls of a mailbox applied to some entries, one after the other.    *)
(* FoldLeft takes the value from a recursive function on the subsets of    *)
(* the mailbox's positions; what it does to the positions 1 .. k, for      *)
(* every k, is a history of the entries.                                   *)
(***************************************************************************)
Folded(base, seq) == FoldLeft(Applied, base, seq)

Folds(iter, base, seq, Sets) ==
  iter = [T \in Sets |->
            IF T = {} THEN base ELSE Applied(iter[T \ {Max(T)}], seq[Max(T)])]

History(h, base, seq) ==
  /\ DOMAIN h = 0 .. Len(seq)
  /\ h[0] = base
  /\ \A k \in 1 .. Len(seq) : h[k] = Applied(h[k - 1], seq[k])

LEMMA LastPosition ==
  ASSUME NEW n \in Nat, NEW T \in SUBSET (1 .. n), T # {}
  PROVE  /\ Max(T) \in T
         /\ \A k \in T : k <= Max(T)
<1>1. T \subseteq Nat /\ \A k \in T : k <= n
  OBVIOUS
<1> QED BY <1>1, GreatestNatural

LEMMA FoldsExist ==
  ASSUME NEW base, NEW seq, NEW n \in Nat
  PROVE  \E iter : Folds(iter, base, seq, SUBSET (1 .. n))
<1> DEFINE Bad == {m \in Nat : ~ \E iter : Folds(iter, base, seq, SUBSET (1 .. m))}
<1>1. 0 \notin Bad
  <2>1. \A T \in SUBSET (1 .. 0) : T = {}
    OBVIOUS
  <2>2. Folds([T \in SUBSET (1 .. 0) |-> base], base, seq, SUBSET (1 .. 0))
    BY <2>1 DEF Folds
  <2> QED BY <2>2
<1>2. ASSUME NEW m \in Nat, m \notin Bad
      PROVE  m + 1 \notin Bad
  <2>1. PICK g : Folds(g, base, seq, SUBSET (1 .. m))
    BY <1>2
  <2> DEFINE S == SUBSET (1 .. m + 1)
             g1 == [T \in S |-> IF T = {} THEN base
                                ELSE Applied(g[T \ {Max(T)}], seq[Max(T)])]
  <2>2. ASSUME NEW T \in SUBSET (1 .. m)
        PROVE  T \in S /\ g1[T] = g[T]
    <3>1. T \in S
      OBVIOUS
    <3> QED BY <3>1, <2>1 DEF Folds
  <2>3. ASSUME NEW T \in S, T # {}
        PROVE  T \ {Max(T)} \in SUBSET (1 .. m)
    <3>1. m + 1 \in Nat
      OBVIOUS
    <3>2. Max(T) \in T /\ \A k \in T : k <= Max(T)
      BY <2>3, <3>1, LastPosition
    <3>3. SUFFICES ASSUME NEW k \in T, k # Max(T)
                   PROVE  k \in 1 .. m
      OBVIOUS
    <3>4. k \in 1 .. m + 1 /\ Max(T) \in 1 .. m + 1 /\ k <= Max(T)
      BY <3>2
    <3> QED BY <3>3, <3>4
  <2>4. Folds(g1, base, seq, S)
    <3> HIDE DEF S
    <3>1. ASSUME NEW T \in S
          PROVE  g1[T] = IF T = {} THEN base
                         ELSE Applied(g1[T \ {Max(T)}], seq[Max(T)])
      BY <2>2, <2>3
    <3>2. g1 = [T \in S |-> g1[T]]
      OBVIOUS
    <3> HIDE DEF g1
    <3> QED BY <3>1, <3>2 DEF Folds
  <2> QED BY <2>4
<1>3. n \notin Bad
  <2>1. SUFFICES ASSUME Bad # {}
                 PROVE  FALSE
    OBVIOUS
  <2>2. PICK m \in Bad : \A k \in Bad : ~ (k < m)
    BY <2>1, LeastNatural
  <2>3. m \in Nat /\ m # 0
    BY <1>1
  <2>4. m - 1 \in Nat /\ m - 1 \notin Bad
    <3> HIDE DEF Bad
    <3> QED BY <2>2, <2>3
  <2>5. (m - 1) + 1 \notin Bad /\ (m - 1) + 1 = m
    <3> HIDE DEF Bad
    <3> QED BY <1>2, <2>3, <2>4
  <2> QED BY <2>2, <2>5
<1> QED BY <1>3

(***************************************************************************)
(* The fold is the end of a history, and there is only one history.        *)
(***************************************************************************)
LEMMA FoldHasHistory ==
  ASSUME NEW X, NEW base, NEW seq \in Seq(X)
  PROVE  \E h : History(h, base, seq) /\ Folded(base, seq) = h[Len(seq)]
<1> DEFINE n == Len(seq)
           iter == CHOOSE g : Folds(g, base, seq, SUBSET (1 .. n))
           h == [k \in 0 .. n |-> iter[1 .. k]]
<1>0. n \in Nat /\ DOMAIN seq = 1 .. n
  OBVIOUS
<1>1. Folds(iter, base, seq, SUBSET (1 .. n))
  BY <1>0, FoldsExist
<1>2. Folded(base, seq) = iter[1 .. n]
  BY <1>0 DEF Folded, FoldLeft, MapThenFoldSet, Folds
<1> HIDE DEF iter, n
<1>3. h[0] = base
  <2>1. 1 .. 0 = {}
    OBVIOUS
  <2>2. iter[{}] = base
    BY <1>1 DEF Folds
  <2> QED BY <1>0, <2>1, <2>2
<1>4. ASSUME NEW k \in 1 .. n
      PROVE  h[k] = Applied(h[k - 1], seq[k])
  <2>1. k \in Nat /\ k \in 0 .. n /\ k - 1 \in 0 .. n /\ k \in 1 .. k /\ 1 .. k # {}
    <3>1. n \in Nat
      BY <1>0
    <3>2. k \in Nat /\ 1 <= k /\ k <= n
      BY <3>1
    <3>3. k \in 1 .. k
      BY <3>2
    <3> QED BY <3>1, <3>2, <3>3
  <2>2. Max(1 .. k) \in 1 .. k /\ \A j \in 1 .. k : j <= Max(1 .. k)
    <3> HIDE DEF h
    <3> QED BY <2>1, LastPosition
  <2>3. Max(1 .. k) = k
    BY <2>1, <2>2
  <2>4. (1 .. k) \ {k} = 1 .. k - 1
    BY <2>1
  <2>5. 1 .. k \in SUBSET (1 .. n)
    BY <1>0
  <2>6. iter[1 .. k] = Applied(iter[(1 .. k) \ {Max(1 .. k)}], seq[Max(1 .. k)])
    BY <1>1, <2>1, <2>5 DEF Folds
  <2> QED BY <2>1, <2>3, <2>4, <2>6
<1>5. h[n] = iter[1 .. n] /\ DOMAIN h = 0 .. n
  BY <1>0
<1> HIDE DEF h
<1>6. History(h, base, seq)
  BY <1>3, <1>4, <1>5 DEF History, n
<1> QED BY <1>2, <1>5, <1>6 DEF n

LEMMA HistoriesAgree ==
  ASSUME NEW base, NEW seq, NEW g, NEW h, Len(seq) \in Nat,
         History(g, base, seq), History(h, base, seq)
  PROVE  g[Len(seq)] = h[Len(seq)]
<1> DEFINE n == Len(seq)
           Bad == {k \in 0 .. n : g[k] # h[k]}
<1>1. SUFFICES ASSUME Bad # {}
               PROVE  FALSE
  OBVIOUS
<1>2. Bad \subseteq Nat
  OBVIOUS
<1>3. PICK m \in Bad : \A k \in Bad : ~ (k < m)
  <2> HIDE DEF Bad
  <2> QED BY <1>1, <1>2, LeastNatural
<1>4. m \in 0 .. n /\ g[m] # h[m]
  OBVIOUS
<1>5. m \in 1 .. n
  BY <1>4 DEF History
<1>6. g[m] = Applied(g[m - 1], seq[m]) /\ h[m] = Applied(h[m - 1], seq[m])
  BY <1>5 DEF History
<1>7. m - 1 \in 0 .. n /\ m - 1 < m
  BY <1>5
<1>8. m - 1 \in Bad
  BY <1>4, <1>6, <1>7
<1> HIDE DEF Bad
<1> QED BY <1>3, <1>7, <1>8

LEMMA FoldIsHistory ==
  ASSUME NEW X, NEW base, NEW seq \in Seq(X), NEW h, History(h, base, seq)
  PROVE  Folded(base, seq) = h[Len(seq)]
<1>1. PICK g : History(g, base, seq) /\ Folded(base, seq) = g[Len(seq)]
  BY FoldHasHistory
<1>2. Len(seq) \in Nat
  OBVIOUS
<1> QED BY <1>1, <1>2, HistoriesAgree

LEMMA FoldOfNone ==
  ASSUME NEW base
  PROVE  Folded(base, <<>>) = base
<1> DEFINE h == [k \in 0 .. 0 |-> base]
<1>1. <<>> \in Seq({}) /\ Len(<<>>) = 0
  OBVIOUS
<1>2. History(h, base, <<>>)
  BY <1>1 DEF History
<1>3. h[0] = base
  OBVIOUS
<1> HIDE DEF h
<1> QED BY <1>1, <1>2, <1>3, FoldIsHistory

LEMMA FoldOfOneMore ==
  ASSUME NEW X, NEW base, NEW seq \in Seq(X), NEW call \in X
  PROVE  Folded(base, Append(seq, call))
           = Applied(Folded(base, seq), call)
<1>1. PICK h : History(h, base, seq) /\ Folded(base, seq) = h[Len(seq)]
  BY FoldHasHistory
<1> DEFINE n == Len(seq)
           more == Append(seq, call)
           h1 == [k \in 0 .. n + 1 |-> IF k <= n THEN h[k] ELSE Applied(h[n], call)]
<1>2. /\ n \in Nat /\ more \in Seq(X) /\ Len(more) = n + 1 /\ more[n + 1] = call
      /\ \A k \in 1 .. n : more[k] = seq[k]
  OBVIOUS
<1> HIDE DEF n, more
<1>3. DOMAIN h1 = 0 .. n + 1 /\ h1[0] = base /\ h1[n + 1] = Applied(h[n], call)
  BY <1>1, <1>2 DEF History
<1>4. \A k \in 1 .. n + 1 : h1[k] = Applied(h1[k - 1], more[k])
  <2>1. ASSUME NEW k \in 1 .. n
        PROVE  h1[k] = Applied(h1[k - 1], more[k])
    <3>1. k \in 0 .. n + 1 /\ k - 1 \in 0 .. n + 1 /\ k <= n /\ k - 1 <= n
      BY <1>2
    <3>2. h1[k] = h[k] /\ h1[k - 1] = h[k - 1]
      BY <3>1
    <3> HIDE DEF h1
    <3>3. h[k] = Applied(h[k - 1], seq[k])
      BY <1>1 DEF History, n
    <3> QED BY <1>2, <3>2, <3>3
  <2>2. h1[n] = h[n]
    BY <1>2
  <2>3. (n + 1) - 1 = n /\ \A k \in 1 .. n + 1 : k \in 1 .. n \/ k = n + 1
    BY <1>2
  <2> HIDE DEF h1
  <2>4. h1[n + 1] = Applied(h1[(n + 1) - 1], more[n + 1])
    BY <1>2, <1>3, <2>2, <2>3
  <2> QED BY <2>1, <2>3, <2>4
<1> HIDE DEF h1
<1>5. History(h1, base, more)
  BY <1>2, <1>3, <1>4 DEF History
<1>6. Folded(base, more) = h1[n + 1]
  BY <1>2, <1>5, FoldIsHistory
<1> QED BY <1>1, <1>3, <1>6 DEF n, more

LEMMA FoldFromTheHead ==
  ASSUME NEW X, NEW base, NEW seq \in Seq(X), seq # <<>>
  PROVE  Folded(base, seq)
           = Folded(Applied(base, Head(seq)), Tail(seq))
<1>1. PICK h : History(h, base, seq) /\ Folded(base, seq) = h[Len(seq)]
  BY FoldHasHistory
<1> DEFINE n == Len(seq)
           first == Applied(base, Head(seq))
           h1 == [k \in 0 .. n - 1 |-> h[k + 1]]
<1>2. /\ n \in Nat /\ n >= 1 /\ Tail(seq) \in Seq(X) /\ Len(Tail(seq)) = n - 1
      /\ Head(seq) = seq[1]
      /\ \A k \in 1 .. n - 1 : Tail(seq)[k] = seq[k + 1]
  OBVIOUS
<1>3. /\ h[0] = base
      /\ \A k \in 1 .. n : h[k] = Applied(h[k - 1], seq[k])
  BY <1>1 DEF History
<1> HIDE DEF n
<1>4. DOMAIN h1 = 0 .. n - 1 /\ h1[0] = h[1] /\ h1[n - 1] = h[n]
  BY <1>2
<1>5. h[1] = first
  <2>1. 1 \in 1 .. n /\ 1 - 1 = 0
    BY <1>2
  <2> QED BY <1>2, <1>3, <2>1
<1>6. ASSUME NEW k \in 1 .. n - 1
      PROVE  h1[k] = Applied(h1[k - 1], Tail(seq)[k])
  <2>1. k \in 0 .. n - 1 /\ k - 1 \in 0 .. n - 1 /\ k + 1 \in 1 .. n
        /\ (k - 1) + 1 = k /\ (k + 1) - 1 = k
    BY <1>2
  <2>2. h1[k] = h[k + 1] /\ h1[k - 1] = h[k]
    BY <2>1
  <2> HIDE DEF h1
  <2>3. h[k + 1] = Applied(h[k], seq[k + 1])
    BY <1>3, <2>1
  <2> QED BY <1>2, <2>2, <2>3
<1> HIDE DEF h1, first
<1>7. History(h1, first, Tail(seq))
  BY <1>2, <1>4, <1>5, <1>6 DEF History
<1>8. Folded(first, Tail(seq)) = h1[n - 1]
  <2>1. Folded(first, Tail(seq)) = h1[Len(Tail(seq))]
    <3> DEFINE rest == Tail(seq)
    <3>1. rest \in Seq(X) /\ History(h1, first, rest)
      BY <1>2, <1>7
    <3> HIDE DEF rest
    <3>2. Folded(first, rest) = h1[Len(rest)]
      BY <3>1, FoldIsHistory
    <3> QED BY <3>2 DEF rest
  <2> QED BY <1>2, <2>1
<1> QED BY <1>1, <1>4, <1>8 DEF n, first

-----------------------------------------------------------------------------
(***************************************************************************)
(* The ledger through one step: a call that is dispatched takes effect on  *)
(* it, a call that is served changes the entries as it changed the ledger, *)
(* and the end of the process empties it.                                  *)
(***************************************************************************)
ledger == FoldLeft(Applied, containerResources, mailbox)

LEMMA ServedCallsAreInTheLedger ==
  ASSUME mailbox \in Seq(AnyCall), mailbox # <<>>, mailbox' = Tail(mailbox),
         containerResources' = Applied(containerResources, Head(mailbox))
  PROVE  ledger' = ledger
BY FoldFromTheHead DEF ledger, Folded

LEMMA ServeKeepsLedger ==
  ASSUME IInv, ServeStateless \/ Isolate \/ Update \/ CleanupUnknown \/ CleanupKnown
  PROVE  ledger' = ledger
<1> DEFINE call == Head(mailbox)
<1>1. mailbox \in Seq(AnyCall) /\ mailbox # <<>> /\ mailbox' = Tail(mailbox)
  BY DEF IInv, TypeOK, Serving, ServeStateless, Isolate, Update, CleanupUnknown,
         CleanupKnown
<1>2. call \in AnyCall /\ call.id \in Containers
  BY <1>1, HeadAndTail, CallFields
<1>3. containerResources \in [Containers -> Resources \cup {NoResources}]
  BY DEF IInv, TypeOK
<1>4. containerResources' = Applied(containerResources, call)
  <2>1. CASE ServeStateless \/ Isolate
    <3>1. call.op \notin {"update", "cleanup"}
          /\ containerResources' = containerResources
      BY <2>1 DEF ServeStateless, Isolate, Serving, Stateless
    <3> HIDE DEF call
    <3> QED BY <3>1 DEF Applied
  <2>2. CASE Update
    <3>1. call.op = "update"
          /\ containerResources' =
               IF containerResources[call.id] = NoResources
               THEN [containerResources EXCEPT ![call.id] = call.resources]
               ELSE containerResources
      BY <2>2 DEF Update, Serving
    <3> HIDE DEF call
    <3> QED BY <3>1 DEF Applied
  <2>3. CASE CleanupUnknown
    <3>1. call.op = "cleanup" /\ containerResources[call.id] = NoResources
          /\ containerResources' = containerResources
      BY <2>3 DEF CleanupUnknown, Serving
    <3> HIDE DEF call
    <3>2. [containerResources EXCEPT ![call.id] = NoResources] = containerResources
      BY <1>3, <3>1
    <3> QED BY <3>1, <3>2 DEF Applied
  <2>4. CASE CleanupKnown
    <3>1. call.op = "cleanup"
          /\ containerResources' = [containerResources EXCEPT ![call.id] = NoResources]
      BY <2>4 DEF CleanupKnown, Serving
    <3> HIDE DEF call
    <3> QED BY <3>1 DEF Applied
  <2> QED BY <2>1, <2>2, <2>3, <2>4
<1> QED BY <1>1, <1>4, ServedCallsAreInTheLedger

LEMMA DispatchIsNoted ==
  ASSUME IInv, NEW call \in Call(sent + 1), Dispatch(call)
  PROVE  \/ \E c \in Containers, r \in Resources : ledger' = Ledger!Noted(ledger, c, r)
         \/ \E c \in Containers : ledger' = Ledger!Erased(ledger, c)
         \/ ledger' = ledger
<1>1. sent + 1 \in 1 .. MaxCalls
  BY BoundsAssumption DEF IInv, TypeOK, Dispatch
<1>2. call \in AnyCall
  BY <1>1 DEF AnyCall
<1>3. call.id \in Containers /\ (call.op = "update" => call.resources \in Resources)
  BY <1>2, CallFields
<1>4. ledger' = Applied(ledger, call)
  <2>1. mailbox \in Seq(AnyCall) /\ mailbox' = Append(mailbox, call)
        /\ containerResources' = containerResources
    BY DEF Dispatch, IInv, TypeOK
  <2> DEFINE seq == mailbox
             base == containerResources
  <2>2. seq \in Seq(AnyCall) /\ call \in AnyCall
    BY <1>2, <2>1
  <2>3. ledger' = Folded(base, Append(seq, call))
        /\ ledger = Folded(base, seq)
    BY <2>1 DEF ledger, Folded
  <2> HIDE DEF seq, base
  <2>4. Folded(base, Append(seq, call))
          = Applied(Folded(base, seq), call)
    BY <2>2, FoldOfOneMore
  <2> QED BY <2>3, <2>4
<1> HIDE DEF ledger
<1>5. CASE call.op = "update"
  <2>1. Applied(ledger, call) = Ledger!Noted(ledger, call.id, call.resources)
    BY <1>5 DEF Applied, Ledger!Noted
  <2> QED BY <1>3, <1>4, <1>5, <2>1
<1>6. CASE call.op = "cleanup"
  <2>1. Applied(ledger, call) = Ledger!Erased(ledger, call.id)
    BY <1>6 DEF Applied, Ledger!Erased
  <2> QED BY <1>3, <1>4, <2>1
<1>7. CASE call.op \notin {"update", "cleanup"}
  BY <1>4, <1>7 DEF Applied
<1> QED BY <1>5, <1>6, <1>7

LEMMA StepIsOfTheLedger ==
  ASSUME IInv, [Next]_vars
  PROVE  [Ledger!Next]_ledger
<1>1. CASE Start \/ (\E c \in Containers : Directory(c)) \/ OtherOpens \/ OtherCloses
           \/ Rmdir \/ UNCHANGED vars
  <2>1. UNCHANGED <<containerResources, mailbox>>
    BY <1>1 DEF Start, Directory, OtherOpens, OtherCloses, Rmdir, vars, actor
  <2> QED BY <2>1 DEF ledger
<1>2. CASE Killed \/ CleanupNoDirectory \/ RmdirFails
  <2>1. containerResources' = NoEntries /\ mailbox' = <<>>
    BY <1>2 DEF Killed, CleanupNoDirectory, RmdirFails, ProcessEnds
  <2>2. ledger' = Ledger!Empty
    BY <2>1, FoldOfNone DEF ledger, Folded, NoEntries, Ledger!Empty
  <2> QED BY <2>2 DEF ledger, Ledger!Next, Ledger!Forget
<1>3. CASE \E call \in Call(sent + 1) : Dispatch(call)
  BY <1>3, DispatchIsNoted DEF ledger, Ledger!Next, Ledger!Note, Ledger!Erase
<1>4. CASE ServeStateless \/ Isolate \/ Update \/ CleanupUnknown \/ CleanupKnown
  BY <1>4, ServeKeepsLedger
<1> QED BY <1>1, <1>2, <1>3, <1>4 DEF Next, Serve

(***************************************************************************)
(* The actor implements the ledger: however late and however often         *)
(* interrupted it serves its mailbox, the agent's calls take effect in the *)
(* order it made them, the first resources of a container stay until that  *)
(* container is cleaned up, and only the end of the process forgets them.  *)
(***************************************************************************)
THEOREM ImplementsLedger == Spec => RefinesLedger
<1>1. Init => Ledger!Init
  BY FoldOfNone DEF Folded, Init, Ledger!Init, Ledger!Empty, NoEntries
<1>2. IInv /\ [Next]_vars => [Ledger!Next]_ledger
  BY StepIsOfTheLedger
<1>3. ledger = FoldLeft(Applied, containerResources, mailbox)
  BY DEF ledger
<1> QED
  BY <1>1, <1>2, <1>3, Inductive, PTL DEF Spec, RefinesLedger, Ledger!Spec, ledger
=============================================================================
