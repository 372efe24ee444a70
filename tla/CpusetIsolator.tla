--------------------------- MODULE CpusetIsolator ---------------------------
(***************************************************************************)
(* The isolator module in the life of a Mesos agent                        *)
(* (src/CpusetIsolator.hpp, src/CpusetIsolator.cpp).  CpusetIsolator       *)
(* dispatches every call of the agent to the libprocess actor              *)
(* CpusetIsolatorProcess, which serves its mailbox in order, one call at a *)
(* time.  Around the actor are the agent process, which may be killed and  *)
(* started again, the leveldb database, the only state that survives it,   *)
(* and the cpuset directories, which other programs change as well.        *)
(***************************************************************************)
EXTENDS Naturals, Sequences, SequencesExt

CONSTANTS
  Containers,
  Resources,      \* what a container may be given
  NoResources,
  Pids,
  None,           \* no container, no call, no time
  Times,          \* what getCurrentTime may answer, in seconds
  MaxCalls        \* bound: calls dispatched in a behaviour

ASSUME SentinelAssumption ==
  /\ NoResources \notin Resources
  /\ None \notin Containers
  /\ None \notin Times
ASSUME BoundsAssumption == MaxCalls \in Nat

(***************************************************************************)
(* The calls of the module interface.  prepare, recover, watch and usage   *)
(* read no state and write none (lines 88-126, 189-201 and 216-229: their  *)
(* bodies are commented out, or log only).                                 *)
(***************************************************************************)
Stateless == {"recover", "prepare", "watch", "usage"}

Call(n) ==
  [n : {n}, op : Stateless, id : Containers]
    \cup [n : {n}, op : {"isolate"}, id : Containers, pid : Pids]
    \cup [n : {n}, op : {"update"}, id : Containers, resources : Resources]
    \cup [n : {n}, op : {"cleanup"}, id : Containers]

VARIABLES
  agent,               \* the process: "down", "up", or "aborted" by a handler
  dbLock,              \* who has the database open: "free", "isolator", "other"
  startDtg,            \* the value of that key in the database, None if absent
  mailbox,             \* the actor's queue
  containerResources,  \* the map of that name
  pids,                \* the containers in the map of that name
  removing,            \* the cleanup that is between os::exists and os::rmdir
  dirs,                \* the cpuset directories: "absent", "free", "held"
  sent,                \* how many calls were dispatched
  reply,               \* history: the last call answered, and its future
  told                 \* history: the containers of the updates that were
                       \* dispatched since the agent last started

actor == <<mailbox, containerResources, pids, removing>>
vars == <<agent, dbLock, startDtg, actor, dirs, sent, reply, told>>

NoEntries == [c \in Containers |-> NoResources]

Init ==
  /\ agent = "down"
  /\ dbLock = "free"
  /\ startDtg \in Times \cup {None}
  /\ mailbox = <<>>
  /\ containerResources = NoEntries
  /\ pids = {}
  /\ removing = None
  /\ dirs \in [Containers -> {"absent", "free", "held"}]
  /\ sent = 0
  /\ reply = None
  /\ told = {}
-----------------------------------------------------------------------------
(***************************************************************************)
(* getCurrentTime: the time in seconds.  The windowed mins of line 30 is   *)
(* computed and dropped.                                                   *)
(***************************************************************************)
getCurrentTime == Times

(***************************************************************************)
(* What startDtg may be after lines 78-84.  It stays where Get finds it,   *)
(* and where Put fails, which is not looked at.  It is written whenever    *)
(* Get is not ok: that is when it is missing, but also when the database   *)
(* cannot read the date that is there, which is then lost.                 *)
(***************************************************************************)
Stamped == {startDtg} \cup getCurrentTime

OpensAnyway ==   \* mutant: the status of DB::Open is not tested
  /\ agent # "up"
  /\ agent' = "up"
  /\ told' = {}
  /\ UNCHANGED <<dbLock, startDtg, actor, dirs, sent, reply>>

(***************************************************************************)
(* The constructor.  The database is created when missing and opened under *)
(* its lock.  The two other ways through the constructor, no samplewindow  *)
(* and a database that does not open, end in exit(-1): the agent stays     *)
(* down and nothing has changed.                                           *)
(***************************************************************************)
Start ==
  /\ agent # "up"
  /\ dbLock = "free"
  /\ agent' = "up"
  /\ dbLock' = "isolator"
  /\ startDtg' \in Stamped
  /\ told' = {}
  /\ UNCHANGED <<actor, dirs, sent, reply>>

EntriesSurvive(how) ==   \* mutant: the entries are kept for the next agent
  /\ agent' = how
  /\ dbLock' = "free"
  /\ mailbox' = <<>>
  /\ removing' = None
  /\ UNCHANGED <<containerResources, pids>>

(***************************************************************************)
(* The end of the process, killed from outside or by a failed check inside *)
(* a handler.  What the actor held in memory is gone, and so is the lock.  *)
(***************************************************************************)
ProcessEnds(how) ==
  /\ agent' = how
  /\ dbLock' = "free"
  /\ mailbox' = <<>>
  /\ containerResources' = NoEntries
  /\ pids' = {}
  /\ removing' = None

Killed ==
  /\ agent = "up"
  /\ ProcessEnds("down")
  /\ UNCHANGED <<startDtg, dirs, sent, reply, told>>
-----------------------------------------------------------------------------
(***************************************************************************)
(* The agent makes a call: dispatch puts it at the back of the mailbox.    *)
(***************************************************************************)
Dispatch(call) ==
  /\ agent = "up"
  /\ sent < MaxCalls
  /\ sent' = sent + 1
  /\ mailbox' = Append(mailbox, call)
  /\ told' = IF call.op = "update" THEN told \cup {call.id} ELSE told
  /\ UNCHANGED <<agent, dbLock, startDtg, containerResources, pids,
                 removing, dirs, reply>>

(***************************************************************************)
(* The actor takes the next call of its mailbox.                           *)
(***************************************************************************)
Serving(op) ==
  /\ agent = "up"
  /\ removing = None
  /\ mailbox # <<>>
  /\ Head(mailbox).op \in op
  /\ mailbox' = Tail(mailbox)

Answer(call, future) == reply' = [call |-> call, future |-> future]

(* The future that watch returns is never completed.                       *)
ServeStateless ==
  LET call == Head(mailbox)
  IN  /\ Serving(Stateless)
      /\ Answer(call, IF call.op = "watch" THEN "pending" ELSE "ready")
      /\ UNCHANGED <<agent, dbLock, startDtg, containerResources, pids,
                     removing, dirs, sent, told>>

IsolateInserts ==   \* mutant: operator[] before the guards adds an empty entry
  LET call == Head(mailbox)
  IN  /\ Serving({"isolate"})
      /\ containerResources' = [containerResources EXCEPT ![call.id] = {}]
      /\ Answer(call, "failed")
      /\ UNCHANGED <<agent, dbLock, startDtg, pids, removing, dirs, sent, told>>

(***************************************************************************)
(* isolate refuses a container that is not in pids.  No code writes pids   *)
(* (the loop of recover is commented out), so there is no second outcome:  *)
(* the steps of lines 159-185 are out of reach.                            *)
(***************************************************************************)
Isolate ==
  LET call == Head(mailbox)
  IN  /\ Serving({"isolate"})
      /\ call.id \notin pids
      /\ Answer(call, "failed")
      /\ UNCHANGED <<agent, dbLock, startDtg, containerResources, pids,
                     removing, dirs, sent, told>>

UpdateOverwrites ==   \* mutant: put for insert
  LET call == Head(mailbox)
  IN  /\ Serving({"update"})
      /\ containerResources' = [containerResources EXCEPT ![call.id] = call.resources]
      /\ Answer(call, "ready")
      /\ UNCHANGED <<agent, dbLock, startDtg, pids, removing, dirs, sent, told>>

Update ==
  LET call == Head(mailbox)
  IN  /\ Serving({"update"})
      /\ containerResources' =
           IF containerResources[call.id] = NoResources
           THEN [containerResources EXCEPT ![call.id] = call.resources]
           ELSE containerResources
      /\ Answer(call, "ready")
      /\ UNCHANGED <<agent, dbLock, startDtg, pids, removing, dirs, sent, told>>

CleanupUnknown ==
  LET call == Head(mailbox)
  IN  /\ Serving({"cleanup"})
      /\ containerResources[call.id] = NoResources
      /\ Answer(call, "failed")
      /\ UNCHANGED <<agent, dbLock, startDtg, containerResources, pids,
                     removing, dirs, sent, told>>

(***************************************************************************)
(* _cleanup of a known container: the entry is erased first.  Then         *)
(* destroy_cpuset_group looks for the directory and, in a step of its own  *)
(* because other programs work in the same place, removes it.  get() on    *)
(* an error aborts the process, so both failures end the agent.            *)
(***************************************************************************)
CleanupKnown ==
  LET call == Head(mailbox)
  IN  /\ Serving({"cleanup"})
      /\ containerResources[call.id] # NoResources
      /\ dirs[call.id] # "absent"
      /\ containerResources' = [containerResources EXCEPT ![call.id] = NoResources]
      /\ removing' = call
      /\ UNCHANGED <<agent, dbLock, startDtg, pids, dirs, sent, reply, told>>

CleanupNoDirectory ==
  /\ agent = "up"
  /\ removing = None
  /\ mailbox # <<>>
  /\ Head(mailbox).op = "cleanup"
  /\ containerResources[Head(mailbox).id] # NoResources
  /\ dirs[Head(mailbox).id] = "absent"
  /\ ProcessEnds("aborted")
  /\ UNCHANGED <<startDtg, dirs, sent, reply, told>>

Rmdir ==
  /\ agent = "up"
  /\ removing # None
  /\ dirs[removing.id] = "free"
  /\ dirs' = [dirs EXCEPT ![removing.id] = "absent"]
  /\ removing' = None
  /\ Answer(removing, "ready")
  /\ UNCHANGED <<agent, dbLock, startDtg, mailbox, containerResources,
                 pids, sent, told>>

RmdirIgnored ==   \* mutant: the result is not read, as in isolate
  /\ agent = "up"
  /\ removing # None
  /\ dirs[removing.id] # "free"
  /\ removing' = None
  /\ Answer(removing, "ready")
  /\ UNCHANGED <<agent, dbLock, startDtg, mailbox, containerResources,
                 pids, dirs, sent, told>>

RmdirHangs ==   \* mutant: a directory in use is waited for
  /\ agent = "up"
  /\ removing # None
  /\ dirs[removing.id] = "absent"
  /\ ProcessEnds("aborted")
  /\ UNCHANGED <<startDtg, dirs, sent, reply, told>>

RmdirFails ==
  /\ agent = "up"
  /\ removing # None
  /\ dirs[removing.id] # "free"
  /\ ProcessEnds("aborted")
  /\ UNCHANGED <<startDtg, dirs, sent, reply, told>>

Serve ==
  \/ ServeStateless
  \/ Isolate
  \/ Update
  \/ CleanupUnknown
  \/ CleanupKnown
  \/ CleanupNoDirectory
  \/ Rmdir
  \/ RmdirFails
-----------------------------------------------------------------------------
(***************************************************************************)
(* Everything else on the machine: programs that make, fill, empty and     *)
(* remove cpuset directories (the isolator itself never makes one), a      *)
(* process that opens the same database.  A directory is "held" when       *)
(* os::rmdir fails on it: it has tasks or child groups, or the kernel      *)
(* keeps the control files from being unlinked.                            *)
(***************************************************************************)
Directory(c) ==
  /\ dirs' \in {[dirs EXCEPT ![c] = d] : d \in {"absent", "free", "held"}}
  /\ UNCHANGED <<agent, dbLock, startDtg, actor, sent, reply, told>>

OtherOpens ==
  /\ dbLock = "free"
  /\ dbLock' = "other"
  /\ UNCHANGED <<agent, startDtg, actor, dirs, sent, reply, told>>

OtherCloses ==
  /\ dbLock = "other"
  /\ dbLock' = "free"
  /\ UNCHANGED <<agent, startDtg, actor, dirs, sent, reply, told>>

Next ==
  \/ Start
  \/ Killed
  \/ \E call \in Call(sent + 1) : Dispatch(call)
  \/ Serve
  \/ \E c \in Containers : Directory(c)
  \/ OtherOpens
  \/ OtherCloses

(***************************************************************************)
(* libprocess runs every actor that has something in its mailbox.  Nothing *)
(* obliges the agent to start, to call or to survive, nor the other        *)
(* programs to do anything.                                                *)
(***************************************************************************)
Spec == Init /\ [][Next]_vars /\ WF_vars(Serve)
-----------------------------------------------------------------------------
AnyCall == UNION {Call(n) : n \in 1 .. MaxCalls}

TypeOK ==
  /\ agent \in {"down", "up", "aborted"}
  /\ dbLock \in {"free", "isolator", "other"}
  /\ startDtg \in Times \cup {None}
  /\ mailbox \in Seq(AnyCall)
  /\ containerResources \in [Containers -> Resources \cup {NoResources}]
  /\ pids \subseteq Containers
  /\ removing \in AnyCall \cup {None}
  /\ dirs \in [Containers -> {"absent", "free", "held"}]
  /\ sent \in 0 .. MaxCalls
  /\ reply \in [call : AnyCall, future : {"ready", "failed", "pending"}] \cup {None}
  /\ told \subseteq Containers

(***************************************************************************)
(* The database has one user: the isolator has it open exactly while its   *)
(* agent runs, whatever was killed, aborted or started by others before    *)
(* (lines 69-76).                                                          *)
(***************************************************************************)
OneDatabaseUser == agent = "up" <=> dbLock = "isolator"

(***************************************************************************)
(* A cleanup that is answered with success has left neither an entry nor a *)
(* directory behind, although others may have filled or removed the        *)
(* directory after os::exists saw it (lines 238-249).                      *)
(***************************************************************************)
CleanedUp(c) == containerResources[c] = NoResources /\ dirs[c] = "absent"

SuccessMeansCleanedUp ==
  [][ \A c \in Containers :
        /\ reply' # None
        /\ reply'.call.op = "cleanup"
        /\ reply'.call.id = c
        /\ reply'.future = "ready"
        => CleanedUp(c)' ]_reply

(***************************************************************************)
(* An abort costs an update: the container whose cleanup brings the agent  *)
(* down is one that the agent was told of after it last started.  So the   *)
(* cleanup that a restarted agent repeats does not bring it down again,    *)
(* whatever became of the directory, unless the container is updated anew  *)
(* (lines 241-246: the entry must go with the process or before it).       *)
(***************************************************************************)
BeingCleaned(c) ==
  \/ removing # None /\ removing.id = c
  \/ removing = None /\ mailbox # <<>> /\ Head(mailbox).id = c

NoAbortLoop == [][agent' = "aborted" => \E c \in told : BeingCleaned(c)]_agent

(***************************************************************************)
(* Every call the agent dispatches is taken from the mailbox and served to *)
(* its end, or ends with the agent.                                        *)
(***************************************************************************)
Pending(n) ==
  \/ \E i \in DOMAIN mailbox : mailbox[i].n = n
  \/ removing # None /\ removing.n = n

EveryCallEnds == \A n \in 1 .. MaxCalls : Pending(n) ~> ~ Pending(n)

(***************************************************************************)
(* To the agent the isolator is a ledger in which its calls take effect in *)
(* the order it made them: the entries, with the calls still in the        *)
(* mailbox applied to them.                                                *)
(***************************************************************************)
Applied(entries, call) ==
  CASE call.op = "update" /\ entries[call.id] = NoResources ->
         [entries EXCEPT ![call.id] = call.resources]
    [] call.op = "cleanup" -> [entries EXCEPT ![call.id] = NoResources]
    [] OTHER -> entries

Ledger == INSTANCE ContainerLedger
            WITH ledger <- FoldLeft(Applied, containerResources, mailbox)

RefinesLedger == Ledger!Spec

(***************************************************************************)
(* What the documentation says and the code does not do.                   *)
(*                                                                         *)
(* README:22-23, "pinning tasks to a set of cpu cores": the isolator takes *)
(* on a task whose resources it has been told.                             *)
(***************************************************************************)
PinsKnownTasks ==
  [][ reply' # None /\ reply'.call.op = "isolate"
        /\ containerResources[reply'.call.id] # NoResources
      => reply'.future = "ready" ]_reply
=============================================================================
