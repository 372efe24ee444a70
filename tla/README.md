# A verification development for mesos-cpusets

mesos-cpusets is an isolator and a resource estimator for the Mesos agent. They
are meant to pin the tasks of a container to cpu cores through the cpuset file
system of the Linux kernel, to choose those cores with a greedy submodular
algorithm, and to offer to the cluster the cores that are likely to stay free.
This directory models the parts that carry that logic, checks them with TLC, and
proves with TLAPS, for every size of machine, what matters most about them.
`PROJECT.json` lists the runs, the correspondence with the source line by line,
the hazards and the theorems. Paths below are relative to `src/`.

## 1. The system

| component | state it keeps | operations | talks to |
|---|---|---|---|
| `SubmodularScheduler.hpp` | the sets `U` and `V` of one call | `operator()` | its policy (`TopologyResourceInformation`) |
| `CpusetIsolator.{hpp,cpp}` | `pids`, `containerResources`, the leveldb database with `startDtg` | the Mesos isolator interface, dispatched to an actor | cgroupcpusets, leveldb |
| `HwlocTopology.{hpp,cpp}` | the maps `coresPerSocket`, `coresPerNuma`, `pusPerCore`, the list `gpus` | the constructor, read-only answers | hwloc |
| `cgroupcpusets.{hpp,cpp}` | none: `/sys/fs/cgroup/cpuset` | create, destroy, attach, assign, list, utilization | the kernel and every other program |
| `TopologyResourceInformation.hpp` | the cpuset groups and cpus seen at start | counts, cost and weight vectors, policies | HwlocTopology, cgroupcpusets |
| `CpusetResourceEstimator.hpp` (and `...Module.cpp`) | a time series, the same leveldb database | `oversubscribable` | the scheduler, leveldb |
| `CpusetAssigner.hpp` | none | `assign` | the scheduler, cgroupcpusets |
| `cgroupcpusets_main.cpp` | two pipes | a demonstration | cgroupcpusets |

How they interact. The agent calls `CpusetIsolator`, which dispatches each call
to `CpusetIsolatorProcess`; that actor serves its mailbox in order and calls the
cgroup functions synchronously. The estimator calls the scheduler, whose policy
asks `TopologyResourceInformation` for the vectors, which it computes from the
cgroup file system and from hwloc. The file system is shared with the kernel,
with other programs and with other copies of this code; the database is shared
through leveldb's lock.

What is hard in each, and what makes it correct:

* **Scheduler.** Numeric: a sum used as an index past the end of a vector, a
  cost test that charges each pair, idle cores that cost nothing, an empty
  candidate list. Correct when the budget holds, no single core beats the
  answer, the callers get the number of cores they need, and the call ends
  without dying.
* **Isolator.** A mailbox, crashes, a database that outlives the process, a
  directory others change between a look and a removal, an entry erased before
  the step that can fail. Correct when a cleanup that succeeds is complete,
  when the queue changes nothing about the order of calls, when the database
  has one user, and when one bad call does not bring down agent after agent.
* **Topology.** Two recursive walks over machines of many shapes. Correct when
  every socket, node, core and gpu is found, once, at the place it belongs.
* **Cgroup functions.** `os::exists`, then open, then read or write, with
  writers in between; a parser that reads behind a vector and may throw; errors
  that are not looked at. Correct when a success has done what was asked, a
  failure had a reason, and no reader dies of what the others do.
* **TopologyResourceInformation.** A group list read once and used for ever,
  vectors indexed by cpu number, an error that is not looked at. Correct when
  every index is in range and the vectors describe the cpus.
* **Estimator.** A snapshot read by key, a failed read that is not looked at or
  only when its samples are in the series, a series that outlives the calls that
  fill it, an argmax of a map that may be empty. Correct when calls on one
  database end alike and an estimate is backed by the latest samples.
* **Demo.** Two processes, each reading a pipe the other must close, and a pid
  that is used when its process must be dead.

## 2. Modules

| module | what it is |
|---|---|
| `SubmodularScheduler` | one call of `operator()`, an iteration of the loop per step |
| `BudgetedSelection` | what its callers see: one atomic answer, or a crash when nothing is affordable |
| `CpusetIsolator` | the actor, its agent, the database and the directories |
| `ContainerLedger` | what the agent may believe of the isolator: first update wins, cleanup erases, restart forgets |
| `HwlocTopology` | the two walks of the constructor and the answers from the maps |
| `CgroupCpusets` | concurrent writers and readers of the cpuset directories |
| `TopologyResourceInformation` | processes that count tasks: the readers of `CgroupCpusets`, with the calls built on the counts |
| `CgroupDemo` | the demo: its parent is a writer and a reader of `CgroupCpusets`, its child and the pipes are new |
| `CpusetResourceEstimator` | the estimator over many agents, with the isolator as the other user of the database |
| `MC...` | the instances of each for TLC |
| `...Proofs` | the theorems of each |
| `FoldLemmas` | lemmas on least and greatest elements, sums and products that these share |

The definitions marked "mutant:" by a comment are plausible slips of the
code (a dropped test, a swapped order); each property is violated when its
mutant replaces the definition, which shows that the property says something.

### SubmodularScheduler

State: `call` (the arguments and the policy's three vectors), `status`, `U`, `G`,
`Gf`. `Accept(k)` and `Reject(k)` are an iteration of the `while` loop
(lines 162-201), `k` being what `max_element` returns; `Choose(v)` is what
follows (203-226); `NothingAffordable` is the dereference of the end of an
empty `vlist` (217).

* Floats are integers over `Unit`; rounding is not modelled, so nothing here
  speaks of ties that rounding would make or break. Costs are task counts, and
  may be zero: `TopologyResourceInformation` delivers zeros (`ZeroCostMeansOverrun`).
  The ratio `pick_k` orders by is then an infinity or, when the gain is zero as
  well, no number; `Less` is `<` of such ratios, and `IsPick` is what
  `max_element` makes of a comparison that is false for what is no number.
* `weights[i, j]` is a comma expression, so `C` indexes by a running sum. What
  lies behind the vector is part of the call (`memory`): any natural numbers, as
  far as a sum of two of them can lead (`MemoryAssumption`). A heap that holds a
  negative float there is left out; what the read then hits has no bound.
* `pow` is `std::pow` for a whole exponent, as a product. `EqualWeights` and
  `CheapestFirst` are about a positive exponent: with `r = 0` the costs play no part.
* `V` is a member of the scheduler and would accumulate over calls; every
  caller makes a scheduler of its own (`CpusetAssigner.hpp:40`, `:44`,
  `CpusetResourceEstimator.hpp:205`), so one call per behaviour is enough.

### CpusetIsolator

State: the agent (`down`, `up`, `aborted`), the lock of the database, `startDtg`,
the mailbox, the two maps of the actor, the cleanup under way, the directories,
and two history variables: the last answer (`reply`), and the containers whose
updates were dispatched to the running agent (`told`). `Dispatch` is the wrapper of the interface;
`ServeStateless`, `Isolate`, `Update`, `CleanupUnknown`, `CleanupKnown`,
`CleanupNoDirectory`, `Rmdir` and `RmdirFails` are the handlers. The cleanup of
a known container takes two steps, `os::exists` and `os::rmdir`, because
`Directory`, the rest of the machine, may move between them. `Start` is the
constructor; its exits leave nothing behind and are simply no start. It writes
`startDtg` whenever `Get` is not ok (81), which it also is not when a date is
there and cannot be read, and it does not look at whether its write succeeds:
`Stamped` is what the date may be afterwards.
`OtherOpens` and `OtherCloses` are the estimator, which opens the same path.

No code writes `pids`, so `isolate` has one outcome, and lines 128-149 and
159-185, which only a pid could reach, are not actions.

### HwlocTopology

A machine is a tree in preorder, which is the order of both walks
(`TopologyAssumption`: the root is the machine, and the parent of an object is the
object before it or an ancestor of that one); `component`
is the next object to visit. There is an action per type of object, then
`CpuDone`/`NoBridge`, `VisitPci` and `GpuDone`. `find_parent_by_type` is the
search up the tree that stops at `halt`, and `Inserted` is `map::insert`, which
leaves a key alone; the two together decide what the maps hold. `LatencyIndex` is
the element of hwloc's matrix that `getCoreDistance` reads, which `NoCoreIsFound`
shows to be that of the second core alone. When
`hwloc_topology_init` fails the process exits before there is any state
(`HwlocTopology.cpp:86-89`); when `hwloc_topology_load` does (96), which is not
looked at, the walk meets a machine of one object, which is in the bound. The
order of sockets within the map, by address in the code, does not matter to the
result and is not in the model.

### CgroupCpusets

State: the directories, the call of each writer, and for each reader its list of
groups, where its call stands, the groups still to look at and the map. Two
history variables: `stayed`, the groups that were there all the time since a
reader's call began, and `kept`, those since a writer opened its file. Writers:
`Create` is atomic (`os::mkdir`); the other functions begin with `Look`
(`os::exists`). `Rmdir` or `RmdirFails` is the rest of destroy. Attach and assign
open a file (`Open`, `OpenFails`) and write to it when they close it (`Attach`,
`Assign`, `WriteRefused`). Readers: `ListGroups` reads the names and `KeepName`
looks at them one by one until `AllListed`. `BeginUtilization` starts `any_of`,
which goes group by group (`GroupMissing`, `GroupFound`, `NoGroupLeft`); the one
that is found is opened (`OpenFile`, `CountNothing`) and read (`CountGroup`,
`Throw`).

* A group that is removed takes its open files with it (`Unlinked`, and "stale"
  for a reader): the kernel refuses to write or read them even if the group is
  made again. The writer does not look at the refusal and answers with success;
  the reader has no line, of which `std::stoi` throws.

* A list of cpus is what the kernel writes, one token for each run of
  consecutive cpus. `Indices` and `Times` say what `parse_os_index_file` makes
  of it; what it reads behind the vector is any member of `Garbage`, for each
  run on its own.
* What the code writes is a set with one garbage member (`Written`), and the
  kernel takes a list only if the machine has all of it (`Given`). Whether a pid
  is moved depends on the kernel (`Moved`, or not).
* The subsystem is taken to be mounted. Without it every function but attach
  and assign returns at its first test.
* Of `/sys/fs/cgroup/cpuset` itself only the cpus and memory nodes are
  modelled; a group is a directory below it, not nested.

### TopologyResourceInformation

It extends `CgroupCpusets`: process `r` is reader `r`, and `proc[r]` says which
call it is in. `Construct` and `Constructed` are the constructor, which lists the
groups for the only time; `Ask` begins one of the three calls that count, `Utilize` is a step
of `get_cpuset_cpu_utilization`, and `DeliverCounts`, `DeliverCosts`, `Overrun`,
`AskForUnits` and `CountFails` are what the calls do with its result. `overran`
is a history variable. Everything that needs the topology goes through the
facade `HwlocTopology`, whose own process is never set (`HwlocTopology.hpp`,
201-261); `AskTopology` and `AskForUnits` end the process there.

The writers of the model call the library as other programs do. They are not
processes of this class, which never writes.

### CpusetResourceEstimator

State: the database (`db`, `dbLock`), whether the estimator runs, a call in the
mailbox, the time series, and three history variables: whether a read of this
agent has failed (`misread`), how calls on this database have ended
(`outcomes`), and the last request to the scheduler (`estimate`). `initialize` opens the
database; `oversubscribable` is the wrapper's dispatch; one serving of the call
is one step, for it runs under one snapshot and nobody else has the database.
The disjuncts of `Serve` are its ends: `SeekEnds`, `ParseFails`, `EntryThrows`,
`ScanFails`, `LatestMissing`, `NoSamples`, `CopyOverruns` and `Schedule`.
`ReadError` is a call in which a read of the database fails.

* A failed `Get("latest")` (94) is not looked at: `latest` stays empty and `Seek`
  goes to the first record. An iterator skips what it cannot read and says so in
  its status, at which the code looks (130) when the samples are in the series.
  `Misreads` is both, with any record: its samples come into the series and the call
  fails. A failed read may also end the agent.

* Each end keeps what it has added to `series`: the series is a member, and a
  call that fails half way through a record leaves half of it.
* A record is an array of entries: samples, arrays of another size ("wide"),
  and those at which `boost::get` throws or `Time::create` aborts ("odd"). Keys
  are times with equally many digits, so that numbers order as the strings do.
* `Likelihood` is `core` times the Poisson probability, multiplied by a factor
  that does not depend on `core` and makes it an integer. It is a product of one
  factor for each number up to the largest sample: the sum of the samples up to
  `core`, and the number of samples times `k - 1` for each `k` above. Where two cores
  tie, rounding decides and the model takes either.
* With samples the agent dies, in the copy from one temporary to another (158)
  or at the first call of the policy, `CpuTopologyResourceInformationPolicy::getNumItems`,
  which dispatches to the null process of `TopologyResourceInformation`. So
  nothing is ever offered and lines 208-220 are never reached.
* Nothing in the repository writes a sample: the only code that would,
  `updateDb`, is behind the pid that is never there. `Databases` is therefore what another
  program, or a version of the isolator that works, may have left.
* `process::TimeSeries` thins itself above its capacity of 1000 samples, and a
  double overflows for very many cores; both are far above the bounds and left
  out. What follows from that, the exactness of `SeriesRead` and `Likelihood`, is a
  simplification.

### CgroupDemo

The parent goes through the steps of `main` in order (`parent` is the next one),
and its library calls are those of writer and reader `Parent`. `Fork` stands for
all before the fork, `ReadPid` and `ReadToEnd` for the loop on `pipe_a`,
`BeginCall`, `FinishCall`, `List`, `Utilization`, `Count` and `ShowCounts` for
the calls, `Wait` for the end. The child writes, closes its copy of `pipe_b[1]`
and reads. A pipe ends when nobody holds its writing side: `OthersOfA`, `HoldsB`.
What `get_cpuset_cpus` returns is `Vector`, put together cpu by cpu: each index as
often as the parser read it, in the order of `std::sort`.
`pipe_c`, which nobody uses, and the two sleeps, which nothing waits for, are
left out. `chld_pid` is not initialized and begins as any pid.

## 3. Runs

| run | question | bounds |
|---|---|---|
| `SchedulerAnyPolicy` | the algorithm under any policy, and its refinement | 3 cores, costs 0-2, two weights, any heap, budgets of 0, 1/2, 1, 5/2 and 3 cores, exponents 1, 2 |
| `IsolatorLifecycle` | restarts, the database, aborts, every call ends | one container, 3 calls, two dates |
| `IsolatorLedger` | completeness of cleanup, order of calls | 2 containers, 2 resources, 3 calls |
| `TopologyDiscovery` | what both walks find, on all machines of the bound | 0 to 3 sockets, 2 cores each, 2 units each, nodes above, below or missing, local or global numbers, 4 PCI layouts |
| `CpusetReader` | a reader among changes | 2 groups, 3 cpus, 1 writer |
| `CpusetWriters` | two writers on one group | 1 group, 3 cpus, 6 vectors, 3 garbage values |
| `TaskCounts` | a process that counts tasks among changes | 1 group, 3 cpus, 1 writer, vectors `<<>>` and `<<1, 2>>` |
| `EstimatorCalls` | calls of the estimator over restarts and failed reads | 2,154 databases: up to 2 records, up to 3 entries, counts 0-3 |
| `DemoPipes` | parent, child, kills and another program | 3 cpus, 2 memory nodes, 2 pids, 1 other writer |

Why the bounds are enough to meet the interesting cases: three cores are the
fewest for which a request above two exists and a third core can be turned down
after two; three calls hold an update, a cleanup and its repeat, before and
after a restart; three sockets are the fewest where a core meets two sockets
other than its own; three cpus are the fewest with one inside a run, and two
groups are the fewest where `any_of` stops early. `TaskCounts` has one group and
the lists and garbage that leave a cpu above an unread one, which is what the
index of the cost vector is about; the order among groups is the business of
`CpusetReader`. In `EstimatorCalls` the second record is there for a `latest`
that is missing between two keys, and for a failed read that brings in a sample
of a time the latest record does not have; the counts up to three are for a mean
that is not whole. A cost of zero and a budget above two cores are what an answer
of many idle cores needs.
`DemoPipes` has a second memory node so that the list of cpus may by luck be
accepted as nodes. `MaxCalls` caps the isolator's
calls. `CHECK_DEADLOCK FALSE` is said where the system may
stop: a scheduler call or a discovery that has ended; an isolator that has made
its calls; cpuset users that have all died; an estimator whose
database the isolator has, or that waits for a call; a demo that waits for ever.

Three more runs each show one sentence of the documentation, or of a comment,
that the code does not keep; `PROJECT.json` quotes the sentence of each:

* `IsolatorPins`: no task is ever isolated.
* `CpusetAssigns`: a successful assignment of several cpus sets others or none.
* `CpusetCounts`: the utilization does not grow with the tasks on a cpu. A
  reader with both groups on its list stops at the first one that exists: its cpu
  gets 2 without a task, and the cpu of the second, with a task, stays at 1.

Other sentences fail as well. That "the least expensive core will be will be
selected" (`SubmodularScheduler.hpp:35-36`): the final choice compares coverage
alone, and may prefer one dear core. That the "user-defined window" is computed
(`CpusetIsolator.cpp:32`): it is, and dropped. And these follow from what passes:
that `nCores()` is "the number of cores hwloc found" (`HwlocTopology.hpp:134-135`)
from `NoCoreIsFound`; that the technique
"selects B cores" (`SubmodularScheduler.hpp:29-30`) from `FewerThanAsked`, unless
they are idle; that
the values of `coresPerSocket` are its cores (`HwlocTopology.hpp:182`) from
`NoSocketGetsACore`; that the keys of `coresPerNuma` are nodes (`:185`) from
`NumaEntriesNameThemselves`, for they are os indices of cores; and "all detected
gpus" (`:193`) from `GpusAreLeavesOfFirstBridge`.

### What the passing runs say

* The greedy loop keeps the budget from the second core on, the first is free.
  A request above two cores is answered with fewer, so the callers' tests for
  enough cores refuse it, unless every core of the answer is idle: with an idle
  core B is zero, and then idle cores are taken without a limit. An answer is
  never worse than one affordable core. With equal weights the cheapest cores go
  first.
* `RefinesSelection`: the loop implements the one-step `BudgetedSelection`.
* The isolator has the database open exactly while it runs. A cleanup that
  succeeds is complete whatever the race. One that aborts the agent is of a
  container which that agent was itself told of: repeated to the next agent it
  cannot abort that one, which no longer knows the container. The start date is
  not kept for certain: a `Get` that fails has it overwritten.
* `RefinesLedger`: with `ledger` mapped to the entries after the whole mailbox,
  serving is a stutter and dispatching is the abstract step.
* The topology finds every socket and node, no core on any machine, gives no
  socket a core, and keeps the gpus that are leaves below the first bridge.
* A utilization fails only when none of its groups stayed. It kills the reader
  for a group that has no cpus yet, or for one that is removed after its file
  was opened, and for nothing else: a group that is gone by the time its file is
  opened does no harm.
  One cpu is assigned exactly, in spite of the race of two writers, if the group
  was not removed between the opening of the file and the write; if it was, the
  call succeeds and the cpu is not set.
* A cost vector has no zeros, so that it is what the counts say, only when the
  counted cpus are 0, 1, 2 ... without a gap; otherwise it is written past its
  end. A process made before there was a group never answers. Every count ends.
* Calls of the estimator on one database end alike, so that calls which fail by
  what is in the database leave nothing behind that shows, and a database the
  agent dies of kills every agent that asks. The estimate is the mean of the
  latest samples rounded up. Failed reads are the exception to both: what they
  leave in the series may kill the agent where there are no latest samples, and
  moves the estimate, though never above the largest sample in the database.
* The demo does not end by itself. Its child is attached by nobody, and on a
  machine with more cpus than memory nodes it asks for nodes that are not there.

### Fairness

The scheduler and the discovery are sequential: weak fairness of `Next`. The
isolator has weak fairness of `Serve` only: libprocess runs every actor with a
message, but nothing makes the agent start, call or survive. Cpuset users have
weak fairness of the rest of a call each has begun, and of no more; so have the
processes that count. The estimator has weak fairness of `Serve`, as the
isolator, and not of `ReadError`, so a call ends without the help of one. The
two processes of the demo have weak fairness each: the scheduler of the kernel
runs a process that is not blocked. Kills and other programs have none.

## 4. Proofs

Each `...Proofs` module proves, for every value of the constants that its
named assumptions allow, that an inductive invariant `IInv` holds (`Inductive`), and
from it the theorems; TLC evaluates the assumptions in each run. Most are typing
(costs are natural numbers, sentinels are distinct from values). Two say more:
`TopologyAssumption`, that a machine is a tree in preorder, which is how hwloc
hands it out, and `MemoryAssumption`, that what is read behind the weights are
natural numbers.

The library's induction theorems cannot be used here, so whatever needs an
induction takes a least counterexample instead (`LeastNatural`). That is how
`FoldLemmas` shows that a sum over a finite set exists, is a natural number
and grows by each element; that two products compare when their factors do; and
that a finite set of numbers has a greatest one.

* **Scheduler: how many cores** (`TypeCorrect`, `StaysWithinBudget`, `NeverEnoughCores`,
  `WholeCoreIsSafe`). `CostWithinBudget` is inductive on its own; that the answer is
  short is not, since it is about the end of the loop. The invariant adds that
  `G` costs at least `MinCost * Cardinality(G)` and is within half of the budget
  or idle (`HalfBudget`): a pick that passes with `n` cores taken was charged at
  least `2 n MinCost`, and a positive `MinCost` cancels against B. If it is zero
  so is B, and nothing but idle cores passes the test after the first.
* **Scheduler: which cores** (`NoSingleIsBetter`, `TakesTheCheapest`). For the
  single core, `f` is shown to be a natural number whatever the heap
  (`fOfFacts`), so that a best one exists and the final comparison decides. For
  the cheapest, the gain of a core at equal weights is the same for every core
  (`GainIsLevel`), and powers grow with the base (`PowGrows`); the invariant
  (`InOrder`) adds that what is still in `U` costs no less than what was taken,
  and that after a core has been turned down every later one is too.
* **Scheduler: refinement** (`ImplementsSelection`). Accepting and rejecting are
  stutters of `BudgetedSelection`, `Choose` is its answer, and
  `NothingAffordable` its crash; that the abstract guard holds is `IInv`
  and the lemmas on `f`.
* **Isolator** (`TypeCorrect`, `DatabaseHasOneUser`, `CleanupIsComplete`,
  `AbortsDoNotRepeat`). The invariant adds
  that the container whose directory is being removed has no entry: `Rmdir`
  answers a call whose entry went a step earlier, and only because the actor
  serves one call at a time can no update have come in between. For the aborts a
  second one says that an entry, a queued update or a removal under way is always
  of a container the running agent was told of (`OnlyTold`), and that no such
  thing outlives the agent (`NothingOutlives`).
* **Isolator: refinement** (`ImplementsLedger`). The abstract ledger is the fold of
  the mailbox over the entries. A fold is the last element of its history
  (`FoldIsHistory`), histories agree where they start alike, and the history
  without its first call starts from the entries after that call. So serving the
  head changes nothing (`ServeKeepsLedger`), and a call that is added at the end is
  the step of the ledger (`DispatchIsNoted`). The end of a cleanup, a step after its
  entry was erased, changes no entry and is a stutter too.
* **Topology** (`TypeCorrect`, `NoCoreOnAnyMachine`, `SocketsStayEmpty`,
  `NumaAnswersTheCore`, `OneSocketMachines`, `NothingIsMissed`). No search between an object and its own parent finds
  a core, by the definition of `find_parent_by_type`, so `pusPerCore` stays
  empty; every vector of a socket stays empty, because insert finds the key there;
  and the vector at key `k` of the nodes is a sequence of `k` only. For one socket
  the invariant needs that the keys of `coresPerSocket` are sockets. That nothing
  is missed is `KeysAreThere`: every object the walk is past has its key.
* **Topology: gpus** (`GpusAreFoundOnce`). The list has the gpus among the objects
  visited, each once (`GpusSoFar`), is empty before the second walk
  (`NoneBeforeSecondWalk`), and that walk ends at the first object that is not
  below the bridge (`PastTheBridge`). None can follow: in preorder what is below an
  object comes right after it without a gap (`SubtreeHasNoGap`).
* **Cgroup functions** (`TypeCorrect`, `FailuresHadNothingToCount`,
  `ReadersDieOfEmptyGroups`, `OneCpuIsWrittenExactly`). The
  invariant relates the two sides of the race: groups of `stayed` are there
  now (`StayedAreThere`), and what a call has left is a part of its list with every
  group of it that stayed (`LeftIsTheRest`), so that the end of the list means none
  did, and that a reader which dies found a group of its own list. Of the
  files, one a reader has open is of a group that is there, and a stale one of a
  group that did not stay (`OpenFiles`); a writer's is stale only if its group is
  not among those it `kept` (`KeptIsOpen`). Of the steps only `Throw` kills, and
  only `Assign` and `WriteRefused` answer an assignment.
* **TopologyResourceInformation** (`ProcessesAreReaders`, `TypeCorrectOfProcesses`,
  `ZerosAreOverruns`, `NoAnswerWithoutAGroup`). Its steps are steps of
  `CgroupCpusets` (`StepOfProcessesIsAStep`), so the invariant proved there is
  part of this one. A zero in a cost vector is a pigeonhole argument: the
  vector has as many elements as the map has cpus, so one cpu outside leaves one
  element that no cpu fills (`FitsIfAndOnlyIfFills`). That needs a finite map,
  though garbage ends its runs (`CountsAreFinite`). For the list,
  `ListedGroups` says that a call with something left to look at or to answer
  has a list with a group.
* **Estimator** (`TypeCorrect`, `CallsDoAgree`). The invariant says what a call
  whose reads succeed comes to as a function of the database alone (`Verdict`),
  and that, as long as no read of the agent has failed, a series that is not
  empty has only times of the record that every call on this database reads
  (`OfThisRecord`); so the series is empty after a call exactly when that record
  is. Each outcome is the verdict, or a death after a failed read where the
  verdict is "no resources" (`OutcomesAgree`).
* **Estimator: the estimate** (`EstimateIsTheMean`). The likelihoods of `core` and
  `core + 1` are products that differ in one factor, `core` times the number of
  samples against their sum, so the most likely core is where the two cross
  (`LikelihoodsCompare`, `LikeliestIsMean`). That the series then holds the latest
  samples, each at its last value, is the invariant `OfTheLatest`, which holds until
  a read fails; that each of its counts is one of the database (`OfTheDatabase`)
  holds always.
* **Demo** (`ChildIsNeverAttached`, `NodesAreMissing`). The invariant says that a parent past its
  first read has a dead child, and a dead child means a kill (`Waiting`); that
  the calls of the parent then are made for a dead child (`ParentCalls`); and that
  nobody else attaches (`OtherCalls`). For the nodes, `mems` is a vector of cpus
  (`NodesAreCpus`); the highest cpu ends a run (`HighestEndsARun`), the end of a run is
  read at least once (`TimesAreNatural`), and what is read is in the vector
  (`VectorHasIndex`).

With these every safety invariant, every action property and both refinements
that the passing runs check are theorems. Model-checked only is what needs fairness
(`EveryCallEnds`, `EveryCountEnds`, `DiscoveryEnds`, `OnlyAKillEndsTheDemo`): liveness
is out of the prover's reach.

## 5. Plan

What is left, in this order:

1. Proofs: that a writer of `CgroupCpusets` is untouched by readers and that the
   demo is a writer and a reader of it (a step simulation as
   `ProcessesAreReaders`), which would give the theorems of `CgroupCpusets` to the
   parent of the demo.
2. Proofs: measures that decrease with each step of the scheduler and of the
   discovery (`U` shrinks, `component` grows), as action properties. They are the
   part of `EveryCallEnds` and `DiscoveryEnds` that does not need fairness.
3. A composition of isolator and estimator over one database with the life of
   both agents. Each models the other's use of the lock already
   (`OtherOpens`, `IsolatorStarts`), so it would mainly confirm these two.

## 6. Not modelled

* `CpusetAssigner`: its actor is never spawned and `isolate` never reaches it.
* `updateDb` and the tail of `isolate`: dead code, see above.
* `get_cpu_max_shares`: one read, for the demo to print.
* hwloc's latency matrix, `getCudaCpus`, `getCoreIndex`: hwloc data, code compiled
  only with `USE_CUDA`, code without a caller.
* The facades `HwlocTopology` and `TopologyResourceInformation` and the two
  policies: they keep no state, and each call dispatches to a process that is never set. Modelled is what that
  does to the first who calls them (`AskTopology`, `AskForUnits`, `Schedule`).
  `SubmodularScheduler` takes any policy, so it does not depend on these. The
  weight vector of the Cuda policy would not end even with a process:
  `getWeightVector` and `getCudaCpusWeightVector` (262-280) call each other.
* The tail of `oversubscribable` (208-220): never reached, see above.
* The factory of the estimator's module (`CpusetResourceEstimatorModule.cpp:42-71`):
  it parses parameters once, before there is any state.
* Whether an estimate is the most likely request, as the comment at
  `CpusetResourceEstimator.hpp:189` has it: `core_ests` is `core` times the
  probability, whose maximum is the mean rounded up and not the mode, as
  `EstimateIsMeanRoundedUp` says.
* `submodularscheduler-test.*`, the Makefile: a printing driver and the build.
