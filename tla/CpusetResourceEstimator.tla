---------------------- MODULE CpusetResourceEstimator ----------------------
(***************************************************************************)
(* The resource estimator module in the life of an agent                   *)
(* (src/CpusetResourceEstimator.hpp): oversubscribable() reads the samples *)
(* of core requests from the database and estimates the next request.  The *)
(* series of samples is a member that calls add to, and the database       *)
(* outlives the process.  Between agents with an estimator, others with an *)
(* isolator open the same database and write startDtg.  Whether the Get of *)
(* latest has failed is never looked at, and the status of the iterator    *)
(* only after its samples are in the series, so that a failed read leaves  *)
(* samples of any record behind.                                           *)
(*                                                                         *)
(* What the estimate is for, SubmodularScheduler under the cpu policy,     *)
(* dies at its first call of the policy: TopologyResourceInformation       *)
(* dispatches to a process that is never set.                              *)
(***************************************************************************)
EXTENDS Integers, Sequences, FiniteSets, FiniteSetsExt

CONSTANTS
  Databases,   \* what the database may hold before the first agent
  None         \* no key, no estimate

(***************************************************************************)
(* The keys of the records are times in seconds, all written with as many  *)
(* digits, so their order as strings is that of the numbers, and "latest"  *)
(* and "startDtg" come after them.  A record is an array of entries: a     *)
(* sample, an array of another size than two ("wide"), or something else,  *)
(* at which boost::get throws or Time::create aborts ("odd").              *)
(***************************************************************************)
Sample == [kind : {"sample"}, time : Nat, count : Nat]
Entry == Sample \cup [kind : {"wide", "odd"}]

ASSUME DatabasesAssumption ==
  \A d \in Databases :
    /\ d = [latest |-> d.latest, records |-> d.records, startDtg |-> d.startDtg]
    /\ d.latest \in Nat \cup {None}
    /\ DOMAIN d.records \subseteq Nat
    /\ \A k \in DOMAIN d.records : d.records[k] \in Seq(Entry)
    /\ d.startDtg \in BOOLEAN
ASSUME NoneAssumption == None \notin Nat

VARIABLES
  db,         \* latest, the records, and whether startDtg is there
  dbLock,     \* who has it open: "free", "estimator", "isolator"
  estimator,  \* the process in its agent: "none" or "spawned"
  asked,      \* a call of oversubscribable is in the mailbox
  series,     \* its TimeSeries: a function from times to counts
  misread,    \* history: a read of this agent has failed
  outcomes,   \* history: how calls on this database have ended
  estimate    \* history: the last request put to the scheduler

history == <<misread, outcomes, estimate>>

vars == <<db, dbLock, estimator, asked, series, history>>

EmptySeries == [t \in {} |-> 0]

Init ==
  /\ db \in Databases
  /\ dbLock = "free"
  /\ estimator = "none"
  /\ asked = FALSE
  /\ series = EmptySeries
  /\ misread = FALSE
  /\ outcomes = {}
  /\ estimate = None
-----------------------------------------------------------------------------
(***************************************************************************)
(* initialize opens the database, or ends the agent.  A second call is     *)
(* refused and changes nothing.                                            *)
(***************************************************************************)
initialize ==
  /\ estimator = "none"
  /\ dbLock = "free"
  /\ estimator' = "spawned"
  /\ dbLock' = "estimator"
  /\ UNCHANGED <<db, asked, series, history>>

oversubscribable ==
  /\ estimator = "spawned"
  /\ ~ asked
  /\ asked' = TRUE
  /\ UNCHANGED <<db, dbLock, estimator, series, history>>

LockStays ==   \* mutant: the database is not closed
  /\ estimator' = "none"
  /\ asked' = FALSE
  /\ series' = EmptySeries
  /\ misread' = FALSE
  /\ UNCHANGED dbLock

(***************************************************************************)
(* However the agent's process ends, the system closes its files.          *)
(***************************************************************************)
AgentEnds ==
  /\ estimator' = "none"
  /\ dbLock' = "free"
  /\ asked' = FALSE
  /\ series' = EmptySeries
  /\ misread' = FALSE

Killed ==
  /\ estimator = "spawned"
  /\ AgentEnds
  /\ UNCHANGED <<db, outcomes, estimate>>

(***************************************************************************)
(* The other user of the database, CpusetIsolatorProcess, which does not   *)
(* look at whether its write succeeds.                                     *)
(***************************************************************************)
IsolatorStarts ==
  /\ dbLock = "free"
  /\ dbLock' = "isolator"
  /\ db' \in {db, [db EXCEPT !.startDtg = TRUE]}
  /\ outcomes' = IF db' = db THEN outcomes ELSE {}
  /\ UNCHANGED <<estimator, asked, series, misread, estimate>>

IsolatorEnds ==
  /\ dbLock = "isolator"
  /\ dbLock' = "free"
  /\ UNCHANGED <<db, estimator, asked, series, history>>
-----------------------------------------------------------------------------
(***************************************************************************)
(* Seek goes to the first key that is not before latest; when Get has not  *)
(* found "latest" it is the empty string.                                  *)
(***************************************************************************)
NotBefore ==
  {k \in DOMAIN db.records : db.latest = None \/ k >= db.latest}

Key == Min(NotBefore)

Record == db.records[Key]

AtText == NotBefore = {} /\ (db.latest # None \/ db.startDtg)

AtEnd == NotBefore = {} /\ db.latest = None /\ ~ db.startDtg

Good(record, n) == \A i \in 1 .. n : record[i].kind = "sample"

Stops(record, kind) ==
  \E n \in 1 .. Len(record) : Good(record, n - 1) /\ record[n].kind = kind

(***************************************************************************)
(* TimeSeries::set for the samples up to the first entry that is none: the *)
(* last count for a time stays.                                            *)
(***************************************************************************)
Read(record) == {i \in 1 .. Len(record) : Good(record, i)}

ReadAt(record, t) == {i \in Read(record) : record[i].time = t}

SeriesWith(record) ==
  [t \in DOMAIN series \cup {record[i].time : i \in Read(record)} |->
     IF ReadAt(record, t) = {} THEN series[t]
     ELSE record[Max(ReadAt(record, t))].count]

SeriesRead == SeriesWith(Record)

Serving == estimator = "spawned" /\ asked

Reading == Serving /\ NotBefore # {}

Scanned == Reading /\ Good(Record, Len(Record))

Ended(how) == outcomes' = outcomes \cup {[end |-> how, misread |-> misread]}

Fails(how) ==
  /\ asked' = FALSE
  /\ Ended(how)
  /\ UNCHANGED <<db, dbLock, estimator, misread, estimate>>

Dies(how) ==
  /\ AgentEnds
  /\ Ended(how)
  /\ UNCHANGED db

(***************************************************************************)
(* The value of an iterator that is not valid is read through a null       *)
(* pointer.                                                                *)
(***************************************************************************)
SeekEnds ==
  /\ Serving
  /\ AtEnd
  /\ Dies("dead")
  /\ UNCHANGED estimate

(***************************************************************************)
(* Reads of the database that fail.  After a failed Get latest is empty,   *)
(* and Seek goes to the first record; an iterator skips the blocks it      *)
(* cannot read, to any record behind them.  The samples of that record     *)
(* come into the series before the call fails, at the status or because    *)
(* the key is not latest.  The iterator may also come to the text of       *)
(* "latest" or "startDtg", or to an end or an odd entry, of which the      *)
(* agent dies.                                                             *)
(***************************************************************************)
Misreads ==
  /\ Serving
  /\ asked' = FALSE
  /\ misread' = TRUE
  /\ \/ /\ db.latest # None \/ db.startDtg
        /\ UNCHANGED series
     \/ \E key \in DOMAIN db.records :
          /\ ~ Stops(db.records[key], "odd")
          /\ series' = SeriesWith(db.records[key])
  /\ UNCHANGED <<db, dbLock, estimator, outcomes, estimate>>

ReadError ==
  \/ Misreads
  \/ /\ Serving
     /\ AgentEnds
     /\ UNCHANGED <<db, outcomes, estimate>>

(***************************************************************************)
(* The values of "latest" and "startDtg" are numbers, not arrays.          *)
(***************************************************************************)
ParseRepeats ==   \* mutant: the loop goes on without moving the iterator
  /\ Serving
  /\ AtText
  /\ UNCHANGED vars

ParseFails ==
  /\ Serving
  /\ AtText
  /\ Fails("json parse failed!")
  /\ UNCHANGED series

EntryThrows ==
  /\ Reading
  /\ Stops(Record, "odd")
  /\ Dies("dead")
  /\ UNCHANGED estimate

ScanFails ==
  /\ Reading
  /\ Stops(Record, "wide")
  /\ series' = SeriesRead
  /\ Fails("leveldb scan failed!")

LatestMissing ==
  /\ Scanned
  /\ Key # db.latest
  /\ series' = SeriesRead
  /\ Fails("leveldb scan didn't find latest!")

NoSamplesBefore ==   \* mutant: size is asked before the record is read
  /\ Scanned
  /\ Key = db.latest
  /\ series' = SeriesRead
  /\ DOMAIN series = {}
  /\ Fails("no resources")

NoSamples ==
  /\ Scanned
  /\ Key = db.latest
  /\ series' = SeriesRead
  /\ DOMAIN series' = {}
  /\ Fails("no resources")
-----------------------------------------------------------------------------
(***************************************************************************)
(* The estimate is the number of cores with the largest core_ests, which   *)
(* is core times the Poisson probability of core.  For N samples, their    *)
(* sum T and the largest of them max, Likelihood is that times a factor    *)
(* all cores share,                                                        *)
(*   core_ests[core] * exp(T / N) * N^max * (max - 1)!                     *)
(* so that it is an integer, a product of max factors: T for each core     *)
(* asked for and N * (k - 1) for each k above.  Between equals rounding    *)
(* decides.                                                                *)
(***************************************************************************)
Total(s) == MapThenSumSet(LAMBDA t : s[t], DOMAIN s)

Largest(s) == Max({s[t] : t \in DOMAIN s})

Product(factor, n) ==
  LET p[k \in 0 .. n] == IF k = 0 THEN 1 ELSE factor[k] * p[k - 1]
  IN  p[n]

Probability(s, core) ==   \* mutant: without the factor core
  Product([k \in 1 .. Largest(s) |->
             IF k <= core THEN Total(s) ELSE Cardinality(DOMAIN s) * k],
          Largest(s))

Likelihood(s, core) ==
  Product([k \in 1 .. Largest(s) |->
             IF k <= core THEN Total(s) ELSE Cardinality(DOMAIN s) * (k - 1)],
          Largest(s))

Estimates(s) ==
  {core \in 1 .. Largest(s) :
     \A c \in 1 .. Largest(s) : Likelihood(s, c) <= Likelihood(s, core)}

(***************************************************************************)
(* With samples the agent always dies.  std::begin and std::end are taken  *)
(* of two copies of the series, and the copying from one to the other may  *)
(* end it at once.  Else the scheduler is asked for the estimate, or, when *)
(* no sample is above zero, for what lies behind the end of an empty map,  *)
(* and its policy dispatches to a null pointer.                            *)
(***************************************************************************)
HasSamples == Scanned /\ Key = db.latest /\ DOMAIN SeriesRead # {}

CopyOverruns ==
  /\ HasSamples
  /\ Dies("dead")
  /\ UNCHANGED estimate

Schedule ==
  /\ HasSamples
  /\ \/ Largest(SeriesRead) = 0 /\ UNCHANGED estimate
     \/ \E cores \in Estimates(SeriesRead) :
          estimate' = [cores |-> cores, misread |-> misread]
  /\ Dies("dead")

Serve ==
  \/ SeekEnds
  \/ ParseFails
  \/ EntryThrows
  \/ ScanFails
  \/ LatestMissing
  \/ NoSamples
  \/ CopyOverruns
  \/ Schedule

Next ==
  \/ initialize
  \/ oversubscribable
  \/ Serve
  \/ ReadError
  \/ Killed
  \/ IsolatorStarts
  \/ IsolatorEnds

(***************************************************************************)
(* libprocess serves a call that is in the mailbox.  It ends without the   *)
(* help of a read error.                                                   *)
(***************************************************************************)
Spec == Init /\ [][Next]_vars /\ WF_vars(Serve)
-----------------------------------------------------------------------------
Failures == {"json parse failed!", "leveldb scan failed!",
             "leveldb scan didn't find latest!"}

(***************************************************************************)
(* The types; the process holds the lock while it runs and nothing of it   *)
(* is left after its agent.                                                *)
(***************************************************************************)
TypeOK ==
  /\ dbLock \in {"free", "estimator", "isolator"}
  /\ estimator \in {"none", "spawned"}
  /\ estimator = "spawned" <=> dbLock = "estimator"
  /\ asked \in BOOLEAN
  /\ \A t \in DOMAIN series : t \in Nat /\ series[t] \in Nat
  /\ misread \in BOOLEAN
  /\ estimator = "none" => ~ asked /\ DOMAIN series = {} /\ ~ misread
  /\ outcomes \subseteq
       [end : Failures \cup {"no resources", "dead"}, misread : BOOLEAN]
  /\ estimate \in {None} \cup [cores : Nat, misread : BOOLEAN]

(***************************************************************************)
(* The calls on one database whose own reads succeed all end in the same   *)
(* way: what an earlier call left in the series, in part or after a        *)
(* failure, does not show in a later one (lines 108-142), and an agent     *)
(* that died of the database is followed by agents that die of it.  Only   *)
(* samples of a failed read show: where there are none under latest, an    *)
(* agent with such a read behind it may die of them.                       *)
(***************************************************************************)
MisreadShows(other, call) ==
  other.end = "no resources" /\ call.end = "dead" /\ call.misread

CallsAgree ==
  \A a, b \in outcomes :
    a.end = b.end \/ MisreadShows(a, b) \/ MisreadShows(b, a)

(***************************************************************************)
(* What the scheduler is asked for by an agent of which no read has failed *)
(* is the mean of the latest samples, rounded up (or one more when it is   *)
(* whole), and no more than the largest of them, whatever calls came       *)
(* before (lines 119-127 and 148-206).  After a failed read there may be   *)
(* samples of other records among them, but the request is still no        *)
(* larger than some sample in the database.                                *)
(***************************************************************************)
LatestCount(t) ==
  LET list == db.records[db.latest]
  IN  list[Max({i \in DOMAIN list : list[i].time = t})].count

LatestTimes == {db.records[db.latest][i].time : i \in DOMAIN db.records[db.latest]}

MeanRoundedUp(cores) ==
  LET n == Cardinality(LatestTimes)
      sum == MapThenSumSet(LatestCount, LatestTimes)
  IN  /\ (cores - 1) * n <= sum /\ sum <= cores * n
      /\ \E t \in LatestTimes : cores <= LatestCount(t)

AtMostASample(cores) ==
  \E key \in DOMAIN db.records : \E i \in DOMAIN db.records[key] :
    /\ db.records[key][i].kind = "sample"
    /\ cores <= db.records[key][i].count

EstimateIsMeanRoundedUp ==
  estimate # None =>
    /\ ~ estimate.misread => MeanRoundedUp(estimate.cores)
    /\ AtMostASample(estimate.cores)

(***************************************************************************)
(* A call that is in the mailbox is served, or ends with the agent.        *)
(***************************************************************************)
EveryCallEnds == asked ~> ~ asked
=============================================================================
