------------------- MODULE CpusetResourceEstimatorProofs -------------------
(***************************************************************************)
(* Theorems about CpusetResourceEstimator, for any databases: any number   *)
(* of records, entries, times and counts.                                  *)
(*                                                                         *)
(* That calls agree rests on two facts.  Until a read fails, a call adds   *)
(* to the series nothing but times of the record that every call on this   *)
(* database reads (OfThisRecord), so that the series is empty after it if  *)
(* and only if the record has no samples; and the cases of Serve exclude   *)
(* each other, so that the database alone determines the outcome           *)
(* (Verdict).  After a failed read the series may have more times, which   *)
(* makes a difference to NoSamples only (Agrees).                          *)
(*                                                                         *)
(* The estimate is the mean because the likelihoods of two neighbouring    *)
(* numbers of cores are products that differ in one factor: the larger     *)
(* one has the sum of the samples where the smaller has core * n.  That    *)
(* the samples are the latest ones is an invariant (OfTheLatest), and      *)
(* that they are samples of the database at all, after any failed read,    *)
(* another (OfTheDatabase).                                                *)
(***************************************************************************)
EXTENDS CpusetResourceEstimator, FoldLemmas

(***************************************************************************)
(* What a call without a read error comes to.                              *)
(***************************************************************************)
Verdict ==
  IF NotBefore = {} THEN IF AtEnd THEN "dead" ELSE "json parse failed!"
  ELSE IF Stops(Record, "odd") THEN "dead"
  ELSE IF Stops(Record, "wide") THEN "leveldb scan failed!"
  ELSE IF Key # db.latest THEN "leveldb scan didn't find latest!"
  ELSE IF Len(Record) = 0 THEN "no resources"
  ELSE "dead"

Agrees(how, after) ==
  how = Verdict \/ (after /\ how = "dead" /\ Verdict = "no resources")

TimesOf(record) == {record[i].time : i \in Read(record)}

OfThisRecord ==
  ~ misread /\ DOMAIN series # {} =>
    NotBefore # {} /\ DOMAIN series \subseteq TimesOf(Record)

DatabaseIsTyped ==
  /\ db = [latest |-> db.latest, records |-> db.records, startDtg |-> db.startDtg]
  /\ db.latest \in Nat \cup {None}
  /\ DOMAIN db.records \subseteq Nat
  /\ \A k \in DOMAIN db.records : db.records[k] \in Seq(Entry)

InDatabase(n) ==
  \E key \in DOMAIN db.records : \E i \in DOMAIN db.records[key] :
    db.records[key][i].kind = "sample" /\ db.records[key][i].count = n

SeriesOfDatabase(s) ==
  /\ IsFiniteSet(DOMAIN s)
  /\ \A t \in DOMAIN s : t \in Nat /\ s[t] \in Nat /\ InDatabase(s[t])

OfTheDatabase == SeriesOfDatabase(series)

OutcomesAgree == \A o \in outcomes : Agrees(o.end, o.misread)

IInv ==
  /\ DatabaseIsTyped
  /\ TypeOK
  /\ OfThisRecord
  /\ OfTheDatabase
  /\ OutcomesAgree

-----------------------------------------------------------------------------
(***************************************************************************)
(* The least and the largest of natural numbers.                           *)
(***************************************************************************)
LEMMA MinIsMember ==
  ASSUME NEW S \in SUBSET Nat, S # {}
  PROVE  Min(S) \in S
<1>1. PICK x \in S : \A y \in S : ~ (y < x)
  BY LeastNatural
<1>2. \A y \in S : x <= y
  BY <1>1
<1> QED BY <1>2 DEF Min

LEMMA MaxIsMember ==
  ASSUME NEW n \in Nat, NEW S \in SUBSET (1 .. n), S # {}
  PROVE  Max(S) \in S
<1>1. S \subseteq Nat /\ \A i \in S : i <= n
  OBVIOUS
<1> QED BY <1>1, GreatestNatural

-----------------------------------------------------------------------------
(***************************************************************************)
(* The record that is read, and what of a record comes into the series.    *)
(***************************************************************************)
LEMMA RecordFacts ==
  ASSUME DatabaseIsTyped, NotBefore # {}
  PROVE  /\ Key \in DOMAIN db.records /\ Record = db.records[Key]
         /\ Record \in Seq(Entry) /\ Len(Record) \in Nat
<1>1. NotBefore \in SUBSET Nat
  BY DEF DatabaseIsTyped, NotBefore
<1>2. Key \in NotBefore
  BY <1>1, MinIsMember DEF Key
<1>3. Record \in Seq(Entry)
  BY <1>2 DEF DatabaseIsTyped, NotBefore, Record
<1> QED BY <1>2, <1>3 DEF NotBefore, Record

LEMMA ReadFacts ==
  ASSUME NEW record \in Seq(Entry), NEW i \in Read(record)
  PROVE  /\ i \in 1 .. Len(record) /\ record[i].kind = "sample"
         /\ record[i].time \in Nat /\ record[i].count \in Nat
<1>1. i \in 1 .. Len(record) /\ record[i].kind = "sample" /\ record[i] \in Entry
  BY DEF Read, Good
<1>2. record[i] \in Sample
  BY <1>1 DEF Entry
<1> QED BY <1>1, <1>2 DEF Sample

LEMMA TimesAreFinite ==
  ASSUME NEW record \in Seq(Entry)
  PROVE  IsFiniteSet(TimesOf(record))
<1>1. Read(record) \in SUBSET (1 .. Len(record)) /\ Len(record) \in Nat
  BY DEF Read
<1>2. IsFiniteSet(Read(record))
  <2>1. IsFiniteSet(1 .. Len(record))
    BY <1>1, FS_Interval
  <2> QED BY <1>1, <2>1, FS_Subset
<1> DEFINE times == [i \in Read(record) |-> record[i].time]
<1>3. times \in Surjection(Read(record), TimesOf(record))
  BY DEF Surjection, TimesOf
<1> HIDE DEF times
<1> QED BY <1>2, <1>3, FS_Surjection

LEMMA ReadingKeepsSeries ==
  ASSUME DatabaseIsTyped, OfTheDatabase, NEW key \in DOMAIN db.records,
         NEW record, record = db.records[key]
  PROVE  /\ DOMAIN SeriesWith(record) = DOMAIN series \cup TimesOf(record)
         /\ SeriesOfDatabase(SeriesWith(record))
<1> DEFINE s == SeriesWith(record)
<1>1. record \in Seq(Entry) /\ Len(record) \in Nat
  BY DEF DatabaseIsTyped
<1>2. DOMAIN s = DOMAIN series \cup TimesOf(record)
  BY DEF SeriesWith, TimesOf
<1>3. ASSUME NEW t \in DOMAIN s
      PROVE  t \in Nat /\ s[t] \in Nat /\ InDatabase(s[t])
  <2>1. CASE ReadAt(record, t) = {}
    <3>1. t \in DOMAIN series /\ s[t] = series[t]
      BY <2>1 DEF SeriesWith, ReadAt
    <3> QED BY <3>1 DEF OfTheDatabase, SeriesOfDatabase
  <2>2. CASE ReadAt(record, t) # {}
    <3> DEFINE i == Max(ReadAt(record, t))
    <3>1. ReadAt(record, t) \in SUBSET (1 .. Len(record))
      BY DEF ReadAt, Read
    <3>2. i \in ReadAt(record, t)
      BY <1>1, <2>2, <3>1, MaxIsMember
    <3>3. s[t] = record[i].count
      BY <2>2 DEF SeriesWith
    <3> HIDE DEF i, s
    <3>4. i \in Read(record) /\ record[i].time = t
      BY <3>2 DEF ReadAt
    <3>5. i \in DOMAIN record /\ record[i].kind = "sample"
          /\ record[i].time \in Nat /\ record[i].count \in Nat
      BY <1>1, <3>4, ReadFacts
    <3>6. InDatabase(s[t])
      BY <3>3, <3>5 DEF InDatabase
    <3> QED BY <3>3, <3>4, <3>5, <3>6
  <2> QED BY <2>1, <2>2
<1>4. IsFiniteSet(DOMAIN s)
  <2>1. IsFiniteSet(DOMAIN series) /\ IsFiniteSet(TimesOf(record))
    BY <1>1, TimesAreFinite DEF OfTheDatabase, SeriesOfDatabase
  <2> QED BY <1>2, <2>1, FS_Union
<1> HIDE DEF s
<1>5. SeriesOfDatabase(s)
  BY <1>3, <1>4 DEF SeriesOfDatabase
<1> QED BY <1>2, <1>5 DEF s

LEMMA ReadingThisRecord ==
  ASSUME IInv, NotBefore # {}
  PROVE  /\ SeriesOfDatabase(SeriesRead)
         /\ TimesOf(Record) \subseteq DOMAIN SeriesRead
         /\ ~ misread => DOMAIN SeriesRead = TimesOf(Record)
<1>1. /\ DOMAIN SeriesRead = DOMAIN series \cup TimesOf(Record)
      /\ SeriesOfDatabase(SeriesRead)
  BY RecordFacts, ReadingKeepsSeries DEF IInv, SeriesRead
<1> QED BY <1>1 DEF IInv, OfThisRecord

(***************************************************************************)
(* The first entry that is no sample is the only one at which the scan     *)
(* stops, and it stops at none when all are samples.                       *)
(***************************************************************************)
LEMMA StopsExclude ==
  ASSUME DatabaseIsTyped, NotBefore # {}
  PROVE  /\ ~ (Stops(Record, "odd") /\ Stops(Record, "wide"))
         /\ Good(Record, Len(Record)) =>
              /\ ~ Stops(Record, "odd") /\ ~ Stops(Record, "wide")
              /\ Read(Record) = 1 .. Len(Record)
<1>1. Len(Record) \in Nat
  BY RecordFacts
<1>2. ASSUME NEW n \in 1 .. Len(Record), Good(Record, n - 1), Record[n].kind # "sample",
             NEW m \in 1 .. Len(Record), Good(Record, m - 1), Record[m].kind # "sample"
      PROVE  m = n
  <2>1. ~ (m < n)
    <3>1. m < n => m \in 1 .. n - 1
      BY <1>1
    <3> QED BY <1>2, <3>1 DEF Good
  <2>2. ~ (n < m)
    <3>1. n < m => n \in 1 .. m - 1
      BY <1>1
    <3> QED BY <1>2, <3>1 DEF Good
  <2> QED BY <1>1, <2>1, <2>2
<1>3. ~ (Stops(Record, "odd") /\ Stops(Record, "wide"))
  BY <1>2 DEF Stops
<1>4. Good(Record, Len(Record)) => ~ Stops(Record, "odd") /\ ~ Stops(Record, "wide")
  BY DEF Good, Stops
<1>5. Good(Record, Len(Record)) => Read(Record) = 1 .. Len(Record)
  BY <1>1 DEF Good, Read
<1> QED BY <1>3, <1>4, <1>5

LEMMA EmptySeriesMeansEmptyRecord ==
  ASSUME IInv, Scanned
  PROVE  /\ DOMAIN SeriesRead = {} => Len(Record) = 0
         /\ ~ misread /\ Len(Record) = 0 => DOMAIN SeriesRead = {}
<1>1. /\ NotBefore # {} /\ Len(Record) \in Nat /\ Read(Record) = 1 .. Len(Record)
  BY RecordFacts, StopsExclude DEF IInv, Scanned, Reading
<1>2. /\ TimesOf(Record) \subseteq DOMAIN SeriesRead
      /\ ~ misread => DOMAIN SeriesRead = TimesOf(Record)
  BY <1>1, ReadingThisRecord
<1>3. TimesOf(Record) = {} <=> Read(Record) = {}
  BY DEF TimesOf
<1>4. Read(Record) = {} <=> Len(Record) = 0
  BY <1>1
<1> QED BY <1>2, <1>3, <1>4

LEMMA VerdictTyped ==
  Verdict \in Failures \cup {"no resources", "dead"}
BY DEF Verdict, Failures

LEMMA SameDatabase ==
  ASSUME UNCHANGED db
  PROVE  /\ Verdict' = Verdict /\ NotBefore' = NotBefore /\ Record' = Record
         /\ DatabaseIsTyped => DatabaseIsTyped'
         /\ \A record : TimesOf(record)' = TimesOf(record)
         /\ \A s : SeriesOfDatabase(s) => SeriesOfDatabase(s)'
         /\ \A how, after : Agrees(how, after) => Agrees(how, after)'
<1>1. /\ Verdict' = Verdict /\ NotBefore' = NotBefore /\ Record' = Record
      /\ DatabaseIsTyped => DatabaseIsTyped'
  BY DEF Verdict, NotBefore, AtEnd, Stops, Good, Key, Record, DatabaseIsTyped
<1>2. \A record : TimesOf(record)' = TimesOf(record)
  BY DEF TimesOf, Read, Good
<1>3. \A s : SeriesOfDatabase(s) => SeriesOfDatabase(s)'
  BY DEF SeriesOfDatabase, InDatabase
<1>4. \A how, after : Agrees(how, after) => Agrees(how, after)'
  BY <1>1 DEF Agrees
<1> QED BY <1>1, <1>2, <1>3, <1>4

-----------------------------------------------------------------------------
(***************************************************************************)
(* The two ways a call ends: with the agent, or with a failure.            *)
(***************************************************************************)
LEMMA EndedKeepsAgreement ==
  ASSUME IInv, UNCHANGED db, NEW how, Ended(how), Agrees(how, misread)
  PROVE  /\ OutcomesAgree'
         /\ outcomes' \subseteq
              [end : Failures \cup {"no resources", "dead"}, misread : BOOLEAN]
<1>1. outcomes' = outcomes \cup {[end |-> how, misread |-> misread]}
  BY DEF Ended
<1>2. how \in Failures \cup {"no resources", "dead"}
  BY VerdictTyped DEF Agrees
<1>3. OutcomesAgree'
  BY <1>1, SameDatabase DEF IInv, OutcomesAgree
<1>4. [end |-> how, misread |-> misread]
        \in [end : Failures \cup {"no resources", "dead"}, misread : BOOLEAN]
  BY <1>2 DEF IInv, TypeOK
<1> QED BY <1>1, <1>3, <1>4 DEF IInv, TypeOK

LEMMA EmptySeriesKeepsInv ==
  ASSUME DatabaseIsTyped', TypeOK', DOMAIN series' = {}, OutcomesAgree'
  PROVE  IInv'
<1>1. OfThisRecord'
  BY DEF OfThisRecord
<1>2. OfTheDatabase'
  <2>1. IsFiniteSet(DOMAIN series')
    BY FS_EmptySet
  <2> QED BY <2>1 DEF OfTheDatabase, SeriesOfDatabase
<1> QED BY <1>1, <1>2 DEF IInv

LEMMA DyingKeepsInv ==
  ASSUME IInv, NEW how, Agrees(how, misread), Dies(how),
         estimate' \in {None} \cup [cores : Nat, misread : BOOLEAN]
  PROVE  IInv'
<1>1. /\ UNCHANGED db /\ Ended(how) /\ estimator' = "none" /\ misread' = FALSE
      /\ dbLock' = "free" /\ asked' = FALSE /\ DOMAIN series' = {}
  BY DEF Dies, AgentEnds, EmptySeries
<1>2. DatabaseIsTyped'
  BY <1>1, SameDatabase DEF IInv
<1>3. TypeOK'
  BY <1>1, EndedKeepsAgreement DEF IInv, TypeOK
<1> QED BY <1>1, <1>2, <1>3, EndedKeepsAgreement, EmptySeriesKeepsInv

LEMMA FailingKeepsInv ==
  ASSUME IInv, Serving, NEW how, Agrees(how, misread), Fails(how),
         series' = series \/ (series' = SeriesRead /\ NotBefore # {})
  PROVE  IInv'
<1>1. /\ UNCHANGED <<db, dbLock, estimator, misread, estimate>>
      /\ Ended(how) /\ asked' = FALSE
  BY DEF Fails
<1>2. OfThisRecord' /\ OfTheDatabase'
  <2>1. CASE series' = series
    BY <1>1, <2>1, SameDatabase DEF IInv, OfThisRecord, OfTheDatabase
  <2>2. CASE series' = SeriesRead /\ NotBefore # {}
    <3>1. /\ SeriesOfDatabase(series')
          /\ ~ misread => DOMAIN series' = TimesOf(Record)
      BY <2>2, ReadingThisRecord
    <3>2. OfTheDatabase'
      BY <1>1, <3>1 DEF OfTheDatabase, SeriesOfDatabase, InDatabase
    <3>3. OfThisRecord'
      BY <1>1, <2>2, <3>1, SameDatabase DEF OfThisRecord
    <3> QED BY <3>2, <3>3
  <2> QED BY <2>1, <2>2
<1>3. \A t \in DOMAIN series' : t \in Nat /\ series'[t] \in Nat
  BY <1>2 DEF OfTheDatabase, SeriesOfDatabase
<1>4. TypeOK'
  BY <1>1, <1>3, EndedKeepsAgreement DEF IInv, TypeOK, Serving
<1> QED BY <1>1, <1>2, <1>4, SameDatabase, EndedKeepsAgreement DEF IInv

(***************************************************************************)
(* A failed read brings samples of some record into the series.            *)
(***************************************************************************)
LEMMA ReadErrorKeepsInv ==
  ASSUME IInv, ReadError
  PROVE  IInv'
<1>1. UNCHANGED <<db, outcomes, estimate>>
  BY DEF ReadError, Misreads
<1>2. DatabaseIsTyped' /\ OutcomesAgree'
  BY <1>1, SameDatabase DEF IInv, OutcomesAgree
<1>3. CASE Serving /\ AgentEnds
  <2>1. TypeOK' /\ DOMAIN series' = {}
    BY <1>1, <1>3 DEF IInv, TypeOK, AgentEnds, EmptySeries
  <2> QED BY <1>2, <2>1, EmptySeriesKeepsInv
<1>4. CASE Misreads
  <2>1. /\ Serving /\ asked' = FALSE /\ misread' = TRUE
        /\ UNCHANGED <<db, dbLock, estimator, outcomes, estimate>>
        /\ \/ series' = series
           \/ \E key \in DOMAIN db.records : series' = SeriesWith(db.records[key])
    BY <1>4 DEF Misreads
  <2>2. SeriesOfDatabase(series')
    BY <2>1, ReadingKeepsSeries DEF IInv, OfTheDatabase
  <2>3. OfTheDatabase'
    BY <2>1, <2>2 DEF OfTheDatabase, SeriesOfDatabase, InDatabase
  <2>4. TypeOK'
    <3>1. \A t \in DOMAIN series' : t \in Nat /\ series'[t] \in Nat
      BY <2>2 DEF SeriesOfDatabase
    <3> QED BY <2>1, <3>1 DEF IInv, TypeOK, Serving
  <2> QED BY <1>2, <2>1, <2>3, <2>4 DEF IInv, OfThisRecord
<1> QED BY <1>3, <1>4 DEF ReadError

(***************************************************************************)
(* The database alone determines how a call ends, unless a failed read has *)
(* left samples where there are none.                                      *)
(***************************************************************************)
LEMMA ScannedFacts ==
  ASSUME IInv, Scanned
  PROVE  /\ NotBefore # {} /\ Serving
         /\ ~ Stops(Record, "odd") /\ ~ Stops(Record, "wide")
BY StopsExclude DEF IInv, Scanned, Reading

LEMMA ServeKeepsInv ==
  ASSUME IInv, Serve
  PROVE  IInv'
<1>1. /\ estimate \in {None} \cup [cores : Nat, misread : BOOLEAN]
      /\ misread \in BOOLEAN /\ DatabaseIsTyped
  BY DEF IInv, TypeOK
<1>2. CASE SeekEnds
  <2>1. Agrees("dead", misread)
    BY <1>2 DEF SeekEnds, AtEnd, Verdict, Agrees
  <2> QED BY <1>1, <1>2, <2>1, DyingKeepsInv DEF SeekEnds
<1>3. CASE ParseFails
  <2>1. Agrees("json parse failed!", misread)
    BY <1>1, <1>3 DEF ParseFails, AtText, AtEnd, Verdict, Agrees
  <2> QED BY <1>3, <2>1, FailingKeepsInv DEF ParseFails
<1>4. CASE EntryThrows
  <2>1. Agrees("dead", misread)
    BY <1>4 DEF EntryThrows, Reading, Verdict, Agrees
  <2> QED BY <1>1, <1>4, <2>1, DyingKeepsInv DEF EntryThrows
<1>5. CASE ScanFails
  <2>1. Agrees("leveldb scan failed!", misread) /\ NotBefore # {} /\ Serving
    BY <1>1, <1>5, StopsExclude DEF ScanFails, Reading, Verdict, Agrees
  <2> QED BY <1>5, <2>1, FailingKeepsInv DEF ScanFails
<1>6. CASE LatestMissing
  <2>1. Agrees("leveldb scan didn't find latest!", misread) /\ NotBefore # {} /\ Serving
    BY <1>6, ScannedFacts DEF LatestMissing, Verdict, Agrees
  <2> QED BY <1>6, <2>1, FailingKeepsInv DEF LatestMissing
<1>7. CASE NoSamples
  <2>1. Agrees("no resources", misread) /\ NotBefore # {} /\ Serving
    BY <1>7, ScannedFacts, EmptySeriesMeansEmptyRecord DEF NoSamples, Verdict, Agrees
  <2> QED BY <1>7, <2>1, FailingKeepsInv DEF NoSamples
<1>8. ASSUME HasSamples
      PROVE  Agrees("dead", misread)
  BY <1>1, <1>8, ScannedFacts, EmptySeriesMeansEmptyRecord DEF HasSamples, Verdict, Agrees
<1>9. CASE CopyOverruns
  BY <1>1, <1>8, <1>9, DyingKeepsInv DEF CopyOverruns
<1>10. CASE Schedule
  <2>1. \A cores \in Estimates(SeriesRead) : cores \in Nat
    BY DEF Estimates
  <2>2. estimate' \in {None} \cup [cores : Nat, misread : BOOLEAN]
    BY <1>1, <1>10, <2>1 DEF Schedule
  <2> QED BY <1>8, <1>10, <2>2, DyingKeepsInv DEF Schedule
<1> QED BY <1>2, <1>3, <1>4, <1>5, <1>6, <1>7, <1>9, <1>10 DEF Serve

(***************************************************************************)
(* The steps that neither read nor end the agent, and the isolator's.      *)
(***************************************************************************)
LEMMA OthersKeepInv ==
  ASSUME IInv, initialize \/ oversubscribable \/ Killed \/ IsolatorEnds \/ UNCHANGED vars
  PROVE  IInv'
<1>1. UNCHANGED <<db, outcomes, estimate>>
  BY DEF initialize, oversubscribable, Killed, IsolatorEnds, vars, history
<1>2. DatabaseIsTyped' /\ OutcomesAgree'
  BY <1>1, SameDatabase DEF IInv, OutcomesAgree
<1>3. CASE Killed
  <2>1. TypeOK' /\ DOMAIN series' = {}
    BY <1>3 DEF IInv, TypeOK, Killed, AgentEnds, EmptySeries
  <2> QED BY <1>2, <2>1, EmptySeriesKeepsInv
<1>4. CASE initialize \/ oversubscribable \/ IsolatorEnds \/ UNCHANGED vars
  <2>1. UNCHANGED <<series, misread>>
    BY <1>4 DEF initialize, oversubscribable, IsolatorEnds, vars, history
  <2>2. OfThisRecord' /\ OfTheDatabase'
    BY <1>1, <2>1, SameDatabase DEF IInv, OfThisRecord, OfTheDatabase
  <2>3. TypeOK'
    <3>1. CASE initialize
      BY <3>1 DEF IInv, TypeOK, initialize, history
    <3>2. CASE oversubscribable
      BY <3>2 DEF IInv, TypeOK, oversubscribable, history
    <3>3. CASE IsolatorEnds
      BY <3>3 DEF IInv, TypeOK, IsolatorEnds, history
    <3>4. CASE UNCHANGED vars
      BY <3>4 DEF IInv, TypeOK, vars, history
    <3> QED BY <1>4, <3>1, <3>2, <3>3, <3>4
  <2> QED BY <1>2, <2>2, <2>3 DEF IInv
<1> QED BY <1>3, <1>4

LEMMA IsolatorStartsKeepsInv ==
  ASSUME IInv, IsolatorStarts
  PROVE  IInv'
<1>1. /\ dbLock = "free" /\ dbLock' = "isolator"
      /\ db' = db \/ db' = [db EXCEPT !.startDtg = TRUE]
      /\ outcomes' = IF db' = db THEN outcomes ELSE {}
      /\ UNCHANGED <<estimator, asked, series, misread, estimate>>
  BY DEF IsolatorStarts
<1>2. DatabaseIsTyped'
  <2>1. CASE db' = db
    BY <2>1, SameDatabase DEF IInv
  <2>2. CASE db' = [db EXCEPT !.startDtg = TRUE]
    <3>1. PICK l, rs, s : db = [latest |-> l, records |-> rs, startDtg |-> s]
      BY DEF IInv, DatabaseIsTyped
    <3>2. db' = [latest |-> l, records |-> rs, startDtg |-> TRUE]
      BY <2>2, <3>1
    <3>3. db.latest = l /\ db.records = rs
      BY <3>1
    <3>4. db'.latest = l /\ db'.records = rs /\ db'.startDtg = TRUE
      BY <3>2
    <3> QED BY <3>2, <3>3, <3>4 DEF IInv, DatabaseIsTyped
  <2> QED BY <1>1, <2>1, <2>2
<1>3. OutcomesAgree'
  <2>1. CASE db' = db
    BY <1>1, <2>1, SameDatabase DEF IInv, OutcomesAgree
  <2>2. CASE db' # db
    BY <1>1, <2>2 DEF OutcomesAgree
  <2> QED BY <2>1, <2>2
<1>4. DOMAIN series' = {}
  BY <1>1 DEF IInv, TypeOK
<1>5. TypeOK'
  BY <1>1 DEF IInv, TypeOK
<1> QED BY <1>2, <1>3, <1>4, <1>5, EmptySeriesKeepsInv

LEMMA InitEstablishesInv ==
  ASSUME Init
  PROVE  IInv
<1>1. DatabaseIsTyped
  BY DatabasesAssumption DEF Init, DatabaseIsTyped
<1>2. DOMAIN series = {} /\ TypeOK /\ OutcomesAgree
  BY DEF Init, EmptySeries, TypeOK, OutcomesAgree
<1>3. OfThisRecord /\ OfTheDatabase
  <2>1. IsFiniteSet(DOMAIN series)
    BY <1>2, FS_EmptySet
  <2> QED BY <1>2, <2>1 DEF OfThisRecord, OfTheDatabase, SeriesOfDatabase
<1> QED BY <1>1, <1>2, <1>3 DEF IInv

LEMMA StepKeepsInv ==
  ASSUME IInv, [Next]_vars
  PROVE  IInv'
BY ServeKeepsInv, ReadErrorKeepsInv, OthersKeepInv, IsolatorStartsKeepsInv DEF Next

LEMMA Inductive == Spec => []IInv
<1>1. Init => IInv
  BY InitEstablishesInv
<1>2. IInv /\ [Next]_vars => IInv'
  BY StepKeepsInv
<1> QED BY <1>1, <1>2, PTL DEF Spec

-----------------------------------------------------------------------------
(***************************************************************************)
(* The series keeps its type through every call, and the process has the   *)
(* database open exactly while it runs.                                    *)
(***************************************************************************)
THEOREM TypeCorrect == Spec => []TypeOK
<1>1. IInv => TypeOK
  BY DEF IInv
<1> QED BY <1>1, Inductive, PTL

(***************************************************************************)
(* The calls on one database whose own reads succeed end alike, for any    *)
(* database and any history of calls, failures, kills and failed reads     *)
(* before, but for an agent that dies of samples a failed read has left.   *)
(***************************************************************************)
THEOREM CallsDoAgree == Spec => []CallsAgree
<1>1. IInv => CallsAgree
  <2>1. ASSUME IInv, NEW a \in outcomes, NEW b \in outcomes, a.end # b.end
        PROVE  MisreadShows(a, b) \/ MisreadShows(b, a)
    <3>1. Agrees(a.end, a.misread) /\ Agrees(b.end, b.misread)
      BY <2>1 DEF IInv, OutcomesAgree
    <3>2. CASE a.end = Verdict
      BY <2>1, <3>1, <3>2 DEF Agrees, MisreadShows
    <3>3. CASE a.end # Verdict
      BY <2>1, <3>1, <3>3 DEF Agrees, MisreadShows
    <3> QED BY <3>2, <3>3
  <2> QED BY <2>1 DEF CallsAgree
<1> QED BY <1>1, Inductive, PTL

-----------------------------------------------------------------------------
(***************************************************************************)
(* The likelihood of core and that of core + 1 have all factors in common  *)
(* but one: N * core in the first and T in the second.                     *)
(***************************************************************************)
Factors(T, N, M, core) ==
  [k \in 1 .. M |-> IF k <= core THEN T ELSE N * (k - 1)]

LEMMA LikelihoodIsProduct ==
  ASSUME NEW s, NEW core, Largest(s) \in Nat
  PROVE  \E p : /\ Products(p, Factors(Total(s), Cardinality(DOMAIN s), Largest(s), core),
                            Largest(s))
                /\ Likelihood(s, core) = p[Largest(s)]
<1> DEFINE factor == Factors(Total(s), Cardinality(DOMAIN s), Largest(s), core)
           p == CHOOSE q : Products(q, factor, Largest(s))
<1>1. Products(p, factor, Largest(s))
  BY ProductsExist
<1>2. Likelihood(s, core) = Product(factor, Largest(s))
  BY DEF Likelihood, Factors
<1>3. Product(factor, Largest(s)) = p[Largest(s)]
  BY DEF Product, Products
<1> QED BY <1>1, <1>2, <1>3

LEMMA FactorsCompare ==
  ASSUME NEW T \in Nat \ {0}, NEW N \in Nat \ {0}, NEW M \in Nat,
         NEW core \in 1 .. M, core + 1 \in 1 .. M,
         NEW g, g = Factors(T, N, M, core), NEW h, h = Factors(T, N, M, core + 1)
  PROVE  /\ g[core + 1] = N * core /\ h[core + 1] = T
         /\ \A k \in 1 .. M : /\ g[k] \in Nat \ {0} /\ h[k] \in Nat \ {0}
                              /\ k # core + 1 => g[k] = h[k]
<1>1. g[core + 1] = N * core /\ h[core + 1] = T
  BY DEF Factors
<1>2. ASSUME NEW k \in 1 .. M
      PROVE  /\ g[k] \in Nat \ {0} /\ h[k] \in Nat \ {0}
             /\ k # core + 1 => g[k] = h[k]
  <2>1. CASE k <= core
    <3>1. k <= core + 1
      BY <2>1
    <3> QED BY <2>1, <3>1 DEF Factors
  <2>2. CASE k > core
    <3>1. k - 1 \in Nat \ {0}
      BY <2>2
    <3>2. N * (k - 1) \in Nat \ {0}
      BY <3>1, LargerFactors
    <3>3. g[k] = N * (k - 1)
      BY <2>2 DEF Factors
    <3>4. k # core + 1 => h[k] = N * (k - 1)
      BY <2>2 DEF Factors
    <3>5. k = core + 1 => h[k] = T
      BY DEF Factors
    <3> QED BY <3>2, <3>3, <3>4, <3>5
  <2> QED BY <2>1, <2>2
<1> QED BY <1>1, <1>2

LEMMA LikelihoodsCompare ==
  ASSUME NEW s, NEW core, Total(s) \in Nat \ {0}, Cardinality(DOMAIN s) \in Nat \ {0},
         Largest(s) \in Nat, core \in 1 .. Largest(s), core + 1 \in 1 .. Largest(s)
  PROVE  /\ Cardinality(DOMAIN s) * core # Total(s)
              => Likelihood(s, core) \in Nat /\ Likelihood(s, core + 1) \in Nat
         /\ Cardinality(DOMAIN s) * core < Total(s)
              => Likelihood(s, core) < Likelihood(s, core + 1)
         /\ Total(s) < Cardinality(DOMAIN s) * core
              => Likelihood(s, core + 1) < Likelihood(s, core)
<1> DEFINE T == Total(s)
           N == Cardinality(DOMAIN s)
           M == Largest(s)
           g == Factors(T, N, M, core)
           h == Factors(T, N, M, core + 1)
<1>1. PICK p : Products(p, g, M) /\ Likelihood(s, core) = p[M]
  BY LikelihoodIsProduct
<1>2. PICK q : Products(q, h, M) /\ Likelihood(s, core + 1) = q[M]
  BY LikelihoodIsProduct
<1>3. T \in Nat \ {0} /\ N \in Nat \ {0} /\ M \in Nat /\ core \in 1 .. M /\ core + 1 \in 1 .. M
  OBVIOUS
<1> HIDE DEF T, N, M
<1>4. /\ g[core + 1] = N * core /\ h[core + 1] = T
      /\ \A k \in 1 .. M : /\ g[k] \in Nat \ {0} /\ h[k] \in Nat \ {0}
                           /\ k # core + 1 => g[k] = h[k]
  BY <1>3, FactorsCompare
<1>5. N * core \in Nat
  BY <1>3
<1> HIDE DEF g, h
<1>6. ASSUME N * core < T
      PROVE  p[M] \in Nat /\ q[M] \in Nat /\ p[M] < q[M]
  <2>1. g[core + 1] < h[core + 1] /\ \A k \in 1 .. M : g[k] <= h[k]
    BY <1>3, <1>4, <1>5, <1>6
  <2> QED BY <1>1, <1>2, <1>3, <1>4, <2>1, ProductsGrow
<1>7. ASSUME T < N * core
      PROVE  p[M] \in Nat /\ q[M] \in Nat /\ q[M] < p[M]
  <2>1. h[core + 1] < g[core + 1] /\ \A k \in 1 .. M : h[k] <= g[k]
    BY <1>3, <1>4, <1>5, <1>7
  <2> QED BY <1>1, <1>2, <1>3, <1>4, <2>1, ProductsGrow
<1>8. N * core < T \/ T < N * core \/ N * core = T
  BY <1>3, <1>5
<1> QED BY <1>1, <1>2, <1>6, <1>7, <1>8 DEF T, N, M

(***************************************************************************)
(* The likeliest number of cores is the mean rounded up, or one more when  *)
(* it is whole, and no more than the largest count.                        *)
(***************************************************************************)
LEMMA LikeliestIsMean ==
  ASSUME NEW s, NEW S, DOMAIN s = S, IsFiniteSet(S), S # {}, \A t \in S : s[t] \in Nat,
         NEW e \in Estimates(s)
  PROVE  /\ (e - 1) * Cardinality(S) <= Sum(s, S)
         /\ Sum(s, S) <= e * Cardinality(S)
         /\ \E t \in S : e <= s[t]
<1> DEFINE T == Total(s)
           N == Cardinality(S)
           M == Largest(s)
           values == {s[t] : t \in S}
<1>1. T = Sum(s, S)
  BY DEF Total, Sum
<1>2. T \in Nat /\ \A t \in S : s[t] <= T
  BY <1>1, SumIsNatural, SumIsAboveEach
<1>3. M \in values /\ \A v \in values : v <= M
  <2>1. values \subseteq Nat /\ values # {} /\ \A v \in values : v <= T
    BY <1>2
  <2>2. M = Max(values)
    BY DEF Largest
  <2> HIDE DEF values, T, M
  <2> QED BY <1>2, <2>1, <2>2, GreatestNatural
<1>4. PICK m \in S : M = s[m]
  BY <1>3
<1>5. M \in Nat /\ M <= T /\ \A t \in S : s[t] <= M
  BY <1>2, <1>3, <1>4
<1>6. e \in 1 .. M /\ \A c \in 1 .. M : Likelihood(s, c) <= Likelihood(s, e)
  BY DEF Estimates
<1>7. T \in Nat \ {0} /\ N \in Nat \ {0}
  <2>1. N \in Nat /\ N # 0
    BY FS_CardinalityType, FS_EmptySet
  <2> HIDE DEF T, M
  <2> QED BY <1>2, <1>5, <1>6, <2>1
<1>8. T <= N * e
  <2>1. CASE e = M
    <3>1. Sum(s, S) <= N * M
      <4> HIDE DEF M
      <4> QED BY <1>5, SumIsBounded
    <3> QED BY <1>1, <2>1, <3>1
  <2>2. CASE e # M
    <3>1. e + 1 \in 1 .. M
      <4> HIDE DEF M
      <4> QED BY <1>5, <1>6, <2>2
    <3>2. /\ N * e < T => /\ Likelihood(s, e) < Likelihood(s, e + 1)
                          /\ Likelihood(s, e) \in Nat /\ Likelihood(s, e + 1) \in Nat
      BY <1>5, <1>6, <1>7, <3>1, LikelihoodsCompare
    <3>3. Likelihood(s, e + 1) <= Likelihood(s, e)
      BY <1>6, <3>1
    <3>4. ~ (N * e < T)
      BY <3>2, <3>3
    <3>5. N * e \in Nat
      <4> HIDE DEF N, M
      <4> QED BY <1>5, <1>6, <1>7
    <3> HIDE DEF N, T
    <3> QED BY <1>7, <3>4, <3>5
  <2> QED BY <2>1, <2>2
<1>9. N * (e - 1) <= T
  <2>1. CASE e = 1
    <3>1. N * (e - 1) = 0
      <4> HIDE DEF N
      <4> QED BY <1>7, <2>1
    <3> HIDE DEF T
    <3> QED BY <1>7, <3>1
  <2>2. CASE e # 1
    <3> DEFINE c == e - 1
    <3>1. c \in 1 .. M /\ c + 1 = e /\ c + 1 \in 1 .. M
      <4> HIDE DEF M
      <4> QED BY <1>5, <1>6, <2>2
    <3> HIDE DEF c
    <3>2. /\ T < N * c => /\ Likelihood(s, c + 1) < Likelihood(s, c)
                          /\ Likelihood(s, c) \in Nat /\ Likelihood(s, c + 1) \in Nat
      BY <1>5, <1>7, <3>1, LikelihoodsCompare
    <3>3. Likelihood(s, c) <= Likelihood(s, c + 1)
      BY <1>6, <3>1
    <3>4. ~ (T < N * c)
      BY <3>2, <3>3
    <3>5. N * c \in Nat
      <4> HIDE DEF N, M
      <4> QED BY <1>5, <1>7, <3>1
    <3>6. N * c <= T
      <4> HIDE DEF N, T
      <4> QED BY <1>7, <3>4, <3>5
    <3> QED BY <3>6 DEF c
  <2> QED BY <2>1, <2>2
<1>10. N * e = e * N /\ N * (e - 1) = (e - 1) * N
  <2> HIDE DEF N, M
  <2> QED BY <1>5, <1>6, <1>7
<1>11. e <= s[m]
  BY <1>4, <1>6
<1> HIDE DEF N, T
<1> QED BY <1>1, <1>4, <1>8, <1>9, <1>10, <1>11 DEF N

-----------------------------------------------------------------------------
(***************************************************************************)
(* What was put to the scheduler is an estimate from the samples under     *)
(* latest, and those alone: no write to the database changes them.         *)
(***************************************************************************)
LatestSeries == [t \in LatestTimes |-> LatestCount(t)]

FromLatest(cores) ==
  /\ db.latest \in DOMAIN db.records
  /\ \A i \in DOMAIN db.records[db.latest] : db.records[db.latest][i] \in Sample
  /\ LatestTimes # {}
  /\ cores \in Estimates(LatestSeries)

OfTheLatest ==
  estimate # None =>
    /\ ~ estimate.misread => FromLatest(estimate.cores)
    /\ AtMostASample(estimate.cores)

LEMMA SeriesIsLatest ==
  ASSUME IInv, HasSamples, ~ misread
  PROVE  /\ db.latest \in DOMAIN db.records
         /\ \A i \in DOMAIN db.records[db.latest] : db.records[db.latest][i] \in Sample
         /\ LatestTimes # {}
         /\ SeriesRead = LatestSeries
<1> DEFINE list == db.records[db.latest]
<1>1. /\ DatabaseIsTyped /\ NotBefore # {}
      /\ Good(Record, Len(Record)) /\ Key = db.latest /\ DOMAIN SeriesRead # {}
  BY DEF IInv, HasSamples, Scanned, Reading
<1>2. db.latest \in DOMAIN db.records
  BY <1>1, RecordFacts
<1>3. Record = list
  BY <1>1 DEF Record
<1>4. list \in Seq(Entry) /\ DOMAIN list = 1 .. Len(list) /\ Read(list) = DOMAIN list
  BY <1>1, <1>3, RecordFacts, StopsExclude
<1>5. ASSUME NEW i \in DOMAIN list
      PROVE  list[i] \in Sample
  <2>1. list[i].kind = "sample" /\ list[i] \in Entry
    BY <1>1, <1>3, <1>4, <1>5 DEF Good
  <2> QED BY <2>1 DEF Entry
<1>6. DOMAIN SeriesRead = LatestTimes
  BY <1>1, <1>3, <1>4, ReadingThisRecord DEF LatestTimes, TimesOf
<1>7. ASSUME NEW t \in LatestTimes
      PROVE  SeriesRead[t] = LatestCount(t)
  <2>1. ReadAt(list, t) = {i \in DOMAIN list : list[i].time = t}
    BY <1>4 DEF ReadAt
  <2>2. ReadAt(list, t) # {}
    BY <2>1, <1>7 DEF LatestTimes
  <2>3. SeriesRead[t] = list[Max(ReadAt(list, t))].count
    BY <1>3, <1>6, <2>2 DEF SeriesRead, SeriesWith
  <2> QED BY <2>1, <2>3 DEF LatestCount
<1>8. SeriesRead = LatestSeries
  <2>1. SeriesRead = [t \in DOMAIN SeriesRead |-> SeriesRead[t]]
    BY DEF SeriesRead, SeriesWith
  <2> QED BY <1>6, <1>7, <2>1 DEF LatestSeries
<1> QED BY <1>1, <1>2, <1>5, <1>6, <1>8

(***************************************************************************)
(* The keys and the records outlive every step.                            *)
(***************************************************************************)
LEMMA RecordsStay ==
  ASSUME IInv, [Next]_vars
  PROVE  /\ db'.latest = db.latest /\ db'.records = db.records
         /\ LatestTimes' = LatestTimes /\ LatestSeries' = LatestSeries
         /\ \A cores : FromLatest(cores) => FromLatest(cores)'
         /\ \A cores : AtMostASample(cores) => AtMostASample(cores)'
<1>1. db'.latest = db.latest /\ db'.records = db.records
  <2>1. CASE UNCHANGED db
    BY <2>1
  <2>2. CASE IsolatorStarts
    <3>1. db = [latest |-> db.latest, records |-> db.records, startDtg |-> db.startDtg]
      BY DEF IInv, DatabaseIsTyped
    <3> QED BY <2>2, <3>1 DEF IsolatorStarts
  <2>3. CASE initialize \/ oversubscribable \/ Killed \/ IsolatorEnds \/ UNCHANGED vars
    BY <2>1, <2>3 DEF initialize, oversubscribable, Killed, IsolatorEnds, vars, history
  <2>4. CASE Serve \/ ReadError
    BY <2>1, <2>4
    DEF Serve, ReadError, Misreads, SeekEnds, ParseFails, EntryThrows, ScanFails, LatestMissing,
        NoSamples, CopyOverruns, Schedule, Dies, Fails
  <2> QED BY <2>2, <2>3, <2>4 DEF Next
<1>2. LatestTimes' = LatestTimes
  BY <1>1 DEF LatestTimes
<1>3. \A t : LatestCount(t)' = LatestCount(t)
  BY <1>1 DEF LatestCount
<1>4. LatestSeries' = LatestSeries
  BY <1>2, <1>3 DEF LatestSeries
<1>5. \A cores : FromLatest(cores) => FromLatest(cores)'
  BY <1>1, <1>2, <1>4 DEF FromLatest, Estimates, Largest, Likelihood
<1>6. \A cores : AtMostASample(cores) => AtMostASample(cores)'
  BY <1>1 DEF AtMostASample
<1> QED BY <1>1, <1>2, <1>4, <1>5, <1>6

LEMMA EstimateIsAtMostASample ==
  ASSUME IInv, HasSamples, NEW cores \in Estimates(SeriesRead)
  PROVE  AtMostASample(cores)
<1>1. SeriesOfDatabase(SeriesRead) /\ DOMAIN SeriesRead # {}
  BY ReadingThisRecord DEF HasSamples, Scanned, Reading
<1>2. PICK t \in DOMAIN SeriesRead : cores <= SeriesRead[t]
  BY <1>1, LikeliestIsMean DEF SeriesOfDatabase
<1> QED BY <1>1, <1>2 DEF SeriesOfDatabase, InDatabase, AtMostASample

LEMMA StepKeepsEstimate ==
  ASSUME IInv, OfTheLatest, [Next]_vars
  PROVE  OfTheLatest'
<1>1. CASE estimate' = estimate
  BY <1>1, RecordsStay DEF OfTheLatest
<1>2. CASE estimate' # estimate
  <2>1. Schedule
    BY <1>2 DEF Next, vars, history, initialize, oversubscribable, Killed, IsolatorStarts,
                IsolatorEnds, Serve, ReadError, Misreads, SeekEnds, ParseFails, EntryThrows,
                ScanFails, LatestMissing, NoSamples, CopyOverruns, Fails
  <2>2. PICK cores \in Estimates(SeriesRead) :
          HasSamples /\ estimate' = [cores |-> cores, misread |-> misread]
    BY <1>2, <2>1 DEF Schedule
  <2>3. AtMostASample(cores)'
    BY <2>2, EstimateIsAtMostASample, RecordsStay
  <2>4. ~ misread => FromLatest(cores)'
    <3>1. ~ misread => FromLatest(cores)
      BY <2>2, SeriesIsLatest DEF FromLatest
    <3> QED BY <3>1, RecordsStay
  <2>5. estimate'.cores = cores /\ estimate'.misread = misread
    BY <2>2
  <2> QED BY <2>3, <2>4, <2>5 DEF OfTheLatest
<1> QED BY <1>1, <1>2

(***************************************************************************)
(* The sum that EstimateIsMeanRoundedUp takes is that of the series.       *)
(***************************************************************************)
LEMMA SumOfLatest ==
  ASSUME IsFiniteSet(LatestTimes)
  PROVE  MapThenSumSet(LatestCount, LatestTimes) = Sum(LatestSeries, LatestTimes)
<1> DEFINE S == LatestTimes
           h == LatestSeries
           Counted(iter) ==
             iter = [T \in SUBSET S |-> IF T = {} THEN 0
                                        ELSE LatestCount(Pick(T)) + iter[T \ {Pick(T)}]]
           iter == CHOOSE i : Counted(i)
<1>1. ASSUME NEW i
      PROVE  Counted(i) <=> SumsBelow(i, h, S)
  <2>1. ASSUME NEW T \in SUBSET S, T # {}
        PROVE  LatestCount(Pick(T)) = h[Pick(T)]
    <3>1. Pick(T) \in S
      BY <2>1 DEF Pick
    <3> QED BY <3>1 DEF LatestSeries
  <2> HIDE DEF S, h
  <2>2. [T \in SUBSET S |-> IF T = {} THEN 0
                            ELSE LatestCount(Pick(T)) + i[T \ {Pick(T)}]]
          = [T \in SUBSET S |-> IF T = {} THEN 0 ELSE h[Pick(T)] + i[T \ {Pick(T)}]]
    BY <2>1
  <2> QED BY <2>2 DEF SumsBelow, Sums
<1>2. Counted(iter)
  <2> HIDE DEF Counted
  <2>1. \E i : Counted(i)
    BY <1>1, SumsExist
  <2> QED BY <2>1
<1>3. MapThenSumSet(LatestCount, S) = iter[S]
  BY DEF MapThenSumSet, MapThenFoldSet, Pick
<1> HIDE DEF iter, Counted, h, S
<1>4. Sum(h, S) = iter[S]
  <2>1. SumsBelow(iter, h, S)
    BY <1>1, <1>2
  <2>2. IsFiniteSet(S)
    BY DEF S
  <2> QED BY <2>1, <2>2, SumIsOfSums
<1> QED BY <1>3, <1>4 DEF S, h

LEMMA LatestIsMean ==
  ASSUME IInv, NEW cores, FromLatest(cores)
  PROVE  MeanRoundedUp(cores)
<1> DEFINE list == db.records[db.latest]
           At(t) == {i \in DOMAIN list : list[i].time = t}
<1>2. /\ list \in Seq(Entry) /\ LatestTimes # {} /\ cores \in Estimates(LatestSeries)
      /\ \A i \in DOMAIN list : list[i].time \in Nat /\ list[i].count \in Nat
  BY DEF IInv, DatabaseIsTyped, FromLatest, Sample
<1>3. Len(list) \in Nat /\ DOMAIN list = 1 .. Len(list)
  BY <1>2
<1>4. IsFiniteSet(LatestTimes)
  <2>1. IsFiniteSet(DOMAIN list)
    BY <1>3, FS_Interval
  <2> DEFINE times == [i \in DOMAIN list |-> list[i].time]
  <2>2. times \in Surjection(DOMAIN list, LatestTimes)
    BY DEF Surjection, LatestTimes
  <2> HIDE DEF times, list
  <2> QED BY <2>1, <2>2, FS_Surjection
<1>5. ASSUME NEW t \in LatestTimes
      PROVE  LatestCount(t) \in Nat
  <2>1. At(t) \in SUBSET (1 .. Len(list)) /\ At(t) # {}
    BY <1>3 DEF LatestTimes
  <2>2. Max(At(t)) \in DOMAIN list
    <3> HIDE DEF At
    <3>1. Max(At(t)) \in At(t)
      BY <1>3, <2>1, MaxIsMember
    <3> QED BY <1>3, <2>1, <3>1
  <2>3. LatestCount(t) = list[Max(At(t))].count
    BY DEF LatestCount
  <2> HIDE DEF At, list
  <2> QED BY <1>2, <2>2, <2>3
<1>6. /\ DOMAIN LatestSeries = LatestTimes
      /\ \A t \in LatestTimes : LatestSeries[t] = LatestCount(t) /\ LatestSeries[t] \in Nat
  BY <1>5 DEF LatestSeries
<1>7. /\ (cores - 1) * Cardinality(LatestTimes) <= Sum(LatestSeries, LatestTimes)
      /\ Sum(LatestSeries, LatestTimes) <= cores * Cardinality(LatestTimes)
      /\ \E t \in LatestTimes : cores <= LatestSeries[t]
  BY <1>2, <1>4, <1>6, LikeliestIsMean
<1> QED BY <1>4, <1>6, <1>7, SumOfLatest DEF MeanRoundedUp

(***************************************************************************)
(* Whatever samples, failures, deaths and restarts came before, the        *)
(* scheduler is asked for the mean of the samples under latest, rounded    *)
(* up, and never for more than their largest count, by every agent of      *)
(* which no read has failed; and by no agent for more than the largest     *)
(* count in the database.                                                  *)
(***************************************************************************)
THEOREM EstimateIsTheMean == Spec => []EstimateIsMeanRoundedUp
<1>1. Init => OfTheLatest
  BY DEF Init, OfTheLatest
<1>2. IInv /\ OfTheLatest /\ [Next]_vars => OfTheLatest'
  BY StepKeepsEstimate
<1>3. IInv /\ OfTheLatest => EstimateIsMeanRoundedUp
  BY LatestIsMean DEF OfTheLatest, EstimateIsMeanRoundedUp
<1> QED BY <1>1, <1>2, <1>3, Inductive, PTL DEF Spec
=============================================================================
