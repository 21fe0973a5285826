---------------------------- MODULE ServerProofs ----------------------------
(***************************************************************************)
(* What holds of the rate limiter, the database, the HTTP API and the HTTP *)
(* server of the control plane for every limit, window, page size, queue   *)
(* capacity, resolution of the clock, hierarchy and role policy, and every *)
(* number of workers, sessions, versions, events, calls, connections and   *)
(* starts.                                                                 *)
(***************************************************************************)
EXTENDS RateLimiter, Persistence, ServerApi, HttpServer, FiniteSetTheorems,
        WellFoundedInduction, TLAPS

-----------------------------------------------------------------------------
(* Least and greatest elements, which the models take with CHOOSE. *)

\* A set of natural numbers that is not empty has a least element.
LEMMA LeastExists ==
    ASSUME NEW T \in SUBSET Nat, T # {}
    PROVE  \E x \in T : \A y \in T : x <= y
<1>1. PICK x \in T : \A y \in T : ~(<<y, x>> \in OpToRel(<, Nat))
  BY NatLessThanWellFounded, WFMin
<1>2. ASSUME NEW y \in T PROVE x <= y
  <2>1. x \in Nat /\ y \in Nat
    OBVIOUS
  <2>2. ~(y < x)
    BY <1>1, <2>1 DEF OpToRel
  <2>3. QED
    BY <2>1, <2>2
<1>3. QED
  BY <1>2

\* A set of natural numbers that is bounded and not empty has a greatest element,
\* which is what the maximum of the library denotes.
LEMMA MaxIsGreatest ==
    ASSUME NEW n \in Nat, NEW T \in SUBSET (0..n), T # {}
    PROVE  Max(T) \in T /\ \A y \in T : y <= Max(T)
<1> DEFINE D == {n - y : y \in T}
<1>1. D \in SUBSET Nat /\ D # {}
  <2>1. \A y \in T : n - y \in Nat
    OBVIOUS
  <2>2. QED
    BY <2>1
<1>2. PICK d \in D : \A e \in D : d <= e
  BY <1>1, LeastExists
<1>3. PICK x \in T : d = n - x
  BY <1>2
<1>4. ASSUME NEW y \in T PROVE x >= y
  <2>1. d <= n - y
    BY <1>2
  <2>2. QED
    BY <1>3, <2>1
<1>5. \E z \in T : \A y \in T : z >= y
  BY <1>4
<1>6. Max(T) \in T /\ \A y \in T : Max(T) >= y
  BY <1>5 DEF Max
<1>7. QED
  BY <1>6

-----------------------------------------------------------------------------
(* The rate limiter.  The history is the tail of the requests that passed; the
   ones that left it had expired by the latest time a passed request carried. *)

Departed == Len(passed) - Len(requests)

HistoryIsTail ==
    /\ Departed >= 0
    /\ \A k \in 1..Len(requests) : requests[k] = passed[Departed + k].at

PassedRequests == [at : 0..MaxTime, latest : 0..MaxTime]

DepartedExpired ==
    \A k \in 1..Departed : passed[k].at + Window <= passed[Len(passed)].latest

RateInv == RateTypeOK /\ HistoryIsTail /\ DepartedExpired /\ RateIsBounded

\* The times a request that passed is recorded with are times.
LEMMA PassedTimes ==
    ASSUME NEW q \in Seq(PassedRequests), NEW k \in 1..Len(q)
    PROVE  q[k].at \in 0..MaxTime /\ q[k].latest \in 0..MaxTime
<1>1. q[k] \in PassedRequests
  OBVIOUS
<1>2. QED
  BY <1>1 DEF PassedRequests

\* discardExpiredRequests removes a prefix of the history, all of it expired.
LEMMA UnexpiredIsSuffix ==
    ASSUME requests \in Seq(Nat), NEW now \in Nat, Window \in Nat
    PROVE  \E d \in 0..Len(requests) :
              /\ Unexpired(now) = SubSeq(requests, d + 1, Len(requests))
              /\ \A j \in 1..d : requests[j] + Window <= now
<1> DEFINE kept == {k \in 1..Len(requests) : requests[k] > now - Window}
<1>1. CASE kept = {}
  <2>1. Unexpired(now) = <<>>
    BY <1>1 DEF Unexpired
  <2>2. SubSeq(requests, Len(requests) + 1, Len(requests)) = <<>>
    OBVIOUS
  <2>3. \A j \in 1..Len(requests) : requests[j] + Window <= now
    BY <1>1
  <2>4. QED
    BY <2>1, <2>2, <2>3
<1>2. CASE kept # {}
  <2> DEFINE first == CHOOSE k \in kept : \A j \in kept : k <= j
  <2>1. kept \in SUBSET Nat
    OBVIOUS
  <2>2. \E k \in kept : \A j \in kept : k <= j
    BY <1>2, <2>1, LeastExists
  <2>3. first \in kept /\ \A j \in kept : first <= j
    BY <2>2
  <2>4. Unexpired(now) = SubSeq(requests, first, Len(requests))
    BY <1>2 DEF Unexpired
  <2>5. first \in 1..Len(requests)
    BY <2>3
  <2> HIDE DEF first
  <2>6. ASSUME NEW j \in 1..(first - 1) PROVE requests[j] + Window <= now
    <3>1. j \in 1..Len(requests) /\ j \notin kept
      BY <2>3, <2>5
    <3>2. QED
      BY <3>1
  <2>7. first - 1 \in 0..Len(requests) /\ (first - 1) + 1 = first
    BY <2>5
  <2>8. QED
    BY <2>4, <2>6, <2>7
<1>3. QED
  BY <1>1, <1>2

\* Every call of allow, in whatever order the workers reach the history, keeps the
\* limiter's invariant.
LEMMA StepRate == RateInv /\ [RateNext]_rateVars => RateInv'
<1> SUFFICES ASSUME RateInv, [RateNext]_rateVars PROVE RateInv'
  OBVIOUS
<1> USE RateAssumption DEF RateInv
<1>1. CASE Tick
  BY <1>1 DEF Tick, RateTypeOK, HistoryIsTail, DepartedExpired, RateIsBounded, Departed
<1>2. ASSUME NEW w \in RateWorkers, TakeRequest(w) PROVE RateInv'
  BY <1>2 DEF TakeRequest, RateTypeOK, HistoryIsTail, DepartedExpired, RateIsBounded, Departed,
              NoStamp
<1>3. ASSUME NEW w \in RateWorkers, Allow(w) \/ Refuse(w)
      PROVE  /\ stamp[w] \in 0..MaxTime /\ stamp' \in [RateWorkers -> 0..MaxTime \cup {NoStamp}]
             /\ UNCHANGED rateClock
             /\ \E d \in 0..Len(requests) :
                   /\ Unexpired(stamp[w]) = SubSeq(requests, d + 1, Len(requests))
                   /\ \A j \in 1..d : requests[j] + Window <= stamp[w]
  <2>1. /\ stamp[w] \in 0..MaxTime /\ stamp' \in [RateWorkers -> 0..MaxTime \cup {NoStamp}]
        /\ UNCHANGED rateClock
    BY <1>3 DEF Allow, Refuse, RateTypeOK, NoStamp
  <2>2. requests \in Seq(Nat) /\ stamp[w] \in Nat
    BY <2>1 DEF RateTypeOK
  <2>3. QED
    BY <2>1, <2>2, UnexpiredIsSuffix
<1>4. ASSUME NEW w \in RateWorkers, Refuse(w) PROVE RateInv'
  <2>1. PICK d \in 0..Len(requests) : Unexpired(stamp[w]) = SubSeq(requests, d + 1, Len(requests))
    BY <1>3, <1>4
  <2>2. Len(requests) <= MaxInWindow /\ Len(Unexpired(stamp[w])) >= MaxInWindow
    BY <1>4 DEF Refuse, HistoryFull, RateTypeOK
  <2>3. requests \in Seq(0..MaxTime) /\ Len(SubSeq(requests, d + 1, Len(requests))) = Len(requests) - d
    BY DEF RateTypeOK
  <2>4. d = 0
    BY <2>1, <2>2, <2>3
  <2>5. UNCHANGED requests
    BY <1>4, <2>1, <2>3, <2>4 DEF Refuse
  <2>6. UNCHANGED passed
    BY <1>4 DEF Refuse
  <2>7. QED
    BY <1>3, <1>4, <2>5, <2>6
       DEF RateTypeOK, HistoryIsTail, DepartedExpired, RateIsBounded, Departed
<1>5. ASSUME NEW w \in RateWorkers, Allow(w) PROVE RateInv'
  <2> DEFINE n == stamp[w]
             top == Latest(n)
             kept == Unexpired(n)
  <2>1. PICK d \in 0..Len(requests) :
            /\ kept = SubSeq(requests, d + 1, Len(requests))
            /\ \A j \in 1..d : requests[j] + Window <= n
    BY <1>3, <1>5
  <2>2. /\ n \in 0..MaxTime
        /\ requests \in Seq(0..MaxTime)
        /\ passed \in Seq(PassedRequests)
    BY <1>3, <1>5 DEF RateTypeOK, PassedRequests
  <2>3. /\ kept \in Seq(0..MaxTime)
        /\ Len(kept) = Len(requests) - d
        /\ \A k \in 1..Len(kept) : kept[k] = requests[k + d]
    BY <2>1, <2>2, SMTT(30)
  <2>4. /\ top \in 0..MaxTime
        /\ top >= n
        /\ passed # <<>> => top >= passed[Len(passed)].latest
    <3>1. passed # <<>> => passed[Len(passed)].latest \in 0..MaxTime
      <4>1. passed # <<>> => Len(passed) \in 1..Len(passed)
        BY <2>2
      <4>2. QED
        BY <2>2, <4>1, PassedTimes
    <3>2. QED
      BY <2>2, <3>1 DEF Latest
  <2>5. /\ requests' = Append(kept, n)
        /\ passed' = Append(passed, [at |-> n, latest |-> top])
        /\ Len(kept) < MaxInWindow
    BY <1>5, <2>3 DEF Allow, HistoryFull
  <2> HIDE DEF n, top, kept
  <2>6. /\ Len(requests') = Len(requests) - d + 1
        /\ \A k \in 1..(Len(requests) - d) : requests'[k] = requests[k + d]
        /\ requests'[Len(requests) - d + 1] = n
        /\ requests' \in Seq(0..MaxTime)
    BY <2>2, <2>3, <2>5
  <2>7. /\ Len(passed') = Len(passed) + 1
        /\ \A k \in 1..Len(passed) : passed'[k] = passed[k]
        /\ passed'[Len(passed) + 1].at = n
        /\ passed'[Len(passed) + 1].latest = top
        /\ passed' \in Seq(PassedRequests)
    <3>1. [at |-> n, latest |-> top] \in PassedRequests
      BY <2>2, <2>4 DEF PassedRequests
    <3>2. QED
      BY <2>2, <2>5, <3>1
  <2>8. RateTypeOK'
    <3>1. Len(requests') <= MaxInWindow
      BY <2>2, <2>3, <2>5, <2>6
    <3>2. rateClock' \in 0..MaxTime /\ stamp' \in [RateWorkers -> 0..MaxTime \cup {NoStamp}]
      BY <1>3, <1>5 DEF RateTypeOK
    <3>3. QED
      BY <2>6, <2>7, <3>1, <3>2 DEF RateTypeOK, PassedRequests
  <2>9. Departed' = Departed + d /\ Departed \in Nat /\ Len(passed) \in Nat /\ Len(requests) \in Nat
    <3>1. Len(passed) \in Nat /\ Len(requests) \in Nat
      BY <2>2
    <3>2. Departed >= 0
      BY DEF HistoryIsTail
    <3>3. QED
      BY <2>6, <2>7, <3>1, <3>2 DEF Departed
  <2>10. HistoryIsTail'
    <3> SUFFICES ASSUME NEW k \in 1..Len(requests') PROVE requests'[k] = passed'[Departed' + k].at
      BY <2>9 DEF HistoryIsTail
    <3>1. CASE k = Len(requests) - d + 1
      <4>1. Departed' + k = Len(passed) + 1
        BY <2>9, <3>1 DEF Departed
      <4>2. QED
        BY <2>6, <2>7, <3>1, <4>1
    <3>2. CASE k # Len(requests) - d + 1
      <4>1. k \in 1..(Len(requests) - d) /\ k + d \in 1..Len(requests)
        BY <2>6, <2>9, <3>2
      <4>2. Departed' + k = Departed + (k + d) /\ Departed' + k \in 1..Len(passed)
        BY <2>9, <4>1 DEF Departed
      <4>3. requests'[k] = requests[k + d]
        BY <2>6, <4>1
      <4>4. requests[k + d] = passed[Departed + (k + d)].at
        BY <4>1 DEF HistoryIsTail
      <4>5. passed'[Departed' + k] = passed[Departed' + k]
        BY <2>7, <4>2
      <4>6. QED
        BY <4>2, <4>3, <4>4, <4>5
    <3>3. QED
      BY <3>1, <3>2
  <2>11. DepartedExpired'
    <3> SUFFICES ASSUME NEW k \in 1..Departed'
                 PROVE  passed'[k].at + Window <= passed'[Len(passed')].latest
      BY DEF DepartedExpired
    <3>1. k \in 1..Len(passed) /\ passed'[k] = passed[k] /\ passed[k].at \in 0..MaxTime
      <4>1. k \in 1..Len(passed)
        BY <2>6, <2>7, <2>9 DEF Departed
      <4>2. QED
        BY <2>2, <2>7, <4>1, PassedTimes
    <3>2. passed[k].at + Window <= top
      <4>1. CASE k <= Departed
        <5>1. passed[k].at + Window <= passed[Len(passed)].latest /\ passed # <<>>
          BY <2>2, <3>1, <4>1 DEF DepartedExpired
        <5>2. passed[Len(passed)].latest \in 0..MaxTime
          <6>1. Len(passed) \in 1..Len(passed)
            BY <2>2, <3>1
          <6>2. QED
            BY <2>2, <6>1, PassedTimes
        <5>3. QED
          BY <2>4, <3>1, <5>1, <5>2
      <4>2. CASE k > Departed
        <5>1. k - Departed \in 1..d /\ k - Departed \in 1..Len(requests)
          BY <2>9, <4>2
        <5>2. requests[k - Departed] = passed[k].at
          BY <2>9, <5>1 DEF HistoryIsTail
        <5>3. passed[k].at + Window <= n
          BY <2>1, <5>1, <5>2
        <5>4. QED
          BY <2>2, <2>4, <3>1, <5>3
      <4>3. QED
        BY <2>9, <3>1, <4>1, <4>2
    <3>3. QED
      BY <2>7, <3>1, <3>2
  <2>12. RateIsBounded'
    <3> SUFFICES ASSUME NEW k \in 1..Len(passed') - MaxInWindow
                 PROVE  passed'[k + MaxInWindow].latest >= passed'[k].at + Window
      BY DEF RateIsBounded
    <3>1. CASE k + MaxInWindow = Len(passed')
      <4>1. Len(requests') <= MaxInWindow /\ Len(requests') \in Nat /\ Len(passed') \in Nat
        BY <2>8, SMTT(30) DEF RateTypeOK
      <4>2. k \in 1..Departed'
        BY <3>1, <4>1 DEF Departed
      <4>3. /\ passed'[k].at + Window <= passed'[Len(passed')].latest
            /\ passed'[k].at \in Int /\ passed'[Len(passed')].latest \in Int
        <5>1. k \in 1..Len(passed') /\ Len(passed') \in 1..Len(passed')
          BY <4>1, <4>2 DEF Departed
        <5>2. QED
          BY <2>7, <2>11, <4>2, <5>1, PassedTimes DEF DepartedExpired
      <4>4. QED
        BY <3>1, <4>3
    <3>2. CASE k + MaxInWindow # Len(passed')
      <4>1. /\ k \in 1..Len(passed) - MaxInWindow
            /\ k + MaxInWindow \in 1..Len(passed)
            /\ k \in 1..Len(passed)
        <5>1. Len(passed') = Len(passed) + 1 /\ Len(passed) \in Nat /\ MaxInWindow \in Nat \ {0}
          BY <2>7, <2>9
        <5>2. QED
          BY <3>2, <5>1
      <4>2. QED
        BY <2>7, <4>1 DEF RateIsBounded
    <3>3. QED
      BY <3>1, <3>2
  <2>13. QED
    BY <2>8, <2>10, <2>11, <2>12
<1>6. CASE UNCHANGED rateVars
  BY <1>6 DEF rateVars, RateTypeOK, HistoryIsTail, DepartedExpired, RateIsBounded, Departed
<1>7. QED
  BY <1>1, <1>2, <1>4, <1>5, <1>6 DEF RateNext

\* However the workers reorder the requests of a player, one request more than the
\* limit passes only when a window has gone by since the first of them, for every
\* limit, window and number of workers.
THEOREM BurstsAreLimited == RateSpec => []RateIsBounded
<1>1. RateInit => RateInv
  BY RateAssumption DEF RateInit, RateInv, RateTypeOK, HistoryIsTail, DepartedExpired,
                        RateIsBounded, Departed, NoStamp
<1>2. QED
  BY <1>1, StepRate, PTL DEF RateSpec, RateInv

-----------------------------------------------------------------------------
(* The database.  What the file and an open transaction hold, how a transaction
   relates to the file while each job runs, and how far a reader can have got. *)

Events == [seq : Nat, at : Nat, ms : Int]

Databases ==
    [schema : 0..latest_schema_version + 1, context : [Tables -> 0..MaxDbVersion],
     sessions : SUBSET DbSessions, audit : SUBSET Events, lastSequence : Nat]

Jobs ==
    [doing : {"down", "migrating", "idle", "replacing", "returning"},
     version : 0..MaxDbVersion, next : Nat \ {0}]

(* Every event has the number AUTOINCREMENT gave it and its time in milliseconds. *)
AuditOK(db) ==
    /\ IsFiniteSet(db.audit)
    /\ \A e \in db.audit : e.seq <= db.lastSequence /\ e.ms = ToUnixMilliseconds(e.at)

Whole(db) ==
    LET version == db.context["membership_contexts"]
    IN version # 0 => \A table \in Tables : db.context[table] = version

DatabaseTyped ==
    /\ disk \in Databases /\ txn \in Databases
    /\ job \in Jobs
    /\ ticks \in 0..MaxTicks /\ recorded \in 0..MaxEvents /\ starts \in 0..MaxStarts
    /\ dropped \in 0..recorded
    /\ cursor \in Nat
    /\ acked \in [version : 0..MaxDbVersion, sessions : SUBSET DbSessions]
    /\ early \in BOOLEAN /\ renumbered \in BOOLEAN

(* What a transaction has changed so far. *)
TransactionOK ==
    /\ AuditOK(disk) /\ AuditOK(txn)
    /\ txn.sessions = disk.sessions /\ txn.audit = disk.audit
    /\ job.doing \in {"down", "idle", "returning"} => txn = disk
    /\ job.doing = "migrating" =>
          txn.context = disk.context /\ (txn = disk \/ disk.schema < latest_schema_version)
    /\ job.doing = "replacing" =>
          /\ txn.lastSequence = disk.lastSequence
          /\ job.version > disk.context["membership_contexts"]
          /\ \A i \in 1..Len(ContextTables) :
                i < job.next => txn.context[ContextTables[i]] = job.version
    /\ job.doing = "returning" => disk.context["membership_contexts"] = job.version

ReaderOK ==
    ~renumbered =>
        /\ cursor <= disk.lastSequence
        /\ CursorMissesNothing

DatabaseInv ==
    /\ DatabaseTyped
    /\ TransactionOK
    /\ Whole(disk)
    /\ AcknowledgedIsKept
    /\ ~early
    /\ ReaderOK

\* The tables of a context, by name and by the order in which they are written.
LEMMA TableNames ==
    /\ Len(ContextTables) = 7
    /\ Tables = {ContextTables[i] : i \in 1..7}
    /\ ContextTables[1] = "membership_contexts"
    /\ "membership_contexts" \in Tables
<1>1. Len(ContextTables) = 7 /\ ContextTables[1] = "membership_contexts"
  BY DEF ContextTables
<1>2. QED
  BY <1>1 DEF Tables

\* Cutting a time to milliseconds keeps the order of times: an event in an earlier
\* millisecond is an earlier event (toUnixMilliseconds).
LEMMA MillisecondsOrder ==
    ASSUME NEW a \in Nat, NEW b \in Nat, ToUnixMilliseconds(a) < ToUnixMilliseconds(b)
    PROVE  a < b
<1> DEFINE d == TicksPerMs
           p == a \div d
           q == b \div d
<1>1. d \in Nat /\ d > 0
  BY PersistenceAssumption
<1>2. /\ p \in Int /\ a = d * p + (a % d) /\ a % d \in 0..(d - 1)
      /\ q \in Int /\ b = d * q + (b % d) /\ b % d \in 0..(d - 1)
  BY <1>1
<1>3. p < q
  BY DEF ToUnixMilliseconds
<1> HIDE DEF d, p, q
<1>4. d * q - d * p >= d
  <2>1. q - p - 1 \in Nat
    BY <1>2, <1>3
  <2>2. d * (q - p - 1) >= 0
    BY <1>1, <2>1
  <2>3. d * (q - p - 1) = d * q - d * p - d
    BY <1>1, <1>2
  <2>4. QED
    BY <1>1, <1>2, <2>2, <2>3
<1>5. d * p \in Int /\ d * q \in Int
  BY <1>1, <1>2
<1>6. QED
  BY <1>1, <1>2, <1>4, <1>5

\* The databases older programs leave behind satisfy the invariant.
LEMMA InitDatabase == PersistenceInit => DatabaseInv
<1> SUFFICES ASSUME PersistenceInit PROVE DatabaseInv
  OBVIOUS
<1> USE PersistenceAssumption
<1>1. PICK s \in 0..latest_schema_version + 1, v \in 0..1, a \in {{}, {Event(1, 0)}}, n \in 0..1 :
          disk = Database(s, v, a, n) /\ (a # {} => n = 1)
  BY DEF PersistenceInit, OlderDatabases, latest_schema_version
<1>2. Event(1, 0) \in Events /\ Event(1, 0).seq = 1
      /\ Event(1, 0).ms = ToUnixMilliseconds(Event(1, 0).at)
  BY DEF Event, Events, ToUnixMilliseconds
<1>3. a \in SUBSET Events /\ IsFiniteSet(a)
  <2>1. CASE a = {}
    BY <2>1, FS_EmptySet
  <2>2. CASE a = {Event(1, 0)}
    BY <1>2, <2>2, FS_Singleton
  <2>3. QED
    BY <1>1, <2>1, <2>2
<1>4. /\ disk.audit = a /\ disk.lastSequence = n /\ disk.sessions = {} /\ disk.schema = s
      /\ disk.context = [table \in Tables |-> v]
      /\ disk \in Databases
  BY <1>1, <1>3 DEF Database, Databases, latest_schema_version
<1>5. disk.context["membership_contexts"] = v
  BY <1>4, TableNames
<1>6. DatabaseTyped
  <2>1. disk \in Databases /\ txn \in Databases
    BY <1>4 DEF PersistenceInit
  <2>2. job \in Jobs
    BY DEF PersistenceInit, Job, Jobs
  <2>3. acked \in [version : 0..MaxDbVersion, sessions : SUBSET DbSessions]
    BY <1>5 DEF PersistenceInit
  <2>4. /\ ticks \in 0..MaxTicks /\ recorded \in 0..MaxEvents /\ starts \in 0..MaxStarts
        /\ dropped \in 0..recorded
    BY DEF PersistenceInit
  <2>5. cursor \in Nat
    BY <1>4 DEF PersistenceInit
  <2>6. early \in BOOLEAN /\ renumbered \in BOOLEAN
    BY DEF PersistenceInit
  <2>7. QED
    BY <2>1, <2>2, <2>3, <2>4, <2>5, <2>6 DEF DatabaseTyped
<1>7. AuditOK(disk)
  BY <1>1, <1>2, <1>3, <1>4 DEF AuditOK
<1>8. TransactionOK
  BY <1>7 DEF PersistenceInit, TransactionOK, Job
<1>9. Whole(disk) /\ AcknowledgedIsKept /\ ~early
  BY <1>4, <1>5 DEF PersistenceInit, Whole, AcknowledgedIsKept
<1>10. ReaderOK
  <2>1. cursor \in {0, n} /\ readEvents = {e \in a : e.seq <= cursor}
    BY <1>4 DEF PersistenceInit
  <2>2. \A e \in a : e.seq \in Nat
    BY <1>3 DEF Events
  <2>3. QED
    BY <1>4, <2>1, <2>2 DEF ReaderOK, CursorMissesNothing
<1>11. QED
  BY <1>6, <1>8, <1>9, <1>10 DEF DatabaseInv

\* A migration keeps the audit events and numbers the next one after them.
LEMMA MigratedIsSound ==
    ASSUME disk \in Databases, AuditOK(disk), disk.schema < latest_schema_version
    PROVE  /\ Migrated(disk) \in Databases
           /\ AuditOK(Migrated(disk))
           /\ Migrated(disk).context = disk.context
           /\ Migrated(disk).sessions = disk.sessions
           /\ Migrated(disk).audit = disk.audit
<1> DEFINE S == {0} \cup {e.seq : e \in disk.audit}
           m == Migrated(disk)
<1>1. disk.lastSequence \in Nat /\ disk.audit \in SUBSET Events
  BY DEF Databases
<1>2. \A e \in disk.audit : e.seq \in 0..disk.lastSequence
  BY <1>1 DEF AuditOK, Events
<1>3. S \in SUBSET (0..disk.lastSequence) /\ S # {}
  BY <1>1, <1>2
<1>4. Max(S) \in S /\ \A y \in S : y <= Max(S)
  BY <1>1, <1>3, MaxIsGreatest
<1>5. Max(S) \in Nat /\ \A e \in disk.audit : e.seq <= Max(S)
  <2>1. \A e \in disk.audit : e.seq \in S
    OBVIOUS
  <2> HIDE DEF S
  <2>2. \A e \in disk.audit : e.seq <= Max(S)
    BY <1>4, <2>1
  <2>3. Max(S) \in 0..disk.lastSequence
    BY <1>3, <1>4
  <2>4. QED
    BY <1>1, <2>2, <2>3
<1>6. /\ m.schema = disk.schema + 1 /\ m.context = disk.context
      /\ m.sessions = disk.sessions /\ m.audit = disk.audit
      /\ m.lastSequence \in {disk.lastSequence, Max(S)}
      /\ m = [schema |-> m.schema, context |-> m.context, sessions |-> m.sessions,
              audit |-> m.audit, lastSequence |-> m.lastSequence]
  <2>1. PICK n \in {disk.lastSequence, Max(S)} :
            m = [disk EXCEPT !.schema = disk.schema + 1, !.lastSequence = n]
    BY DEF Migrated
  <2> HIDE DEF S, m
  <2>2. QED
    BY <2>1 DEF Databases
<1> HIDE DEF m, S
<1>7. m \in Databases
  <2>1. m.schema \in 0..latest_schema_version + 1 /\ m.lastSequence \in Nat
    BY <1>1, <1>5, <1>6 DEF Databases, latest_schema_version
  <2>2. m.context \in [Tables -> 0..MaxDbVersion] /\ m.sessions \in SUBSET DbSessions
    BY <1>6 DEF Databases
  <2>3. QED
    BY <1>1, <1>6, <2>1, <2>2 DEF Databases
<1>8. AuditOK(m)
  BY <1>5, <1>6 DEF AuditOK
<1>9. QED
  BY <1>6, <1>7, <1>8 DEF m

\* auditEventsAfter returns the events that follow the cursor without a gap: what it
\* leaves out comes after everything it returns.
LEMMA PageHasNoGap ==
    ASSUME NEW events \in SUBSET Events, IsFiniteSet(events),
           NEW e \in events \ FirstOf(events), NEW f \in FirstOf(events)
    PROVE  e.seq > f.seq
<1> DEFINE Before(x) == {d \in events : d.seq < x.seq}
<1>1. \A x \in events : IsFiniteSet(Before(x)) /\ Cardinality(Before(x)) \in Nat
  <2>1. \A x \in events : Before(x) \subseteq events
    OBVIOUS
  <2>2. QED
    BY <2>1, FS_Subset, FS_CardinalityType
<1>2. f \in events /\ Cardinality(Before(f)) < PageLimit /\ ~(Cardinality(Before(e)) < PageLimit)
  BY DEF FirstOf
<1>3. e.seq \in Nat /\ f.seq \in Nat /\ \A d \in events : d.seq \in Nat
  BY <1>2 DEF Events
<1>4. ASSUME e.seq <= f.seq PROVE FALSE
  <2>1. Before(e) \subseteq Before(f)
    BY <1>3, <1>4
  <2>2. Cardinality(Before(e)) <= Cardinality(Before(f))
    BY <1>1, <1>2, <2>1, FS_Subset
  <2> HIDE DEF Before
  <2>3. QED
    BY <1>1, <1>2, <2>2, PersistenceAssumption
<1>5. QED
  BY <1>3, <1>4

\* Every statement, failure and end of the process keeps the database's invariant.
LEMMA StepDatabase == DatabaseInv /\ [PersistenceNext]_persistenceVars => DatabaseInv'
<1> SUFFICES ASSUME DatabaseInv, [PersistenceNext]_persistenceVars PROVE DatabaseInv'
  OBVIOUS
<1> USE PersistenceAssumption DEF DatabaseInv
<1> DEFINE mc == "membership_contexts"
<1>1. \A x : Job(x) = [doing |-> x, version |-> 0, next |-> 1]
  BY DEF Job
<1>2. /\ mc \in Tables
      /\ disk.context \in [Tables -> 0..MaxDbVersion] /\ txn.context \in [Tables -> 0..MaxDbVersion]
      /\ disk.lastSequence \in Nat /\ disk.sessions \in SUBSET DbSessions
      /\ disk.audit \in SUBSET Events
  BY TableNames DEF DatabaseTyped, Databases
<1>3. ASSUME UNCHANGED <<disk, cursor, readEvents, acked, early, renumbered>>
      PROVE  Whole(disk)' /\ AcknowledgedIsKept' /\ ~early' /\ ReaderOK'
  BY <1>3 DEF Whole, AcknowledgedIsKept, ReaderOK, CursorMissesNothing
<1>4. CASE OpenDatabase
  <2>1. DatabaseTyped'
    BY <1>1, <1>4 DEF OpenDatabase, DatabaseTyped, Jobs, databaseVars, readerVars, pastVars
  <2>2. TransactionOK'
    BY <1>1, <1>4 DEF OpenDatabase, TransactionOK, databaseVars, AuditOK
  <2>3. QED
    BY <1>3, <1>4, <2>1, <2>2 DEF OpenDatabase, databaseVars, readerVars, pastVars
<1>5. CASE ApplyMigration
  <2>1. txn' = Migrated(disk)
        /\ UNCHANGED <<disk, job, dropped, boundVars, readerVars, pastVars>>
    BY <1>5 DEF ApplyMigration, Begin
  <2>2. /\ txn' \in Databases /\ AuditOK(txn') /\ txn'.context = disk.context
        /\ txn'.sessions = disk.sessions /\ txn'.audit = disk.audit
    BY <1>5, <2>1, MigratedIsSound DEF ApplyMigration, DatabaseTyped, TransactionOK
  <2>3. DatabaseTyped'
    BY <2>1, <2>2 DEF DatabaseTyped, boundVars, readerVars, pastVars
  <2>4. TransactionOK'
    BY <1>5, <2>1, <2>2 DEF ApplyMigration, TransactionOK, AuditOK
  <2>5. QED
    BY <1>3, <2>1, <2>3, <2>4 DEF readerVars, pastVars
<1>6. CASE CommitMigration
  <2>1. /\ job.doing = "migrating" /\ disk' = txn
        /\ renumbered' = (renumbered \/ txn.lastSequence < disk.lastSequence)
        /\ UNCHANGED <<txn, job, dropped, boundVars, readerVars, acked, early>>
    BY <1>6 DEF CommitMigration, Commit
  <2>2. txn.context = disk.context /\ txn.sessions = disk.sessions /\ txn.audit = disk.audit
    BY <2>1 DEF TransactionOK
  <2>3. txn.lastSequence \in Nat
    BY DEF DatabaseTyped, Databases
  <2>4. DatabaseTyped'
    <3>1. renumbered' \in BOOLEAN
      BY <2>1
    <3>2. QED
      BY <2>1, <3>1 DEF DatabaseTyped, boundVars, readerVars
  <2>5. TransactionOK'
    BY <2>1, <2>2 DEF TransactionOK, AuditOK
  <2>6. Whole(disk)' /\ AcknowledgedIsKept' /\ ~early'
    BY <2>1, <2>2 DEF Whole, AcknowledgedIsKept
  <2>7. ReaderOK'
    <3> SUFFICES ASSUME ~renumbered' PROVE cursor' <= disk'.lastSequence /\ CursorMissesNothing'
      BY DEF ReaderOK
    <3>1. ~renumbered /\ ~(txn.lastSequence < disk.lastSequence)
      BY <2>1
    <3>2. cursor \in Nat /\ cursor <= disk.lastSequence /\ CursorMissesNothing
      BY <3>1 DEF ReaderOK, DatabaseTyped
    <3>3. cursor <= txn.lastSequence
      BY <1>2, <2>3, <3>1, <3>2
    <3>4. QED
      BY <2>1, <2>2, <3>2, <3>3 DEF CursorMissesNothing, readerVars
  <2>8. QED
    BY <2>4, <2>5, <2>6, <2>7
<1>7. CASE MigrationFails \/ KillProcess \/ UpsertFails
  <2>1. /\ txn' = disk /\ job' \in {Job("down"), Job("idle")}
        /\ UNCHANGED <<disk, dropped, boundVars, readerVars, pastVars>>
    BY <1>7 DEF MigrationFails, KillProcess, UpsertFails, RollBack
  <2>2. DatabaseTyped'
    BY <1>1, <2>1 DEF DatabaseTyped, Jobs, boundVars, readerVars, pastVars
  <2>3. TransactionOK'
    BY <1>1, <2>1 DEF TransactionOK, AuditOK
  <2>4. QED
    BY <1>3, <2>1, <2>2, <2>3 DEF readerVars, pastVars
<1>8. CASE Opened
  <2>1. /\ job' = Job("idle") /\ dropped' = 0 /\ txn = disk
        /\ UNCHANGED <<disk, txn, boundVars, readerVars, pastVars>>
    BY <1>8 DEF Opened, databaseVars, TransactionOK, latest_schema_version
  <2>2. DatabaseTyped'
    BY <1>1, <2>1 DEF DatabaseTyped, Jobs, boundVars, readerVars, pastVars
  <2>3. TransactionOK'
    BY <1>1, <2>1 DEF TransactionOK, AuditOK
  <2>4. QED
    BY <1>3, <2>1, <2>2, <2>3 DEF readerVars, pastVars
<1>9. ASSUME NEW version \in 1..MaxDbVersion, UpsertIfNewer(version) PROVE DatabaseInv'
  <2>1. /\ job.doing = "idle" /\ version > disk.context[mc]
        /\ txn' = [disk EXCEPT !.context = NoRows]
        /\ job' = [doing |-> "replacing", version |-> version, next |-> 1]
        /\ UNCHANGED <<disk, dropped, boundVars, readerVars, pastVars>>
    BY <1>9 DEF UpsertIfNewer, Begin
  <2>2. NoRows \in [Tables -> 0..MaxDbVersion]
    BY DEF NoRows
  <2>3. /\ txn' \in Databases /\ txn'.sessions = disk.sessions /\ txn'.audit = disk.audit
        /\ txn'.lastSequence = disk.lastSequence
    BY <2>1, <2>2 DEF DatabaseTyped, Databases
  <2>4. DatabaseTyped'
    BY <2>1, <2>3 DEF DatabaseTyped, Jobs, boundVars, readerVars, pastVars
  <2>5. TransactionOK'
    BY <2>1, <2>3 DEF TransactionOK, AuditOK
  <2>6. QED
    BY <1>3, <2>1, <2>4, <2>5 DEF readerVars, pastVars
<1>10. CASE PersistTable
  <2> DEFINE table == ContextTables[job.next]
  <2>1. /\ job.doing = "replacing" /\ job.next <= Len(ContextTables)
        /\ txn' = [txn EXCEPT !.context[table] = job.version]
        /\ job' = [job EXCEPT !.next = @ + 1]
        /\ UNCHANGED <<disk, dropped, boundVars, readerVars, pastVars>>
    BY <1>10 DEF PersistTable, Begin
  <2>2. job \in Jobs /\ txn \in Databases
    BY DEF DatabaseTyped
  <2>3. /\ job' \in Jobs /\ job'.doing = "replacing" /\ job'.version = job.version
        /\ job'.next = job.next + 1 /\ job.next \in Nat \ {0} /\ job.version \in 0..MaxDbVersion
    BY <2>1, <2>2 DEF Jobs
  <2>4. table \in Tables
    BY <2>1, <2>3 DEF Tables
  <2> HIDE DEF table
  <2>5. /\ txn' \in Databases /\ txn'.sessions = txn.sessions /\ txn'.audit = txn.audit
        /\ txn'.lastSequence = txn.lastSequence
        /\ txn'.context = [txn.context EXCEPT ![table] = job.version]
    BY <2>1, <2>2, <2>3 DEF Databases
  <2>6. DatabaseTyped'
    BY <2>1, <2>3, <2>5 DEF DatabaseTyped, boundVars, readerVars, pastVars
  <2>7. ASSUME NEW i \in 1..Len(ContextTables), i < job.next + 1
        PROVE  txn'.context[ContextTables[i]] = job.version
    <3>1. ContextTables[i] \in Tables
      BY DEF Tables
    <3>2. CASE i = job.next
      BY <1>2, <2>4, <2>5, <3>2 DEF table
    <3>3. CASE i # job.next
      <4>1. i < job.next
        BY <2>3, <2>7, <3>3, TableNames
      <4>2. txn.context[ContextTables[i]] = job.version
        BY <2>1, <4>1 DEF TransactionOK
      <4>3. QED
        BY <1>2, <2>5, <3>1, <4>2
    <3>4. QED
      BY <3>2, <3>3
  <2>8. TransactionOK'
    BY <2>1, <2>3, <2>5, <2>7 DEF TransactionOK, AuditOK
  <2>9. QED
    BY <1>3, <2>1, <2>6, <2>8 DEF readerVars, pastVars
<1>11. CASE CommitContext
  <2>1. /\ job.doing = "replacing" /\ job.next > Len(ContextTables)
        /\ disk' = txn
        /\ job' = [job EXCEPT !.doing = "returning"]
        /\ UNCHANGED <<txn, dropped, boundVars, readerVars, pastVars>>
    BY <1>11 DEF CommitContext, Commit
  <2>2. job \in Jobs
    BY DEF DatabaseTyped
  <2>3. job' \in Jobs /\ job'.doing = "returning" /\ job'.version = job.version
        /\ job.next \in Nat
    BY <2>1, <2>2 DEF Jobs
  <2>4. \A t \in Tables : txn.context[t] = job.version
    <3>1. \A i \in 1..7 : txn.context[ContextTables[i]] = job.version
      BY <2>1, <2>3, TableNames DEF TransactionOK
    <3>2. QED
      BY <3>1, TableNames
  <2>5. /\ txn.sessions = disk.sessions /\ txn.audit = disk.audit
        /\ txn.lastSequence = disk.lastSequence /\ job.version > disk.context[mc]
    BY <2>1 DEF TransactionOK
  <2>6. DatabaseTyped'
    BY <2>1, <2>3 DEF DatabaseTyped, boundVars, readerVars, pastVars
  <2>7. TransactionOK'
    BY <1>2, <2>1, <2>3, <2>4 DEF TransactionOK, AuditOK
  <2>8. Whole(disk)' /\ ~early'
    BY <1>2, <2>1, <2>4 DEF Whole, pastVars
  <2>9. AcknowledgedIsKept'
    <3>1. disk.context[mc] \in Nat /\ job.version \in Nat /\ acked.version \in Nat
      BY <1>2, <2>2 DEF Jobs, DatabaseTyped
    <3>2. disk'.context[mc] = job.version
      BY <1>2, <2>1, <2>4
    <3>3. QED
      BY <2>1, <2>5, <3>1, <3>2 DEF AcknowledgedIsKept, pastVars
  <2>10. ReaderOK'
    BY <2>1, <2>5 DEF ReaderOK, CursorMissesNothing, readerVars, pastVars
  <2>11. QED
    BY <2>6, <2>7, <2>8, <2>9, <2>10
<1>12. CASE UpsertReturns
  <2>1. /\ job.doing = "returning" /\ acked' = [acked EXCEPT !.version = job.version]
        /\ job' = Job("idle")
        /\ UNCHANGED <<disk, txn, dropped, boundVars, readerVars, early, renumbered>>
    BY <1>12 DEF UpsertReturns, databaseVars
  <2>2. job.version \in 0..MaxDbVersion
    BY DEF DatabaseTyped, Jobs
  <2>3. /\ acked' \in [version : 0..MaxDbVersion, sessions : SUBSET DbSessions]
        /\ acked'.version = job.version /\ acked'.sessions = acked.sessions
    BY <2>1, <2>2 DEF DatabaseTyped
  <2>4. DatabaseTyped'
    BY <1>1, <2>1, <2>3 DEF DatabaseTyped, Jobs, boundVars, readerVars
  <2>5. TransactionOK'
    BY <1>1, <2>1 DEF TransactionOK, AuditOK
  <2>6. AcknowledgedIsKept'
    BY <2>1, <2>2, <2>3 DEF AcknowledgedIsKept, TransactionOK
  <2>7. Whole(disk)' /\ ~early' /\ ReaderOK'
    BY <2>1 DEF Whole, ReaderOK, CursorMissesNothing, readerVars
  <2>8. QED
    BY <2>4, <2>5, <2>6, <2>7
<1>13. ASSUME job.doing = "idle", disk' = txn', disk' \in Databases,
              disk'.audit = disk.audit, disk'.lastSequence = disk.lastSequence, Whole(disk'),
              acked' \in [version : 0..MaxDbVersion, sessions : SUBSET DbSessions],
              AcknowledgedIsKept',
              UNCHANGED <<job, dropped, boundVars, readerVars, early, renumbered>>
       PROVE  DatabaseInv'
  <2>1. DatabaseTyped'
    BY <1>13 DEF DatabaseTyped, boundVars, readerVars
  <2>2. TransactionOK'
    BY <1>13 DEF TransactionOK, AuditOK
  <2>3. ReaderOK' /\ ~early'
    BY <1>13 DEF ReaderOK, CursorMissesNothing, readerVars
  <2>4. QED
    BY <1>13, <2>1, <2>2, <2>3
<1>14. CASE EraseContext
  <2>1. /\ job.doing = "idle" /\ disk' = [disk EXCEPT !.context = NoRows] /\ txn' = disk'
        /\ acked' = [acked EXCEPT !.version = 0]
        /\ UNCHANGED <<job, dropped, boundVars, readerVars, early, renumbered>>
    BY <1>14 DEF EraseContext, Execute
  <2>2. NoRows \in [Tables -> 0..MaxDbVersion] /\ NoRows[mc] = 0
    BY <1>2 DEF NoRows
  <2>3. /\ disk' \in Databases /\ disk'.audit = disk.audit /\ disk'.sessions = disk.sessions
        /\ disk'.lastSequence = disk.lastSequence /\ disk'.context = NoRows
    BY <2>1, <2>2 DEF DatabaseTyped, Databases
  <2>4. /\ acked' \in [version : 0..MaxDbVersion, sessions : SUBSET DbSessions]
        /\ acked'.version = 0 /\ acked'.sessions = acked.sessions
    BY <2>1 DEF DatabaseTyped
  <2>5. Whole(disk') /\ AcknowledgedIsKept'
    BY <2>2, <2>3, <2>4 DEF Whole, AcknowledgedIsKept
  <2>6. QED
    BY <1>13, <2>1, <2>3, <2>4, <2>5
<1>15. ASSUME NEW s \in DbSessions, UpsertSession(s) \/ EraseStoredSession(s) PROVE DatabaseInv'
  <2>1. PICK new \in SUBSET DbSessions, told \in SUBSET DbSessions :
            /\ disk' = [disk EXCEPT !.sessions = new]
            /\ acked' = [acked EXCEPT !.sessions = told]
            /\ told \subseteq new
    <3>1. acked.sessions \in SUBSET DbSessions /\ acked.sessions \subseteq disk.sessions
      BY DEF DatabaseTyped, AcknowledgedIsKept
    <3>2. CASE UpsertSession(s)
      <4> DEFINE D == disk.sessions \cup {s}
                 A == acked.sessions \cup {s}
      <4>1. /\ disk' = [disk EXCEPT !.sessions = D]
            /\ acked' = [acked EXCEPT !.sessions = A]
        BY <3>2 DEF UpsertSession, Execute
      <4>2. D \in SUBSET DbSessions /\ A \in SUBSET DbSessions /\ A \subseteq D
        BY <1>2, <3>1
      <4> HIDE DEF D, A
      <4>3. QED
        BY <4>1, <4>2
    <3>3. CASE EraseStoredSession(s)
      <4> DEFINE D == disk.sessions \ {s}
                 A == acked.sessions \ {s}
      <4>1. /\ disk' = [disk EXCEPT !.sessions = D]
            /\ acked' = [acked EXCEPT !.sessions = A]
        BY <3>3 DEF EraseStoredSession, Execute
      <4>2. D \in SUBSET DbSessions /\ A \in SUBSET DbSessions /\ A \subseteq D
        BY <1>2, <3>1
      <4> HIDE DEF D, A
      <4>3. QED
        BY <4>1, <4>2
    <3>4. QED
      BY <1>15, <3>2, <3>3
  <2>2. /\ job.doing = "idle" /\ txn' = disk'
        /\ UNCHANGED <<job, dropped, boundVars, readerVars, early, renumbered>>
    BY <1>15 DEF UpsertSession, EraseStoredSession, Execute
  <2>3. /\ disk' \in Databases /\ disk'.audit = disk.audit /\ disk'.sessions = new
        /\ disk'.lastSequence = disk.lastSequence /\ disk'.context = disk.context
    BY <2>1 DEF DatabaseTyped, Databases
  <2>4. /\ acked' \in [version : 0..MaxDbVersion, sessions : SUBSET DbSessions]
        /\ acked'.version = acked.version /\ acked'.sessions = told
    BY <2>1 DEF DatabaseTyped
  <2>5. Whole(disk') /\ AcknowledgedIsKept'
    BY <2>1, <2>3, <2>4 DEF Whole, AcknowledgedIsKept
  <2>6. QED
    BY <1>13, <2>2, <2>3, <2>4, <2>5
<1>16. CASE RecordEvent
  <2> DEFINE e == Event(disk.lastSequence + 1, ticks)
  <2>1. /\ job.doing = "idle" /\ recorded < MaxEvents /\ recorded' = recorded + 1
        /\ disk' = [disk EXCEPT !.audit = @ \cup {e}, !.lastSequence = @ + 1] /\ txn' = disk'
        /\ UNCHANGED <<job, ticks, starts, dropped, readerVars, pastVars>>
    BY <1>16 DEF RecordEvent, Execute
  <2>2. /\ e \in Events /\ e.seq = disk.lastSequence + 1
        /\ e.ms = ToUnixMilliseconds(e.at)
    <3>1. ticks \in Nat
      BY DEF DatabaseTyped
    <3>2. ToUnixMilliseconds(ticks) \in Int
      BY <3>1 DEF ToUnixMilliseconds
    <3>3. QED
      BY <1>2, <3>1, <3>2 DEF Event, Events
  <2> HIDE DEF e
  <2>3. /\ disk' \in Databases /\ disk'.audit = disk.audit \cup {e}
        /\ disk'.sessions = disk.sessions /\ disk'.context = disk.context
        /\ disk'.lastSequence = disk.lastSequence + 1
    <3> DEFINE A == disk.audit \cup {e}
               n == disk.lastSequence + 1
    <3>1. A \in SUBSET Events /\ n \in Nat
      BY <1>2, <2>2
    <3>2. disk' = [disk EXCEPT !.audit = A, !.lastSequence = n]
      BY <2>1
    <3> HIDE DEF A, n
    <3>3. /\ disk' \in Databases /\ disk'.audit = A
          /\ disk'.sessions = disk.sessions /\ disk'.context = disk.context
          /\ disk'.lastSequence = n
      BY <3>1, <3>2 DEF DatabaseTyped, Databases
    <3>4. QED
      BY <3>3 DEF A, n
  <2>4. AuditOK(disk')
    <3>1. IsFiniteSet(disk'.audit)
      BY <2>3, FS_AddElement DEF TransactionOK, AuditOK
    <3>2. \A x \in disk.audit : x.seq <= disk.lastSequence + 1
      BY <1>2 DEF TransactionOK, AuditOK, Events
    <3>3. \A x \in disk.audit : x.ms = ToUnixMilliseconds(x.at)
      BY DEF TransactionOK, AuditOK
    <3>4. \A x \in disk'.audit : x \in disk.audit \/ x = e
      BY <2>3
    <3>5. disk.lastSequence + 1 <= disk.lastSequence + 1
      BY <1>2
    <3>6. QED
      BY <2>2, <2>3, <3>1, <3>2, <3>3, <3>4, <3>5 DEF AuditOK
  <2>5. DatabaseTyped'
    <3>1. recorded' \in 0..MaxEvents /\ dropped' \in 0..recorded'
      BY <2>1 DEF DatabaseTyped
    <3>2. QED
      BY <2>1, <2>3, <3>1 DEF DatabaseTyped, readerVars, pastVars
  <2>6. TransactionOK'
    BY <2>1, <2>3, <2>4 DEF TransactionOK
  <2>7. Whole(disk)' /\ AcknowledgedIsKept' /\ ~early'
    BY <2>1, <2>3 DEF Whole, AcknowledgedIsKept, pastVars
  <2>8. ReaderOK'
    <3>1. cursor \in Nat
      BY DEF DatabaseTyped
    <3>2. QED
      BY <1>2, <2>1, <2>2, <2>3, <3>1 DEF ReaderOK, CursorMissesNothing, readerVars, pastVars
  <2>9. QED
    BY <2>5, <2>6, <2>7, <2>8
<1>17. CASE RecordFails
  <2>1. /\ recorded < MaxEvents /\ recorded' = recorded + 1 /\ dropped' = dropped + 1
        /\ UNCHANGED <<disk, txn, job, ticks, starts, readerVars, pastVars>>
    BY <1>17 DEF RecordFails, databaseVars
  <2>2. DatabaseTyped'
    <3>1. recorded' \in 0..MaxEvents /\ dropped' \in 0..recorded'
      BY <2>1 DEF DatabaseTyped
    <3>2. QED
      BY <2>1, <3>1 DEF DatabaseTyped, readerVars, pastVars
  <2>3. TransactionOK'
    BY <2>1 DEF TransactionOK, AuditOK
  <2>4. QED
    BY <1>3, <2>1, <2>2, <2>3 DEF readerVars, pastVars
<1>18. CASE AuditEventsAfter
  <2> DEFINE later == {e \in disk.audit : e.seq > cursor}
             page == FirstOf(later)
             S == {e.seq : e \in page}
  <2>1. /\ page # {} /\ cursor' = Max(S) /\ readEvents' = readEvents \cup page
        /\ UNCHANGED <<disk, txn, job, dropped, boundVars, pastVars>>
    BY <1>18 DEF AuditEventsAfter, databaseVars
  <2>2. later \in SUBSET Events /\ IsFiniteSet(later) /\ page \subseteq later
    <3>1. later \subseteq disk.audit
      OBVIOUS
    <3>2. IsFiniteSet(disk.audit)
      BY DEF TransactionOK, AuditOK
    <3>3. IsFiniteSet(later)
      BY <3>1, <3>2, FS_Subset
    <3>4. QED
      BY <1>2, <3>1, <3>3 DEF FirstOf
  <2>3. \A e \in page : e.seq \in 0..disk.lastSequence
    BY <1>2, <2>2 DEF TransactionOK, AuditOK, Events
  <2>4. S \in SUBSET (0..disk.lastSequence) /\ S # {}
    BY <2>1, <2>3
  <2>5. cursor' \in S /\ \A y \in S : y <= cursor'
    BY <1>2, <2>1, <2>4, MaxIsGreatest
  <2>6. PICK f \in page : cursor' = f.seq
    BY <2>5
  <2>7. cursor' \in Nat /\ cursor' <= disk.lastSequence
    BY <1>2, <2>3, <2>6
  <2>8. DatabaseTyped'
    BY <2>1, <2>7 DEF DatabaseTyped, boundVars, pastVars
  <2>9. TransactionOK'
    BY <2>1 DEF TransactionOK, AuditOK
  <2>10. Whole(disk)' /\ AcknowledgedIsKept' /\ ~early'
    BY <2>1 DEF Whole, AcknowledgedIsKept, pastVars
  <2>11. ASSUME ~renumbered, NEW e \in disk.audit, e \notin readEvents, e \notin page
         PROVE  e.seq > cursor'
    <3>1. e \in later
      BY <2>11 DEF ReaderOK, CursorMissesNothing
    <3> HIDE DEF later
    <3>2. QED
      BY <2>2, <2>6, <2>11, <3>1, PageHasNoGap
  <2> HIDE DEF page
  <2>12. ReaderOK'
    BY <2>1, <2>7, <2>11 DEF ReaderOK, CursorMissesNothing, pastVars
  <2>13. QED
    BY <2>8, <2>9, <2>10, <2>12
<1>19. CASE EraseAuditEventsBefore
  <2> DEFINE cutoff == ticks - Retention
             page == FirstOf({e \in disk.audit : e.ms < ToUnixMilliseconds(cutoff)})
  <2>1. /\ job.doing = "idle" /\ cutoff >= 0
        /\ disk' = [disk EXCEPT !.audit = @ \ page] /\ txn' = disk'
        /\ early' = (early \/ \E e \in page : e.at >= cutoff)
        /\ UNCHANGED <<job, dropped, boundVars, readerVars, acked, renumbered>>
    BY <1>19 DEF EraseAuditEventsBefore, Execute
  <2>2. \A e \in page : e \in disk.audit /\ e.ms < ToUnixMilliseconds(cutoff)
    BY DEF FirstOf
  <2>3. cutoff \in Nat
    BY <2>1 DEF DatabaseTyped
  <2> HIDE DEF page, cutoff
  <2>4. ASSUME NEW e \in page PROVE ~(e.at >= cutoff)
    <3>1. e.at \in Nat /\ e.ms = ToUnixMilliseconds(e.at)
      BY <1>2, <2>2 DEF TransactionOK, AuditOK, Events
    <3>2. e.at < cutoff
      BY <2>2, <2>3, <3>1, MillisecondsOrder
    <3>3. QED
      BY <2>3, <3>1, <3>2
  <2>5. ~early' /\ early' \in BOOLEAN
    BY <2>1, <2>4
  <2>6. /\ disk' \in Databases /\ disk'.audit = disk.audit \ page
        /\ disk'.sessions = disk.sessions /\ disk'.context = disk.context
        /\ disk'.lastSequence = disk.lastSequence
    BY <1>2, <2>1 DEF DatabaseTyped, Databases
  <2>7. AuditOK(disk')
    <3>1. IsFiniteSet(disk'.audit)
      BY <2>6, FS_Subset DEF TransactionOK, AuditOK
    <3>2. QED
      BY <2>6, <3>1 DEF TransactionOK, AuditOK
  <2>8. DatabaseTyped'
    BY <2>1, <2>5, <2>6 DEF DatabaseTyped, boundVars, readerVars
  <2>9. TransactionOK'
    BY <2>1, <2>6, <2>7 DEF TransactionOK
  <2>10. Whole(disk)' /\ AcknowledgedIsKept'
    BY <2>1, <2>6 DEF Whole, AcknowledgedIsKept
  <2>11. ReaderOK'
    BY <2>1, <2>6 DEF ReaderOK, CursorMissesNothing, readerVars
  <2>12. QED
    BY <2>5, <2>8, <2>9, <2>10, <2>11
<1>20. CASE TimePasses
  <2>1. /\ ticks < MaxTicks /\ ticks' = ticks + 1
        /\ UNCHANGED <<disk, txn, job, starts, recorded, dropped, readerVars, pastVars>>
    BY <1>20 DEF TimePasses, databaseVars
  <2>2. DatabaseTyped'
    BY <2>1 DEF DatabaseTyped, readerVars, pastVars
  <2>3. TransactionOK'
    BY <2>1 DEF TransactionOK, AuditOK
  <2>4. QED
    BY <1>3, <2>1, <2>2, <2>3 DEF readerVars, pastVars
<1>21. CASE UNCHANGED persistenceVars
  <2>1. UNCHANGED <<disk, txn, job, dropped, boundVars, readerVars, pastVars>>
    BY <1>21 DEF persistenceVars, databaseVars
  <2>2. DatabaseTyped'
    BY <2>1 DEF DatabaseTyped, boundVars, readerVars, pastVars
  <2>3. TransactionOK'
    BY <2>1 DEF TransactionOK, AuditOK
  <2>4. QED
    BY <1>3, <2>1, <2>2, <2>3 DEF readerVars, pastVars
<1>22. QED
  BY <1>4, <1>5, <1>6, <1>7, <1>8, <1>9, <1>10, <1>11, <1>12, <1>14, <1>15, <1>16, <1>17, <1>18,
     <1>19, <1>20, <1>21 DEF PersistenceNext

\* The database's invariant holds in every reachable state.
LEMMA DatabaseInvariance == PersistenceSpec => []DatabaseInv
  BY InitDatabase, StepDatabase, PTL DEF PersistenceSpec

\* The state of the repository is well typed.
THEOREM RepositoryTypeCorrect == PersistenceSpec => []PersistenceTypeOK
<1>1. DatabaseInv => PersistenceTypeOK
  BY PersistenceAssumption
     DEF DatabaseInv, DatabaseTyped, TransactionOK, PersistenceTypeOK, Databases, Jobs
<1>2. QED
  BY <1>1, DatabaseInvariance, PTL

\* Whenever the process ends and whichever statement fails, the file holds a whole
\* context or none and everything a caller was told is written, no event is erased
\* early, and a reader that pages by sequence misses none: for every page size,
\* retention, resolution of the clock and number of restarts.
THEOREM RepositoryAlwaysReliable == PersistenceSpec => []RepositoryIsReliable
<1>1. DatabaseInv => RepositoryIsReliable
  BY DEF DatabaseInv, RepositoryIsReliable, ContextIsWhole, LoadMembershipContext, Whole, ReaderOK
<1>2. QED
  BY <1>1, DatabaseInvariance, PTL

-----------------------------------------------------------------------------
(* The router and the media rooms. *)

\* On paths of one hierarchy the id of a node names the whole path above it: to
\* share a scope's node is to belong to the scope (MembershipSnapshot's check).
LEMMA NodesNamePaths ==
    ASSUME NEW a, NEW b, FormsPath(a), FormsPath(b), NEW scope \in VoiceScopes
    PROVE  SameScopeNode(a, b, scope) <=> BelongsToScope(a, b, scope)
<1>1. CASE scope = "team"
  BY <1>1 DEF SameScopeNode, ScopeNodeId, BelongsToScope, FormsPath
<1>2. CASE scope = "specialization"
  BY <1>2 DEF SameScopeNode, ScopeNodeId, BelongsToScope, FormsPath
<1>3. CASE scope = "group"
  BY <1>3 DEF SameScopeNode, ScopeNodeId, BelongsToScope, FormsPath
<1>4. QED
  BY <1>1, <1>2, <1>3 DEF VoiceScopes

\* Whoever can hear a scope's room holds a token of it that says so.
LEMMA TokensOfRooms ==
    ASSUME NEW m, NEW scope, NEW node
    PROVE  (\E g \in Issue(m) : g.room = <<scope, node>> /\ g.subscribe)
              <=> scope \in DerivedReceive(m) /\ ScopeNodeId(m, scope) = node
<1>1. ASSUME NEW g \in Issue(m), g.room = <<scope, node>>, g.subscribe
      PROVE  scope \in DerivedReceive(m) /\ ScopeNodeId(m, scope) = node
  <2>1. PICK s \in DerivedTransmit(m) \cup DerivedReceive(m) :
          g = [scope |-> s, room |-> RoomFor(m, s), subscribe |-> s \in DerivedReceive(m)]
    BY <1>1 DEF Issue
  <2>2. <<s, ScopeNodeId(m, s)>> = <<scope, node>>
    BY <1>1, <2>1 DEF RoomFor
  <2>3. s = scope /\ ScopeNodeId(m, s) = node
    BY <2>2
  <2>4. s \in DerivedReceive(m)
    BY <1>1, <2>1
  <2>5. QED
    BY <2>3, <2>4
<1>2. ASSUME scope \in DerivedReceive(m), ScopeNodeId(m, scope) = node
      PROVE  \E g \in Issue(m) : g.room = <<scope, node>> /\ g.subscribe
  <2> DEFINE g == [scope |-> scope, room |-> RoomFor(m, scope),
                   subscribe |-> scope \in DerivedReceive(m)]
  <2>1. g \in Issue(m)
    BY <1>2 DEF Issue
  <2>2. g.room = <<scope, node>>
    BY <1>2 DEF RoomFor
  <2>3. g.subscribe
    BY <1>2
  <2> HIDE DEF g
  <2>4. QED
    BY <2>1, <2>2, <2>3
<1>3. QED
  BY <1>1, <1>2

\* In every snapshot whose memberships are paths of the hierarchy, the rooms
\* reach exactly the recipients the router lists, and the speaker limit counts
\* those who belong to the scope.
LEMMA ValidSnapshotReaches ==
    ASSUME NEW s, SnapshotValid(s)
    PROVE  RoomsReach(s)
<1> SUFFICES ASSUME NEW sender \in DOMAIN s.members, NEW scope \in VoiceScopes,
                    RoutingError(s, sender, scope, s.version) = "none"
             PROVE  /\ Recipients(s, sender, scope, {}) =
                         Audience(s, PublicationRoom(s, sender, scope))
                    /\ \E g \in Issue(s.members[sender]) :
                           g.room = PublicationRoom(s, sender, scope)
                    /\ \A p \in DOMAIN s.members :
                           SameScopeNode(s.members[sender], s.members[p], scope) <=>
                               BelongsToScope(s.members[sender], s.members[p], scope)
  BY DEF RoomsReach
<1> DEFINE me == s.members[sender]
           node == ScopeNodeId(me, scope)
<1>1. \A p \in DOMAIN s.members : FormsPath(s.members[p])
  BY DEF SnapshotValid
<1>2. \A p \in DOMAIN s.members :
          SameScopeNode(me, s.members[p], scope) <=> BelongsToScope(me, s.members[p], scope)
  BY <1>1, NodesNamePaths
<1>3. /\ scope \in DefinedScopes
      /\ ~me.muted /\ ~me.banned /\ CanTransmit(me.roles, scope)
  BY DEF RoutingError, Finds
<1>4. PublicationRoom(s, sender, scope) = <<scope, node>>
  BY DEF PublicationRoom
<1>5. \E g \in Issue(me) : g.room = <<scope, node>>
  <2> DEFINE g == [scope |-> scope, room |-> RoomFor(me, scope),
                   subscribe |-> scope \in DerivedReceive(me)]
  <2>1. scope \in DerivedTransmit(me)
    BY <1>3 DEF DerivedTransmit
  <2>2. g \in Issue(me)
    BY <2>1 DEF Issue
  <2>3. g.room = <<scope, node>>
    BY DEF RoomFor
  <2> HIDE DEF g
  <2>4. QED
    BY <2>2, <2>3
<1>6. ASSUME NEW p \in DOMAIN s.members
      PROVE  p \in Recipients(s, sender, scope, {}) <=> p \in Audience(s, <<scope, node>>)
  <2> DEFINE m == s.members[p]
  <2>1. p \in Audience(s, <<scope, node>>)
          <=> m.connected /\ scope \in DerivedReceive(m) /\ ScopeNodeId(m, scope) = node
    <3>1. GrantError(s, p) = "none" <=> m.connected
      BY DEF GrantError, Finds
    <3>2. QED
      BY <3>1, TokensOfRooms DEF Audience
  <2>2. scope \in DerivedReceive(m) <=> m.canReceive /\ CanReceive(m.roles, scope)
    BY <1>3 DEF DerivedReceive
  <2>3. p \in Recipients(s, sender, scope, {})
          <=> m.connected /\ m.canReceive /\ CanReceive(m.roles, scope) /\ BelongsToScope(me, m, scope)
    BY DEF Recipients, Hears, IsRestricted
  <2>4. ScopeNodeId(m, scope) = node <=> BelongsToScope(me, m, scope)
    BY <1>2 DEF SameScopeNode
  <2>5. QED
    BY <2>1, <2>2, <2>3, <2>4
<1>7. Recipients(s, sender, scope, {}) = Audience(s, <<scope, node>>)
  BY <1>6 DEF Recipients, Audience
<1>8. QED
  BY <1>2, <1>4, <1>5, <1>7

-----------------------------------------------------------------------------
(* The HTTP API: what a call is, at each of its phases. *)

CallFields == {"caller", "op", "fault", "session", "arg", "phase", "now", "player",
               "answer", "done", "outcome", "value"}
LibraryOps == {"login", "membership", "grants", "start", "end"}
Effects == {"login", "grants", "start", "end", "interrupt", "remove", "replace"}

CallShape(call) ==
    /\ DOMAIN call = CallFields
    /\ call.caller \in Callers
    /\ call.caller \in Library => call.op \in LibraryOps

(* What a success tells the caller was done. *)
Told(call) ==
    /\ call.op \in Effects => call.done.what = call.op
    /\ call.op \in {"start", "end"} => call.answer.body.id = call.done.id

(* The answer fits what the server did, and what the library demands of it. *)
Truthful(call) ==
    IF call.answer.status \in 200..299
    THEN Told(call) /\ (call.caller \in Library => BodyMatches(call))
    ELSE call.done = Nothing

Phases(call) ==
    \/ /\ call.phase \in {"sent", "authenticated", "found", "read"}
       /\ call.done = Nothing
       /\ call.outcome \in {"none", "transport"}
       /\ call.phase = "authenticated" => call.player \in ApiPlayers
       /\ call.phase = "found" => call.op = "remove"
       /\ call.phase = "read" => call.op = "replace" /\ SnapshotValid(call.value)
    \/ call.phase = "unsent" /\ call.outcome \in {"invalid_state", "invalid_argument"}
    \/ /\ call.phase = "answered"
       /\ \/ call.outcome = "none" /\ Truthful(call)
          \/ call.outcome = "transport"
          \/ call.outcome = "success" /\ Told(call)
          \/ call.outcome = "server" /\ call.done = Nothing

CallOK(call) == CallShape(call) /\ Phases(call)

Entries(s) == {s[n] : n \in 1..Len(s)}

CallsOK ==
    /\ calls \in Seq(Entries(calls))
    /\ \A n \in 1..Len(calls) : CallOK(calls[n])

RecordsOK ==
    /\ \A s \in DOMAIN apiSessions : apiSessions[s].player \in ApiPlayers
    /\ DOMAIN authority = ApiPlayers
    /\ \A p \in ApiPlayers : authority[p] = NoSnapshot \/ authority[p].version # 0

ApiInv == CallsOK /\ RecordsOK

\* A sequence is one of its own entries.
LEMMA OfItsEntries ==
    ASSUME NEW S, NEW t \in Seq(S)
    PROVE  t \in Seq(Entries(t))
  BY DEF Entries

\* A call more.
LEMMA CallAdded ==
    ASSUME NEW s, s \in Seq(Entries(s)), NEW e
    PROVE  /\ Append(s, e) \in Seq(Entries(Append(s, e)))
           /\ Len(Append(s, e)) = Len(s) + 1
           /\ \A n \in 1..Len(s) : Append(s, e)[n] = s[n]
           /\ Append(s, e)[Len(s) + 1] = e
<1> DEFINE S == Entries(s) \cup {e}
           t == Append(s, e)
<1>1. s \in Seq(S) /\ e \in S /\ Len(s) \in Nat
  OBVIOUS
<1> HIDE DEF S
<1>2. /\ t \in Seq(S) /\ Len(t) = Len(s) + 1
      /\ \A n \in 1..Len(s) : t[n] = s[n]
      /\ t[Len(s) + 1] = e
  BY <1>1
<1> HIDE DEF t
<1>3. t \in Seq(Entries(t))
  BY <1>2, OfItsEntries
<1>4. QED
  BY <1>2, <1>3 DEF t

\* Every code is answered with a status that is no success.
LEMMA ErrorsAreErrors ==
    ASSUME NEW code
    PROVE  StatusOf(code) \notin 200..299
<1>1. StatusOf(code) \in {400, 401, 403, 404, 409, 413, 429, 502, 503}
  BY DEF StatusOf
<1>2. QED
  BY <1>1

InCall(call) == call.done = Nothing /\ call.outcome \in {"none", "transport"}

\* What each call of the library demands of its answer.
Demanded(call, body) ==
    /\ call.op = "login" => body.device = call.caller
    /\ call.op = "membership" => body.version # 0 /\ body.player = call.player
    /\ call.op = "grants" => body.version # 0 /\ Cardinality(body.grants) \in 1..3
    /\ call.op = "start" => body.version = call.arg.version /\ body.scope = call.arg.scope
    /\ call.op = "end" => body.id = call.arg.id

\* An answer that meets the demands passes the checks of the library (responseRoot).
LEMMA DemandsMet ==
    ASSUME NEW call, call.op \in LibraryOps, NEW body, Demanded(call, body),
           NEW result, result.answer.body = body, result.op = call.op, result.caller = call.caller,
           result.player = call.player, result.arg = call.arg
    PROVE  BodyMatches(result)
<1>1. CASE call.op = "login"
  BY <1>1, Zenon DEF Demanded, BodyMatches
<1>2. CASE call.op = "membership"
  BY <1>2, Zenon DEF Demanded, BodyMatches
<1>3. CASE call.op = "grants"
  BY <1>3, Zenon DEF Demanded, BodyMatches
<1>4. CASE call.op = "start"
  BY <1>4, Zenon DEF Demanded, BodyMatches
<1>5. CASE call.op = "end"
  BY <1>5, Zenon DEF Demanded, BodyMatches
<1>6. QED
  BY <1>1, <1>2, <1>3, <1>4, <1>5 DEF LibraryOps

\* Whatever the server answers to a call with an error, it did nothing for it.
LEMMA ErrorIsTruthful ==
    ASSUME NEW call, CallShape(call), InCall(call), NEW status, NEW code,
           status \notin 200..299,
           NEW result,
           result = [call EXCEPT !.phase = "answered", !.now = {}, !.value = Nothing,
                        !.answer = IF call.outcome = "none"
                                   THEN [status |-> status, code |-> code, body |-> Nothing]
                                   ELSE NoAnswer]
    PROVE  CallOK(result)
<1>1. /\ DOMAIN result = CallFields
      /\ result.caller = call.caller /\ result.op = call.op
      /\ result.phase = "answered" /\ result.outcome = call.outcome /\ result.done = Nothing
      /\ call.outcome = "none" => result.answer = [status |-> status, code |-> code, body |-> Nothing]
  BY DEF CallShape, InCall, CallFields
<1>2. CallShape(result)
  BY <1>1 DEF CallShape
<1>3. call.outcome = "none" => result.answer.status = status
  BY <1>1
<1>4. call.outcome = "none" => Truthful(result)
  BY <1>1, <1>3 DEF Truthful
<1>5. Phases(result)
  BY <1>1, <1>4 DEF Phases, InCall
<1>6. QED
  BY <1>2, <1>5 DEF CallOK

\* A success is answered when what was done fits the call and its answer.
JsonAnswers(call, status, body, done, result) ==
    /\ DOMAIN result = CallFields
    /\ result.caller = call.caller /\ result.op = call.op /\ result.player = call.player
    /\ result.arg = call.arg
    /\ result.phase = "answered" /\ result.outcome = call.outcome /\ result.done = done
    /\ call.outcome = "none" => result.answer.status = status /\ result.answer.body = body

\* What jsonResponse makes of a call.
LEMMA JsonFields ==
    ASSUME NEW call, CallShape(call), NEW status, NEW body, NEW done,
           NEW result,
           result = [[call EXCEPT !.done = done] EXCEPT
                        !.phase = "answered", !.now = {}, !.value = Nothing,
                        !.answer = IF [call EXCEPT !.done = done].outcome = "none"
                                   THEN [status |-> status, code |-> "none", body |-> body]
                                   ELSE NoAnswer]
    PROVE  JsonAnswers(call, status, body, done, result)
<1>1. /\ DOMAIN result = CallFields
      /\ result.caller = call.caller /\ result.op = call.op /\ result.player = call.player
      /\ result.arg = call.arg
      /\ result.phase = "answered" /\ result.outcome = call.outcome /\ result.done = done
      /\ call.outcome = "none" =>
            result.answer = [status |-> status, code |-> "none", body |-> body]
  BY DEF CallShape, CallFields
<1>2. call.outcome = "none" => result.answer.status = status /\ result.answer.body = body
  BY <1>1
<1>3. QED
  BY <1>1, <1>2 DEF JsonAnswers

\* Then the call it answers is well formed.
LEMMA JsonIsTruthful ==
    ASSUME NEW call, CallShape(call), InCall(call), NEW status \in 200..299, NEW body, NEW done,
           NEW result, JsonAnswers(call, status, body, done, result),
           call.op \in Effects => done.what = call.op,
           call.op \in {"start", "end"} => body.id = done.id,
           call.caller \in Library => Demanded(call, body)
    PROVE  CallOK(result)
<1>1. /\ DOMAIN result = CallFields
      /\ result.caller = call.caller /\ result.op = call.op /\ result.player = call.player
      /\ result.arg = call.arg
      /\ result.phase = "answered" /\ result.outcome = call.outcome /\ result.done = done
  BY DEF JsonAnswers
<1>2. call.outcome = "none" => result.answer.status = status /\ result.answer.body = body
  BY DEF JsonAnswers
<1>3. call.outcome = "none" => Told(result)
  BY <1>1, <1>2 DEF Told
<1>4. call.caller \in Library => call.op \in LibraryOps
  BY DEF CallShape
<1>5. call.outcome = "none" /\ call.caller \in Library => BodyMatches(result)
  BY <1>1, <1>2, <1>4, DemandsMet
<1>6. CallShape(result)
  BY <1>1 DEF CallShape
<1>7. call.outcome = "none" => Truthful(result)
  BY <1>1, <1>2, <1>3, <1>5 DEF Truthful
<1>8. Phases(result)
  BY <1>1, <1>7 DEF Phases, InCall
<1>9. QED
  BY <1>6, <1>8 DEF CallOK

\* A call that is not answered yet is in progress.
LEMMA Underway ==
    ASSUME CallsOK, NEW n \in 1..Len(calls), calls[n].phase \in {"sent", "authenticated", "found", "read"}
    PROVE  /\ CallShape(calls[n]) /\ InCall(calls[n])
           /\ calls[n].phase = "authenticated" => calls[n].player \in ApiPlayers
           /\ calls[n].phase = "read" => SnapshotValid(calls[n].value)
<1>1. CallOK(calls[n])
  BY DEF CallsOK
<1>2. QED
  BY <1>1 DEF CallOK, Phases, InCall

AllOK(s) == s \in Seq(Entries(s)) /\ \A n \in 1..Len(s) : CallOK(s[n])

\* The calls stay well formed when one of them changes to a well-formed one.
LEMMA OneGoesOn ==
    ASSUME NEW s, AllOK(s), NEW n \in 1..Len(s), NEW c, CallOK(c), NEW t, t = [s EXCEPT ![n] = c]
    PROVE  AllOK(t)
<1> DEFINE S == Entries(s) \cup {c}
<1>1. s \in Seq(S) /\ c \in S /\ Len(s) \in Nat
  BY DEF AllOK
<1> HIDE DEF S
<1>2. /\ t \in Seq(S) /\ Len(t) = Len(s)
      /\ t[n] = c
      /\ \A k \in 1..Len(s) : k # n => t[k] = s[k]
  BY <1>1
<1>3. t \in Seq(Entries(t))
  BY <1>2, OfItsEntries
<1>4. \A k \in 1..Len(t) : CallOK(t[k])
  BY <1>2 DEF AllOK
<1>5. QED
  BY <1>3, <1>4 DEF AllOK

\* The same, of the calls the server has.
LEMMA CallGoesOn ==
    ASSUME CallsOK, NEW n \in 1..Len(calls), NEW c, CallOK(c), calls' = [calls EXCEPT ![n] = c]
    PROVE  CallsOK'
<1>1. AllOK(calls)
  BY DEF AllOK, CallsOK
<1>2. PICK t : t = calls'
  OBVIOUS
<1>3. AllOK(t)
  BY <1>1, <1>2, OneGoesOn
<1>4. QED
  BY <1>2, <1>3 DEF AllOK, CallsOK, Entries

\* An errorResponse, whatever its code, keeps the invariant.
LEMMA ErrorKeeps ==
    ASSUME ApiInv, NEW n \in 1..Len(calls), calls[n].phase \in {"sent", "authenticated", "found", "read"},
           NEW status, NEW code, status \notin 200..299, ErrorResponse(n, status, code)
    PROVE  ApiInv'
<1> DEFINE c == [calls[n] EXCEPT !.phase = "answered", !.now = {}, !.value = Nothing,
                        !.answer = IF calls[n].outcome = "none"
                                   THEN [status |-> status, code |-> code, body |-> Nothing]
                                   ELSE NoAnswer]
<1>1. CallsOK /\ calls' = [calls EXCEPT ![n] = c]
  BY DEF ErrorResponse, Answered, ApiInv
<1>2. CallOK(c)
  BY <1>1, Underway, ErrorIsTruthful
<1> HIDE DEF c
<1>3. CallsOK'
  BY <1>1, <1>2, CallGoesOn
<1>4. RecordsOK'
  BY DEF ErrorResponse, ApiInv, RecordsOK
<1>5. QED
  BY <1>3, <1>4 DEF ApiInv

\* A jsonResponse that fits the call keeps the calls well formed.
LEMMA JsonKeeps ==
    ASSUME CallsOK, NEW n \in 1..Len(calls), calls[n].phase \in {"sent", "authenticated", "found", "read"},
           NEW status \in 200..299, NEW body, NEW done, JsonResponse(n, status, body, done),
           calls[n].op \in Effects => done.what = calls[n].op,
           calls[n].op \in {"start", "end"} => body.id = done.id,
           calls[n].caller \in Library => Demanded(calls[n], body)
    PROVE  CallsOK'
<1> DEFINE c == [[calls[n] EXCEPT !.done = done] EXCEPT
                        !.phase = "answered", !.now = {}, !.value = Nothing,
                        !.answer = IF [calls[n] EXCEPT !.done = done].outcome = "none"
                                   THEN [status |-> status, code |-> "none", body |-> body]
                                   ELSE NoAnswer]
<1>1. calls' = [calls EXCEPT ![n] = c]
  BY DEF JsonResponse, Answered
<1>2. CallShape(calls[n]) /\ InCall(calls[n])
  BY Underway
<1>3. JsonAnswers(calls[n], status, body, done, c)
  BY <1>2, JsonFields
<1> HIDE DEF c
<1>4. CallOK(c)
  BY <1>2, <1>3, JsonIsTruthful
<1>5. QED
  BY <1>1, <1>4, CallGoesOn

-----------------------------------------------------------------------------
(* The steps of the callers. *)

\* A well-formed call more keeps the invariant.
LEMMA SendKeeps ==
    ASSUME ApiInv, NEW c, CallOK(c), Send(c)
    PROVE  ApiInv'
<1>1. calls \in Seq(Entries(calls)) /\ calls' = Append(calls, c)
  BY DEF ApiInv, CallsOK, Send
<1>2. PICK t : t = calls'
  OBVIOUS
<1>3. /\ t \in Seq(Entries(t)) /\ Len(t) = Len(calls) + 1
      /\ \A n \in 1..Len(calls) : t[n] = calls[n]
      /\ t[Len(calls) + 1] = c
  BY <1>1, <1>2, CallAdded
<1>4. Len(calls) \in Nat
  BY <1>1
<1>5. \A n \in 1..Len(t) : CallOK(t[n])
  <2>1. \A n \in 1..Len(t) : n \in 1..Len(calls) \/ n = Len(calls) + 1
    BY <1>3, <1>4
  <2>2. QED
    BY <1>3, <2>1 DEF ApiInv, CallsOK
<1>6. CallsOK'
  BY <1>2, <1>3, <1>5 DEF CallsOK, Entries
<1>7. RecordsOK'
  BY DEF Send, ApiInv, RecordsOK
<1>8. QED
  BY <1>6, <1>7 DEF ApiInv

\* A call that was just made is well formed.
LEMMA NewCallOK ==
    ASSUME NEW c \in Callers, NEW op, c \in Library => op \in LibraryOps,
           NEW fault, NEW session, NEW arg
    PROVE  CallOK(NewCall(c, op, fault, session, arg))
<1> DEFINE call == NewCall(c, op, fault, session, arg)
<1>1. /\ DOMAIN call = CallFields /\ call.caller = c /\ call.op = op
      /\ call.phase = "sent" /\ call.done = Nothing /\ call.outcome = "none"
  BY DEF NewCall, CallFields
<1> HIDE DEF call
<1>2. CallShape(call) /\ Phases(call)
  BY <1>1 DEF CallShape, Phases
<1>3. QED
  BY <1>2 DEF CallOK, call

\* A call the library refuses is told so by an outcome of its own.
LEMMA UnsentOK ==
    ASSUME NEW op \in LibraryOps, NEW session, NEW arg,
           NEW outcome \in {"invalid_state", "invalid_argument"}
    PROVE  CallOK([NewCall("user", op, "none", session, arg) EXCEPT
                      !.phase = "unsent", !.outcome = outcome])
<1> DEFINE call == [NewCall("user", op, "none", session, arg) EXCEPT
                      !.phase = "unsent", !.outcome = outcome]
<1>1. /\ DOMAIN call = CallFields /\ call.caller = "user" /\ call.op = op
      /\ call.phase = "unsent" /\ call.outcome = outcome
  BY DEF NewCall, CallFields
<1> HIDE DEF call
<1>2. CallShape(call) /\ Phases(call)
  BY <1>1 DEF CallShape, Phases, Callers
<1>3. QED
  BY <1>2 DEF CallOK, call

\* A call of the library is sent with its session or refused by the library itself.
LEMMA CallWithSessionKeeps ==
    ASSUME ApiInv, NEW op \in LibraryOps, NEW arg, CallWithSession(op, arg)
    PROVE  ApiInv'
<1>1. CASE held = 0
  <2>1. Send([NewCall("user", op, "none", 0, arg)
                EXCEPT !.phase = "unsent", !.outcome = "invalid_state"])
    BY <1>1 DEF CallWithSession
  <2>2. QED
    BY <2>1, UnsentOK, SendKeeps
<1>2. CASE held # 0
  <2>1. Send(NewCall("user", op, "none", held, arg))
    BY <1>2 DEF CallWithSession
  <2>2. CallOK(NewCall("user", op, "none", held, arg))
    BY NewCallOK DEF Callers
  <2>3. QED
    BY <2>1, <2>2, SendKeeps
<1>3. QED
  BY <1>1, <1>2

\* Whatever the user or the administrator asks keeps the invariant.
LEMMA CallersKeep ==
    ASSUME ApiInv
    PROVE  /\ UserCalls => ApiInv'
           /\ \A op : RawCall(op) => ApiInv'
<1>1. CASE CallLogin
  <2>1. CallOK(NewCall("user", "login", "none", 0, Nothing))
    BY NewCallOK DEF Callers, LibraryOps
  <2>2. QED
    BY <1>1, <2>1, SendKeeps DEF CallLogin
<1>2. CASE CallMembership
  BY <1>2, CallWithSessionKeeps DEF CallMembership, LibraryOps
<1>3. CASE CallGrants
  BY <1>3, CallWithSessionKeeps DEF CallGrants, LibraryOps
<1>4. ASSUME ClearSession PROVE ApiInv'
  BY <1>4 DEF ClearSession, ApiInv, CallsOK, RecordsOK
<1>5. ASSUME NEW id, CallEnd(id) PROVE ApiInv'
  BY <1>5, CallWithSessionKeeps DEF CallEnd, LibraryOps
<1>6. ASSUME NEW scope, NEW version, CallStart(scope, version) PROVE ApiInv'
  <2>1. CASE held # 0 /\ version = 0
    <3>1. Send([NewCall("user", "start", "none", held, [scope |-> scope, version |-> version])
                    EXCEPT !.phase = "unsent", !.outcome = "invalid_argument"])
      BY <1>6, <2>1 DEF CallStart
    <3>2. QED
      BY <3>1, UnsentOK, SendKeeps DEF LibraryOps
  <2>2. CASE ~(held # 0 /\ version = 0)
    <3>1. CallWithSession("start", [scope |-> scope, version |-> version])
      BY <1>6, <2>2 DEF CallStart
    <3>2. QED
      BY <3>1, CallWithSessionKeeps DEF LibraryOps
  <2>3. QED
    BY <2>1, <2>2
<1>7. ASSUME NEW op, RawCall(op) PROVE ApiInv'
  <2>1. \A fault, session, arg : CallOK(NewCall("admin", op, fault, session, arg))
    BY NewCallOK DEF Callers, Library
  <2>2. PICK fault, session, arg : Send(NewCall("admin", op, fault, session, arg))
    BY <1>7 DEF RawCall
  <2>3. QED
    BY <2>1, <2>2, SendKeeps
<1>8. QED
  BY <1>1, <1>2, <1>3, <1>4, <1>5, <1>6, <1>7 DEF UserCalls

-----------------------------------------------------------------------------
(* The steps of the server. *)

\* Errors: nothing is done, and the answer says so.
LEMMA Refused ==
    ASSUME ApiInv, NEW n \in 1..Len(calls), calls[n].phase \in {"sent", "authenticated", "found", "read"},
           NEW status \in {400, 404, 409, 429}, NEW code, ErrorResponse(n, status, code)
    PROVE  ApiInv'
<1>1. status \notin 200..299
  OBVIOUS
<1>2. QED
  BY <1>1, ErrorKeeps

\* Requests that reach no handler are refused without an effect.
LEMMA RefusalsKeep ==
    ASSUME ApiInv, NEW n \in 1..Len(calls),
           \/ ReadRequestFails(n) \/ SendOverloadResponse(n) \/ UnknownRoute(n) \/ AdminRefused(n)
    PROVE  ApiInv'
<1>1. CASE ReadRequestFails(n)
  BY <1>1, ErrorKeeps, ErrorsAreErrors DEF ReadRequestFails
<1>2. CASE SendOverloadResponse(n)
  BY <1>2, ErrorKeeps, ErrorsAreErrors DEF SendOverloadResponse
<1>3. CASE UnknownRoute(n)
  <2>1. calls[n].phase = "authenticated" /\ ErrorResponse(n, 404, "route_not_found")
    BY <1>3 DEF UnknownRoute, Handles
  <2>2. QED
    BY <2>1, Refused
<1>4. CASE AdminRefused(n)
  BY <1>4, ErrorKeeps, ErrorsAreErrors DEF AdminRefused
<1>5. QED
  BY <1>1, <1>2, <1>3, <1>4

\* What a handler that succeeds has to do so that the answer is true.
LEMMA SuccessKeeps ==
    ASSUME CallsOK, RecordsOK', NEW n \in 1..Len(calls),
           calls[n].phase \in {"sent", "authenticated", "found", "read"},
           NEW status \in {200, 201}, NEW body, NEW done, JsonResponse(n, status, body, done),
           calls[n].op \in Effects => done.what = calls[n].op,
           calls[n].op \in {"start", "end"} => body.id = done.id,
           calls[n].caller \in Library => Demanded(calls[n], body)
    PROVE  ApiInv'
<1>1. status \in 200..299
  OBVIOUS
<1>2. CallsOK'
  BY <1>1, JsonKeeps
<1>3. QED
  BY <1>2 DEF ApiInv

\* A login answers with the device that asked (POST /api/v1/sessions).
LEMMA LoginKeeps ==
    ASSUME ApiInv, NEW n \in 1..Len(calls), PostSession(n)
    PROVE  ApiInv'
<1>1. calls[n].phase = "sent" /\ calls[n].op = "login"
  BY DEF PostSession
<1>2. ASSUME NEW code, ErrorResponse(n, StatusOf(code), code) PROVE ApiInv'
  BY <1>1, <1>2, ErrorKeeps, ErrorsAreErrors
<1>3. ASSUME logins' = logins + 1,
             apiSessions' = [s \in DOMAIN apiSessions \cup {logins + 1} |->
                               IF s = logins + 1 THEN NewSession(calls[n]) ELSE apiSessions[s]],
             JsonResponse(n, 201, [session |-> logins + 1, device |-> NewSession(calls[n]).device,
                                   player |-> NewSession(calls[n]).player],
                          [what |-> "login", session |-> logins + 1]),
             UNCHANGED <<expired, authority, speaking, held>>
      PROVE  ApiInv'
  <2> DEFINE body == [session |-> logins + 1, device |-> NewSession(calls[n]).device,
                      player |-> NewSession(calls[n]).player]
             done == [what |-> "login", session |-> logins + 1]
  <2>1. CallsOK /\ CallShape(calls[n])
    BY <1>1, Underway DEF ApiInv
  <2>2. NewSession(calls[n]).player = calls[n].caller /\ NewSession(calls[n]).device = calls[n].caller
    BY DEF NewSession
  <2>3. calls[n].caller \in ApiPlayers
    BY <2>1, ApiAssumption DEF CallShape
  <2>4. \A s \in DOMAIN apiSessions' : apiSessions'[s].player \in ApiPlayers
    <3>1. PICK session : session = NewSession(calls[n])
      OBVIOUS
    <3>2. apiSessions' = [s \in DOMAIN apiSessions \cup {logins + 1} |->
                            IF s = logins + 1 THEN session ELSE apiSessions[s]]
      BY <1>3, <3>1
    <3>3. session.player \in ApiPlayers
      BY <2>2, <2>3, <3>1
    <3>4. ASSUME NEW s \in DOMAIN apiSessions' PROVE apiSessions'[s].player \in ApiPlayers
      <4>1. s \in DOMAIN apiSessions \cup {logins + 1}
        BY <3>2
      <4>2. CASE s = logins + 1
        BY <3>2, <3>3, <4>1, <4>2
      <4>3. CASE s # logins + 1
        BY <3>2, <4>1, <4>3 DEF ApiInv, RecordsOK
      <4>4. QED
        BY <4>2, <4>3
    <3>5. QED
      BY <3>4
  <2>5. RecordsOK'
    BY <1>3, <2>4 DEF ApiInv, RecordsOK
  <2>6. done.what = "login" /\ body.device = calls[n].caller
    BY <2>2
  <2>7. Demanded(calls[n], body)
    BY <1>1, <2>6 DEF Demanded
  <2>8. JsonResponse(n, 201, body, done)
    BY <1>3
  <2> HIDE DEF body, done
  <2>9. QED
    BY <1>1, <2>1, <2>5, <2>6, <2>7, <2>8, SuccessKeeps
<1>4. QED
  BY <1>2, <1>3 DEF PostSession

\* A request is served as the player of its session (authenticateRequestSession).
LEMMA AuthenticateKeeps ==
    ASSUME ApiInv, NEW n \in 1..Len(calls), AuthenticateRequestSession(n)
    PROVE  ApiInv'
<1>1. calls[n].phase = "sent"
  BY DEF AuthenticateRequestSession
<1>2. ASSUME NEW code, ErrorResponse(n, StatusOf(code), code) PROVE ApiInv'
  BY <1>1, <1>2, ErrorKeeps, ErrorsAreErrors
<1>3. ASSUME SessionError(calls[n]) = "none",
             calls' = [calls EXCEPT ![n].phase = "authenticated",
                                    ![n].now = expired,
                                    ![n].player = apiSessions[calls[n].session].player],
             UNCHANGED <<apiSessions, expired, logins, authority, speaking, held>>
      PROVE  ApiInv'
  <2> DEFINE c == [calls[n] EXCEPT !.phase = "authenticated", !.now = expired,
                                   !.player = apiSessions[calls[n].session].player]
  <2>1. CallsOK /\ CallShape(calls[n]) /\ InCall(calls[n])
    BY <1>1, Underway DEF ApiInv
  <2>2. calls[n].session \in DOMAIN apiSessions
    BY <1>3 DEF SessionError
  <2>3. /\ DOMAIN c = CallFields /\ c.caller = calls[n].caller /\ c.op = calls[n].op
        /\ c.phase = "authenticated" /\ c.done = calls[n].done /\ c.outcome = calls[n].outcome
        /\ c.player = apiSessions[calls[n].session].player
    BY <2>1 DEF CallShape, CallFields
  <2>4. calls' = [calls EXCEPT ![n] = c]
    BY <1>3, <2>1 DEF CallsOK, CallShape, CallFields
  <2> HIDE DEF c
  <2>5. c.player \in ApiPlayers
    BY <2>2, <2>3 DEF ApiInv, RecordsOK
  <2>6. CallOK(c)
    BY <2>1, <2>3, <2>5 DEF CallOK, CallShape, Phases, InCall
  <2>7. CallsOK'
    BY <2>1, <2>4, <2>6, CallGoesOn
  <2>8. QED
    BY <1>3, <2>7 DEF ApiInv, RecordsOK
<1>4. QED
  BY <1>2, <1>3 DEF AuthenticateRequestSession

\* A handler that changes neither sessions nor memberships.
LEMMA QuietSuccessKeeps ==
    ASSUME ApiInv, NEW n \in 1..Len(calls), calls[n].phase \in {"sent", "authenticated", "found", "read"},
           UNCHANGED <<apiSessions, authority>>,
           NEW status \in {200, 201}, NEW body, NEW done, JsonResponse(n, status, body, done),
           calls[n].op \in Effects => done.what = calls[n].op,
           calls[n].op \in {"start", "end"} => body.id = done.id,
           calls[n].caller \in Library => Demanded(calls[n], body)
    PROVE  ApiInv'
<1>1. CallsOK /\ RecordsOK'
  BY DEF ApiInv, RecordsOK
<1>2. QED
  BY <1>1, SuccessKeeps

\* Health and metrics answer anyone and change nothing.
LEMMA PublicRoutesKeep ==
    ASSUME ApiInv, NEW n \in 1..Len(calls), Health(n) \/ Metrics(n)
    PROVE  ApiInv'
<1>1. PICK body : JsonResponse(n, 200, body, Nothing)
  BY DEF Health, Metrics
<1>2. /\ calls[n].phase = "sent" /\ calls[n].op \in {"health", "metrics"}
      /\ UNCHANGED <<apiSessions, authority>>
  BY DEF Health, Metrics
<1>3. calls[n].op \notin Effects /\ calls[n].op \notin {"start", "end"}
  BY <1>2 DEF Effects
<1>4. Demanded(calls[n], body)
  BY <1>2 DEF Demanded
<1>5. QED
  BY <1>1, <1>2, <1>3, <1>4, QuietSuccessKeeps

\* A membership is answered with the version there is, which is never zero, and to
\* the library with its own player.
LEMMA MembershipResponseKeeps ==
    ASSUME ApiInv, NEW n \in 1..Len(calls), calls[n].phase = "authenticated",
           NEW subject, MembershipResponse(n, subject),
           \/ calls[n].op = "read"
           \/ calls[n].op = "membership" /\ subject = calls[n].player
    PROVE  ApiInv'
<1>2. ASSUME NEW status \in {404, 409}, NEW code, ErrorResponse(n, status, code) PROVE ApiInv'
  BY <1>2, Refused
<1>3. ASSUME authority[subject] # NoSnapshot,
             JsonResponse(n, 200, [player |-> subject, version |-> authority[subject].version],
                          Nothing),
             UNCHANGED <<apiSessions, expired, logins, authority, speaking, held>>
      PROVE  ApiInv'
  <2> DEFINE body == [player |-> subject, version |-> authority[subject].version]
  <2>1. body.player = subject /\ body.version = authority[subject].version
    OBVIOUS
  <2>2. JsonResponse(n, 200, body, Nothing)
    BY <1>3
  <2> HIDE DEF body
  <2>3. calls[n].player \in ApiPlayers
    BY Underway DEF ApiInv
  <2>4. calls[n].op = "membership" => authority[subject].version # 0
    BY <1>3, <2>3 DEF ApiInv, RecordsOK
  <2>5. calls[n].caller \in Library => calls[n].op \in LibraryOps
    BY Underway DEF ApiInv, CallShape
  <2>6. calls[n].caller \in Library => Demanded(calls[n], body)
    BY <2>1, <2>4, <2>5 DEF Demanded, LibraryOps
  <2>7. calls[n].op \notin Effects /\ calls[n].op \notin {"start", "end"}
    BY DEF Effects
  <2>8. QED
    BY <1>3, <2>2, <2>6, <2>7, QuietSuccessKeeps
<1>4. QED
  BY <1>2, <1>3 DEF MembershipResponse

\* Reading a membership, one's own or as an administrator.
LEMMA MembershipKeeps ==
    ASSUME ApiInv, NEW n \in 1..Len(calls), Membership(n) \/ ReadMembership(n)
    PROVE  ApiInv'
<1>2. CASE Membership(n)
  <2>1. calls[n].phase = "authenticated" /\ calls[n].op = "membership"
    BY <1>2 DEF Membership, Handles
  <2>2. CASE ErrorResponse(n, 400, "body_not_allowed")
    BY <2>1, <2>2, Refused
  <2>3. CASE MembershipResponse(n, calls[n].player)
    BY <2>1, <2>3, MembershipResponseKeeps
  <2>4. QED
    BY <1>2, <2>2, <2>3 DEF Membership
<1>3. CASE ReadMembership(n)
  BY <1>3, MembershipResponseKeeps DEF ReadMembership, Handles
<1>4. QED
  BY <1>2, <1>3

\* A grant names one to three rooms, one for each scope at most.
LEMMA GrantsAreFew ==
    ASSUME NEW m, Issue(m) # {}
    PROVE  Cardinality(Issue(m)) \in 1..3
<1> DEFINE Token(scope) == [scope |-> scope, room |-> RoomFor(m, scope),
                            subscribe |-> scope \in DerivedReceive(m)]
           One == {Token("team")}
           Two == One \cup {Token("specialization")}
           All == Two \cup {Token("group")}
<1>1. DerivedTransmit(m) \cup DerivedReceive(m) \subseteq VoiceScopes
  BY RoutingAssumption DEF DerivedTransmit, DerivedReceive
<1>2. Issue(m) \subseteq All
  <2>1. ASSUME NEW g \in Issue(m) PROVE g \in All
    <3>1. PICK s \in DerivedTransmit(m) \cup DerivedReceive(m) : g = Token(s)
      BY DEF Issue
    <3>2. s \in {"team", "specialization", "group"}
      BY <1>1 DEF VoiceScopes
    <3>3. QED
      BY <3>1, <3>2
  <2>2. QED
    BY <2>1
<1> HIDE DEF Token
<1>3. IsFiniteSet(One) /\ Cardinality(One) = 1
  BY FS_Singleton
<1> HIDE DEF One
<1>4. IsFiniteSet(Two) /\ Cardinality(Two) \in 0..2
  BY <1>3, FS_AddElement
<1> HIDE DEF Two
<1>5. IsFiniteSet(All) /\ Cardinality(All) \in 0..3
  BY <1>4, FS_AddElement
<1> HIDE DEF All
<1>6. IsFiniteSet(Issue(m)) /\ Cardinality(Issue(m)) <= Cardinality(All)
  BY <1>2, <1>5, FS_Subset
<1>7. Cardinality(Issue(m)) \in Nat /\ Cardinality(Issue(m)) # 0
  BY <1>6, FS_CardinalityType, FS_EmptySet
<1>8. QED
  BY <1>5, <1>6, <1>7

\* Grants are answered when there are some, with the version they are of.
LEMMA GrantsKeep ==
    ASSUME ApiInv, NEW n \in 1..Len(calls), VoiceGrants(n)
    PROVE  ApiInv'
<1> DEFINE call == calls[n]
           mine == authority[call.player]
<1>1. call.phase = "authenticated" /\ call.op = "grants"
  BY DEF VoiceGrants, Handles
<1>3. CASE ErrorResponse(n, 400, "body_not_allowed")
  BY <1>1, <1>3, Refused
<1>4. ASSUME NEW code,
             ErrorResponse(n, IF code = "membership_unavailable" THEN 404 ELSE StatusOf(code), code)
      PROVE  ApiInv'
  <2>1. (IF code = "membership_unavailable" THEN 404 ELSE StatusOf(code)) \notin 200..299
    BY ErrorsAreErrors
  <2>2. QED
    BY <1>1, <1>4, <2>1, ErrorKeeps
<1>5. ASSUME VoiceGrantError(call) = "none",
             JsonResponse(n, 201, [version |-> mine.version,
                                   grants |-> Issue(mine.members[call.player])],
                          [what |-> "grants"]),
             UNCHANGED <<apiSessions, expired, logins, authority, speaking, held>>
      PROVE  ApiInv'
  <2> DEFINE body == [version |-> mine.version, grants |-> Issue(mine.members[call.player])]
             done == [what |-> "grants"]
  <2>1. /\ body.version = mine.version /\ body.grants = Issue(mine.members[call.player])
        /\ done.what = "grants"
    OBVIOUS
  <2>2. JsonResponse(n, 201, body, done)
    BY <1>5
  <2> HIDE DEF body, done
  <2>3. mine # NoSnapshot /\ Issue(mine.members[call.player]) # {}
    BY <1>5 DEF VoiceGrantError
  <2>4. call.player \in ApiPlayers
    BY <1>1, Underway DEF ApiInv
  <2>5. mine.version # 0
    BY <2>3, <2>4 DEF ApiInv, RecordsOK
  <2>6. Demanded(call, body)
    <3>1. Cardinality(body.grants) \in 1..3
      BY <2>1, <2>3, GrantsAreFew
    <3>2. QED
      BY <1>1, <2>1, <2>5, <3>1 DEF Demanded
  <2>7. QED
    BY <1>1, <1>5, <2>1, <2>2, <2>6, QuietSuccessKeeps
<1>6. QED
  BY <1>3, <1>4, <1>5 DEF VoiceGrants

\* An accepted start is on the version and the scope that were asked for.
LEMMA StartKeeps ==
    ASSUME ApiInv, NEW n \in 1..Len(calls), PostTransmission(n)
    PROVE  ApiInv'
<1> DEFINE call == calls[n]
           mine == authority[call.player]
<1>1. call.phase = "authenticated" /\ call.op = "start"
  BY DEF PostTransmission, Handles
<1>2. ASSUME NEW code, ErrorResponse(n, StatusOf(code), code) PROVE ApiInv'
  BY <1>1, <1>2, ErrorKeeps, ErrorsAreErrors
<1>3. ASSUME NEW status \in {400, 409, 429}, NEW code, ErrorResponse(n, status, code) PROVE ApiInv'
  BY <1>1, <1>3, Refused
<1>4. ASSUME AuthorizeStart(call) = "none",
             JsonResponse(n, 201, [id |-> NextId, scope |-> call.arg.scope, version |-> mine.version],
                          [what |-> "start", id |-> NextId]),
             UNCHANGED <<apiSessions, expired, logins, authority, held>>
      PROVE  ApiInv'
  <2>1. PICK body : body = [id |-> NextId, scope |-> call.arg.scope, version |-> mine.version]
    OBVIOUS
  <2>2. PICK done : done = [what |-> "start", id |-> NextId]
    OBVIOUS
  <2>3. /\ done.what = "start" /\ body.id = done.id
        /\ body.version = mine.version /\ body.scope = call.arg.scope
    BY <2>1, <2>2
  <2>4. JsonResponse(n, 201, body, done)
    BY <1>4, <2>1, <2>2
  <2>5. mine.version = call.arg.version
    BY <1>4 DEF AuthorizeStart, RoutingError
  <2>6. Demanded(call, body)
    BY <1>1, <2>3, <2>5 DEF Demanded
  <2>7. QED
    BY <1>1, <1>4, <2>3, <2>4, <2>6, QuietSuccessKeeps
<1>5. QED
  BY <1>2, <1>3, <1>4 DEF PostTransmission

\* The end of a transmission, by its sender or a moderator, names the transmission.
LEMMA EndKeeps ==
    ASSUME ApiInv, NEW n \in 1..Len(calls), DeleteTransmission(n) \/ InterruptTransmission(n)
    PROVE  ApiInv'
<1> DEFINE call == calls[n]
<1>1. call.phase = "authenticated" /\ call.op \in {"end", "interrupt"}
  BY DEF DeleteTransmission, InterruptTransmission, Handles
<1>2. ASSUME NEW code, ErrorResponse(n, StatusOf(code), code) PROVE ApiInv'
  BY <1>1, <1>2, ErrorKeeps, ErrorsAreErrors
<1>3. ASSUME NEW status \in {400, 429}, NEW code, ErrorResponse(n, status, code) PROVE ApiInv'
  BY <1>1, <1>3, Refused
<1>4. ASSUME NEW what, what = call.op,
             JsonResponse(n, 200, [id |-> call.arg.id], [what |-> what, id |-> call.arg.id]),
             UNCHANGED <<apiSessions, expired, logins, authority, held>>
      PROVE  ApiInv'
  <2>1. PICK body : body = [id |-> call.arg.id]
    OBVIOUS
  <2>2. PICK done : done = [what |-> what, id |-> call.arg.id]
    OBVIOUS
  <2>3. done.what = what /\ body.id = done.id /\ body.id = call.arg.id
    BY <2>1, <2>2
  <2>4. JsonResponse(n, 200, body, done)
    BY <1>4, <2>1, <2>2
  <2>5. Demanded(call, body)
    BY <1>1, <2>3 DEF Demanded
  <2>6. QED
    BY <1>1, <1>4, <2>3, <2>4, <2>5, QuietSuccessKeeps
<1>5. CASE DeleteTransmission(n)
  BY <1>2, <1>3, <1>4, <1>5 DEF DeleteTransmission, Handles
<1>6. CASE InterruptTransmission(n)
  BY <1>2, <1>3, <1>4, <1>6 DEF InterruptTransmission, Handles
<1>7. QED
  BY <1>5, <1>6

\* The library administers nothing, so these answers are not decoded by it.
LEMMA AdministrationKeeps ==
    ASSUME ApiInv, NEW n \in 1..Len(calls), RemoveMembership(n) \/ ReplaceWrites(n)
    PROVE  ApiInv'
<1> DEFINE call == calls[n]
<1>1. CallsOK
  BY DEF ApiInv
<1>2. CASE RemoveMembership(n)
  <2>1. call.phase = "found" /\ call.op = "remove"
    BY <1>1, <1>2 DEF RemoveMembership, CallsOK, CallOK, Phases
  <2>2. /\ authority' = [authority EXCEPT ![call.arg.subject] = NoSnapshot]
        /\ JsonResponse(n, 200, Nothing, [what |-> "remove"])
        /\ UNCHANGED <<apiSessions, expired, logins, held>>
    BY <1>2 DEF RemoveMembership
  <2>3. RecordsOK'
    BY <2>2 DEF ApiInv, RecordsOK
  <2>4. Demanded(call, Nothing)
    BY <2>1 DEF Demanded
  <2>5. PICK done : done = [what |-> "remove"]
    OBVIOUS
  <2>6. done.what = "remove" /\ JsonResponse(n, 200, Nothing, done)
    BY <2>2, <2>5
  <2>7. QED
    BY <1>1, <2>1, <2>3, <2>4, <2>6, SuccessKeeps
<1>3. CASE ReplaceWrites(n)
  <2>1. call.phase = "read"
    BY <1>3 DEF ReplaceWrites
  <2>2. CASE ErrorResponse(n, 409, "membership_version_not_newer")
    BY <2>1, <2>2, Refused
  <2>3. ASSUME authority' = [authority EXCEPT ![call.arg.subject] = call.value],
               JsonResponse(n, 200, Nothing, [what |-> "replace"]),
               UNCHANGED <<apiSessions, expired, logins, held>>
        PROVE  ApiInv'
    <3>1. call.value.version # 0
      BY <1>1, <2>1, Underway DEF SnapshotValid
    <3>2. RecordsOK'
      BY <2>3, <3>1 DEF ApiInv, RecordsOK
    <3>3. call.op = "replace"
      BY <1>1, <2>1 DEF CallsOK, CallOK, Phases
    <3>4. Demanded(call, Nothing)
      BY <3>3 DEF Demanded
    <3>5. PICK done : done = [what |-> "replace"]
      OBVIOUS
    <3>6. done.what = "replace" /\ JsonResponse(n, 200, Nothing, done)
      BY <2>3, <3>5
    <3>7. QED
      BY <1>1, <2>1, <3>2, <3>3, <3>4, <3>6, SuccessKeeps
  <2>4. QED
    BY <1>3, <2>2, <2>3 DEF ReplaceWrites
<1>4. QED
  BY <1>2, <1>3

\* A PUT goes on only with a snapshot MembershipSnapshot accepts.
LEMMA ReplaceReadsKeeps ==
    ASSUME ApiInv, NEW n \in 1..Len(calls), ReplaceReads(n)
    PROVE  ApiInv'
<1> DEFINE call == calls[n]
<1>1. call.phase = "authenticated" /\ call.op = "replace"
  BY DEF ReplaceReads, Handles
<1>2. ASSUME NEW status \in {400, 404}, NEW code, ErrorResponse(n, status, code) PROVE ApiInv'
  BY <1>1, <1>2, Refused
<1>3. ASSUME NEW snapshot, SnapshotValid(snapshot),
             calls' = [calls EXCEPT ![n].phase = "read", ![n].value = snapshot],
             UNCHANGED <<apiSessions, expired, logins, authority, speaking, held>>
      PROVE  ApiInv'
  <2> DEFINE c == [calls[n] EXCEPT !.phase = "read", !.value = snapshot]
  <2>1. CallsOK /\ CallShape(calls[n]) /\ InCall(calls[n])
    BY <1>1, Underway DEF ApiInv
  <2>2. /\ DOMAIN c = CallFields /\ c.caller = calls[n].caller /\ c.op = calls[n].op
        /\ c.phase = "read" /\ c.done = calls[n].done /\ c.outcome = calls[n].outcome
        /\ c.value = snapshot
    BY <2>1 DEF CallShape, CallFields
  <2>3. calls' = [calls EXCEPT ![n] = c]
    BY <1>3, <2>1 DEF CallsOK, CallShape, CallFields
  <2> HIDE DEF c
  <2>4. CallOK(c)
    BY <1>1, <1>3, <2>1, <2>2 DEF CallOK, CallShape, Phases, InCall
  <2>5. CallsOK'
    BY <2>1, <2>3, <2>4, CallGoesOn
  <2>6. QED
    BY <1>3, <2>5 DEF ApiInv, RecordsOK
<1>4. QED
  BY <1>2, <1>3 DEF ReplaceReads

\* A DELETE goes on only for a membership there is.
LEMMA DeleteMembershipKeeps ==
    ASSUME ApiInv, NEW n \in 1..Len(calls), DeleteMembership(n)
    PROVE  ApiInv'
<1> DEFINE call == calls[n]
<1>1. call.phase = "authenticated" /\ call.op = "remove"
  BY DEF DeleteMembership, Handles
<1>2. CASE ErrorResponse(n, 404, "membership_unavailable")
  BY <1>1, <1>2, Refused
<1>3. ASSUME calls' = [calls EXCEPT ![n].phase = "found"],
             UNCHANGED <<apiSessions, expired, logins, authority, speaking, held>>
      PROVE  ApiInv'
  <2> DEFINE c == [calls[n] EXCEPT !.phase = "found"]
  <2>1. CallsOK /\ CallShape(calls[n]) /\ InCall(calls[n])
    BY <1>1, Underway DEF ApiInv
  <2>2. /\ DOMAIN c = CallFields /\ c.caller = calls[n].caller /\ c.op = calls[n].op
        /\ c.phase = "found" /\ c.done = calls[n].done /\ c.outcome = calls[n].outcome
    BY <2>1 DEF CallShape, CallFields
  <2>3. calls' = [calls EXCEPT ![n] = c]
    BY <1>3, <2>1 DEF CallsOK, CallShape, CallFields
  <2> HIDE DEF c
  <2>4. CallOK(c)
    BY <1>1, <1>3, <2>1, <2>2 DEF CallOK, CallShape, Phases, InCall
  <2>5. CallsOK'
    BY <2>1, <2>3, <2>4, CallGoesOn
  <2>6. QED
    BY <1>3, <2>5 DEF ApiInv, RecordsOK
<1>4. QED
  BY <1>2, <1>3 DEF DeleteMembership

-----------------------------------------------------------------------------
(* The caller learns what happened. *)

\* The caller decodes a true answer: success if the server acted, its error otherwise.
LEMMA DecodeKeeps ==
    ASSUME ApiInv, NEW n \in 1..Len(calls), Decode(n)
    PROVE  ApiInv'
<1> DEFINE call == calls[n]
<1>1. call.phase = "answered" /\ call.outcome = "none"
  BY DEF Decode
<1>2. CallsOK /\ CallOK(call)
  BY DEF ApiInv, CallsOK
<1>3. CallShape(call) /\ Truthful(call)
  BY <1>1, <1>2 DEF CallOK, Phases
<1>4. PICK c : c = [call EXCEPT !.outcome = Decoded(call),
                                !.answer = IF Decoded(call) = "server" THEN NoAnswer ELSE call.answer]
  OBVIOUS
<1>5. calls' = [calls EXCEPT ![n] = c]
  <2>1. calls' = [calls EXCEPT ![n].outcome = Decoded(call),
                               ![n].answer = IF Decoded(call) = "server" THEN NoAnswer ELSE @]
    BY DEF Decode
  <2>2. QED
    BY <1>2, <1>3, <1>4, <2>1 DEF CallsOK, CallShape, CallFields
<1>6. /\ DOMAIN c = CallFields /\ c.caller = call.caller /\ c.op = call.op
      /\ c.phase = "answered" /\ c.done = call.done /\ c.outcome = Decoded(call)
      /\ Decoded(call) # "server" => c.answer = call.answer
  BY <1>1, <1>3, <1>4 DEF CallShape, CallFields
<1>7. CallOK(c)
  <2>1. CASE call.answer.status \in 200..299
    <3>1. Told(call) /\ (call.caller \in Library => BodyMatches(call))
      BY <1>3, <2>1 DEF Truthful
    <3>2. Decoded(call) = "success"
      BY <2>1, <3>1 DEF Decoded
    <3>3. Told(c)
      BY <1>6, <3>1, <3>2 DEF Told
    <3>4. QED
      BY <1>3, <1>6, <3>2, <3>3 DEF CallOK, CallShape, Phases
  <2>2. CASE call.answer.status \notin 200..299
    <3>1. Decoded(call) = "server" /\ call.done = Nothing
      BY <1>3, <2>2 DEF Decoded, Truthful
    <3>2. QED
      BY <1>3, <1>6, <3>1 DEF CallOK, CallShape, Phases
  <2>3. QED
    BY <2>1, <2>2
<1>8. CallsOK'
  BY <1>2, <1>5, <1>7, CallGoesOn
<1>9. QED
  BY <1>8 DEF Decode, ApiInv, RecordsOK

\* A transport that gives up says nothing of the server, whose call goes on.
LEMMA TransportKeeps ==
    ASSUME ApiInv, NEW n \in 1..Len(calls), TransportFails(n)
    PROVE  ApiInv'
<1> DEFINE call == calls[n]
<1>1. call.phase # "unsent" /\ call.outcome = "none"
  BY DEF TransportFails
<1>2. CallsOK /\ CallOK(call)
  BY DEF ApiInv, CallsOK
<1>3. CallShape(call)
  BY <1>2 DEF CallOK
<1>4. PICK c : c = [call EXCEPT !.outcome = "transport", !.answer = NoAnswer]
  OBVIOUS
<1>5. calls' = [calls EXCEPT ![n] = c]
  BY <1>2, <1>3, <1>4 DEF TransportFails, CallsOK, CallShape, CallFields
<1>6. /\ DOMAIN c = CallFields /\ c.caller = call.caller /\ c.op = call.op
      /\ c.phase = call.phase /\ c.done = call.done /\ c.outcome = "transport"
      /\ c.player = call.player /\ c.value = call.value
  BY <1>3, <1>4 DEF CallShape, CallFields
<1>7. CallOK(c)
  BY <1>1, <1>2, <1>6 DEF CallOK, CallShape, Phases
<1>8. CallsOK'
  BY <1>2, <1>5, <1>7, CallGoesOn
<1>9. QED
  BY <1>8 DEF TransportFails, ApiInv, RecordsOK

\* Sessions that expire or are swept change no call.
LEMMA TimeKeeps ==
    ASSUME ApiInv, NEW s, SessionExpires(s) \/ SweepSession(s)
    PROVE  ApiInv'
<1>1. CASE SessionExpires(s)
  BY <1>1 DEF SessionExpires, ApiInv, CallsOK, RecordsOK, Entries
<1>2. CASE SweepSession(s)
  <2>1. CallsOK'
    BY <1>2 DEF SweepSession, ApiInv, CallsOK, Entries
  <2>2. RecordsOK'
    BY <1>2 DEF SweepSession, ApiInv, RecordsOK
  <2>3. QED
    BY <2>1, <2>2 DEF ApiInv
<1>3. QED
  BY <1>1, <1>2

-----------------------------------------------------------------------------

\* The invariant holds at first.
LEMMA ApiInitially == ApiInit => ApiInv
<1> SUFFICES ASSUME ApiInit PROVE ApiInv
  OBVIOUS
<1>1. CallsOK
  BY DEF ApiInit, CallsOK, Entries
<1>2. RecordsOK
  <2>1. \A s \in DOMAIN apiSessions : apiSessions[s].player \in Callers
    BY DEF ApiInit, Callers
  <2>2. DOMAIN authority = ApiPlayers /\ \A p \in ApiPlayers : authority[p].version = 1
    BY DEF ApiInit
  <2>3. QED
    BY <2>1, <2>2, ApiAssumption DEF RecordsOK
<1>3. QED
  BY <1>1, <1>2 DEF ApiInv

\* Every step keeps it.
LEMMA ApiStep == ApiInv /\ [ApiNext]_apiVars => ApiInv'
<1> SUFFICES ASSUME ApiInv, [ApiNext]_apiVars PROVE ApiInv'
  OBVIOUS
<1>1. CASE UNCHANGED apiVars
  BY <1>1 DEF apiVars, ApiInv, CallsOK, RecordsOK, Entries
<1>2. CASE UserCalls
  BY <1>2, CallersKeep
<1>3. ASSUME NEW op, RawCall(op) PROVE ApiInv'
  BY <1>3, CallersKeep
<1>4. ASSUME NEW n \in 1..Len(calls), Serve(n) PROVE ApiInv'
  BY <1>4, RefusalsKeep, LoginKeeps, AuthenticateKeeps, PublicRoutesKeep, MembershipKeeps,
     GrantsKeep, StartKeeps, EndKeeps, AdministrationKeeps, ReplaceReadsKeeps,
     DeleteMembershipKeeps DEF Serve
<1>5. QED
  BY <1>1, <1>2, <1>3, <1>4, DecodeKeeps, TransportKeeps, TimeKeeps DEF ApiNext

\* What the caller is told is what happened, for any number of calls, sessions and
\* members: a success only for what the server did, an error of the server only
\* when it did nothing, and no answer of the server is rejected as invalid
\* (control_plane_http.cpp and control_plane_client.cpp together).
THEOREM AnswersAlwaysTrue == ApiSpec => []AnswersAreTrue
<1>1. ApiInv => AnswersAreTrue
  <2> SUFFICES ASSUME ApiInv, NEW n \in 1..Len(calls)
               PROVE  LET call == calls[n] IN
                      /\ call.outcome = "success" /\ call.op \in Effects => call.done.what = call.op
                      /\ call.outcome = "success" /\ call.op \in {"start", "end"}
                            => call.answer.body.id = call.done.id
                      /\ call.outcome = "server" => call.done = Nothing
                      /\ call.outcome # "invalid_response"
    BY DEF AnswersAreTrue, Effects
  <2>1. CallOK(calls[n])
    BY DEF ApiInv, CallsOK
  <2>2. QED
    BY <2>1 DEF CallOK, Phases, Told
<1>2. QED
  BY <1>1, ApiInitially, ApiStep, PTL DEF ApiSpec

\* In every snapshot that is about to be put in force the media rooms reach exactly
\* the recipients the router lists, for every hierarchy, role policy and membership
\* (routing.cpp against livekit_token.cpp, by the check of model.cpp).
THEOREM RoomsAlwaysReach == ApiSpec => []RoomsReachRecipients
<1>1. ApiInv => RoomsReachRecipients
  BY Underway, ValidSnapshotReaches DEF ApiInv, RoomsReachRecipients
<1>2. QED
  BY <1>1, ApiInitially, ApiStep, PTL DEF ApiSpec

-----------------------------------------------------------------------------
(* The HTTP server. *)

(* What the threads hold agrees with where they are. *)
HandsAgree ==
    /\ client # NoConnection <=> apc \in {"accepted", "full"}
    /\ \A w \in Workers : serving[w] # NoConnection <=> wpc[w] = "working"

(* Shutdown is announced under the lock before anybody can return. *)
ShutdownAgrees ==
    /\ stopping <=> apc \in {"stopping", "joining", "stopped"}
    /\ apc = "stopped" => \A w \in Workers : wpc[w] = "returned"
    /\ \A w \in Workers : wpc[w] = "returned" => stopping /\ queue = <<>>

InQueue(c) == \E i \in 1..Len(queue) : queue[i] = c

(* No accepted connection is forgotten. *)
NoneForgotten ==
    \A c \in 1..accepted :
        \/ client = c
        \/ InQueue(c)
        \/ \E w \in Workers : serving[w] = c
        \/ c \in answered
        \/ c \in refused

(* The server holds only connections it accepted. *)
OnlyAccepted ==
    /\ client <= accepted
    /\ \A i \in 1..Len(queue) : queue[i] <= accepted
    /\ \A w \in Workers : serving[w] <= accepted
    /\ \A c \in answered \cup refused : c <= accepted

(* The places a connection can be in exclude each other, and the queue and the
   workers hold no connection twice. *)
PlacesDisjoint ==
    /\ \A i, j \in 1..Len(queue) : queue[i] = queue[j] => i = j
    /\ \A i \in 1..Len(queue) : queue[i] # client /\ queue[i] \notin answered \cup refused
    /\ \A i \in 1..Len(queue), w \in Workers : queue[i] # serving[w]
    /\ \A v, w \in Workers : serving[v] = serving[w] /\ serving[v] # NoConnection => v = w
    /\ \A w \in Workers :
          serving[w] # NoConnection => serving[w] # client /\ serving[w] \notin answered \cup refused
    /\ client \notin answered \cup refused
    /\ answered \cap refused = {}

NoneTwice == OnlyAccepted /\ PlacesDisjoint

Typed == TypeOK /\ HandsAgree

PoolInv == ShutdownAgrees /\ NoLostWakeup

ServerInv == Typed /\ PoolInv /\ NoneForgotten /\ NoneTwice

-----------------------------------------------------------------------------
\* The server invariant holds when runLinuxHttpServer has started its workers.
LEMMA InitServer == Init => ServerInv
<1> SUFFICES ASSUME Init PROVE ServerInv
    OBVIOUS
<1> USE LimitsAssumption DEF Init, NoConnection
<1>1. TypeOK
  <2>1. queue \in Seq(Connections) /\ Len(queue) <= Capacity
    OBVIOUS
  <2>2. wpc \in [Workers -> WorkerPCs] /\ apc \in AcceptorPCs
    BY DEF WorkerPCs, AcceptorPCs
  <2>3. /\ accepted \in 0..MaxConnections
        /\ client \in Connections \cup {NoConnection}
        /\ serving \in [Workers -> Connections \cup {NoConnection}]
        /\ answered \in SUBSET Connections
        /\ refused \in SUBSET Connections
    OBVIOUS
  <2>4. stopping \in BOOLEAN /\ shutdown \in BOOLEAN
    OBVIOUS
  <2> HIDE DEF Init
  <2> QED
    BY <2>1, <2>2, <2>3, <2>4 DEF TypeOK
<1>2. HandsAgree /\ ShutdownAgrees /\ NoLostWakeup
  BY DEF HandsAgree, ShutdownAgrees, NoLostWakeup
<1>3. NoneForgotten
  BY DEF NoneForgotten
<1>4. NoneTwice
  BY DEF NoneTwice, OnlyAccepted, PlacesDisjoint
<1> QED
  BY <1>1, <1>2, <1>3, <1>4 DEF ServerInv, Typed, PoolInv

\* Every step of a thread keeps the types and what each thread holds.
LEMMA StepTyped == Typed /\ [Next]_vars => Typed'
<1> SUFFICES ASSUME Typed, [Next]_vars PROVE Typed'
    OBVIOUS
<1> USE LimitsAssumption
    DEF Typed, TypeOK, HandsAgree, NoConnection, AcceptorPCs, WorkerPCs, Connections, workerVars
<1>1. CASE RequestShutdown \/ PollFails \/ CheckShutdown \/ PollAgain
  BY <1>1 DEF RequestShutdown, PollFails, CheckShutdown, PollAgain
<1>2. CASE Accept
  BY <1>2 DEF Accept
<1>3. CASE Enqueue
  <2>1. client \in Connections
    BY <1>3 DEF Enqueue
  <2>2. CASE HasRoom
    <3>1. queue' = Append(queue, client) /\ Len(queue') = Len(queue) + 1
      BY <1>3, <2>1, <2>2 DEF Enqueue, PushBack
    <3>2. queue' \in Seq(Connections)
      BY <2>1, <3>1
    <3> QED
      BY <1>3, <2>2, <3>1, <3>2 DEF Enqueue, HasRoom
  <2>3. CASE ~HasRoom
    BY <1>3, <2>3 DEF Enqueue
  <2> QED
    BY <2>2, <2>3
<1>4. CASE NotifyOne
  BY <1>4 DEF NotifyOne, Wake
<1>5. CASE Overloaded
  BY <1>5 DEF Overloaded
<1>6. CASE SetStopping \/ NotifyAll \/ Join
  BY <1>6 DEF SetStopping, NotifyAll, Join
<1>7. ASSUME NEW w \in Workers, Sleep(w) \/ SpuriousWakeup(w) \/ Return(w)
      PROVE  Typed'
  BY <1>7 DEF Sleep, SpuriousWakeup, Wake, Return
<1>8. ASSUME NEW w \in Workers, Take(w)
      PROVE  Typed'
  <2>1. Len(queue) > 0 /\ Head(queue) \in Connections
    BY <1>8 DEF Take, MustSleep, MustReturn
  <2> QED
    BY <1>8, <2>1 DEF Take, PopFront
<1>9. ASSUME NEW w \in Workers, ProcessClient(w)
      PROVE  Typed'
  BY <1>9 DEF ProcessClient
<1>10. CASE UNCHANGED vars
  BY <1>10 DEF vars
<1> QED
  BY <1>1, <1>2, <1>3, <1>4, <1>5, <1>6, <1>7, <1>8, <1>9, <1>10
     DEF Next, AcceptorStep, WorkerStep, Stopped

\* No step loses a wakeup or lets the shutdown phases disagree with the pool.
LEMMA StepPool == Typed /\ PoolInv /\ [Next]_vars => PoolInv'
<1> SUFFICES ASSUME Typed, PoolInv, [Next]_vars PROVE PoolInv'
    OBVIOUS
<1> USE LimitsAssumption
    DEF PoolInv, ShutdownAgrees, NoLostWakeup, Typed, TypeOK, AcceptorPCs, WorkerPCs, workerVars
<1>1. CASE RequestShutdown \/ PollFails \/ CheckShutdown \/ PollAgain
  BY <1>1 DEF RequestShutdown, PollFails, CheckShutdown, PollAgain
<1>2. CASE Accept \/ Overloaded
  BY <1>2 DEF Accept, Overloaded
<1>3. CASE Enqueue
  BY <1>3 DEF Enqueue, HasRoom, PushBack
<1>4. CASE NotifyOne
  BY <1>4 DEF NotifyOne, Wake
<1>5. CASE SetStopping \/ Join
  BY <1>5 DEF SetStopping, Join
<1>6. CASE NotifyAll
  BY <1>6 DEF NotifyAll
<1>7. ASSUME NEW w \in Workers, Sleep(w)
      PROVE  PoolInv'
  BY <1>7 DEF Sleep, MustSleep
<1>8. ASSUME NEW w \in Workers, SpuriousWakeup(w) \/ Return(w)
      PROVE  PoolInv'
  BY <1>8 DEF SpuriousWakeup, Wake, Return, MustReturn
<1>9. ASSUME NEW w \in Workers, Take(w)
      PROVE  PoolInv'
  <2>1. queue # <<>>
    BY <1>9 DEF Take, MustSleep, MustReturn
  <2> QED
    BY <1>9, <2>1 DEF Take, PopFront
<1>10. ASSUME NEW w \in Workers, ProcessClient(w)
       PROVE  PoolInv'
  BY <1>10 DEF ProcessClient
<1>11. CASE UNCHANGED vars
  BY <1>11 DEF vars
<1> QED
  BY <1>1, <1>2, <1>3, <1>4, <1>5, <1>6, <1>7, <1>8, <1>9, <1>10, <1>11
     DEF Next, AcceptorStep, WorkerStep, Stopped

\* No step forgets an accepted connection.
LEMMA StepForgets == Typed /\ NoneForgotten /\ [Next]_vars => NoneForgotten'
<1> SUFFICES ASSUME Typed, NoneForgotten, [Next]_vars,
                    NEW c \in 1..accepted'
             PROVE  \/ client' = c
                    \/ InQueue(c)'
                    \/ \E w \in Workers : serving'[w] = c
                    \/ c \in answered'
                    \/ c \in refused'
    BY DEF NoneForgotten
<1> USE DEF Typed, TypeOK, HandsAgree, NoneForgotten, InQueue, NoConnection, Connections,
            workerVars
<1>1. CASE UNCHANGED <<accepted, queue, client, serving, answered, refused>>
  BY <1>1
<1>2. CASE Accept
  BY <1>2 DEF Accept
<1>3. CASE Enqueue
  <2>1. CASE queue' = Append(queue, client)
    <3>1. queue'[Len(queue) + 1] = client /\ Len(queue') = Len(queue) + 1
      BY <1>3, <2>1 DEF Enqueue
    <3>2. \A i \in 1..Len(queue) : queue'[i] = queue[i]
      BY <2>1
    <3> QED
      BY <1>3, <3>1, <3>2 DEF Enqueue
  <2>2. CASE UNCHANGED <<queue, client>>
    BY <1>3, <2>2 DEF Enqueue
  <2> QED
    BY <1>3, <2>1, <2>2 DEF Enqueue, PushBack
<1>4. CASE Overloaded
  BY <1>4 DEF Overloaded
<1>5. ASSUME NEW w \in Workers, Take(w)
      PROVE  \/ client' = c
             \/ InQueue(c)'
             \/ \E v \in Workers : serving'[v] = c
             \/ c \in answered'
             \/ c \in refused'
  <2>1. Len(queue) > 0 /\ queue' = Tail(queue) /\ serving'[w] = queue[1]
    BY <1>5 DEF Take, MustSleep, MustReturn, PopFront
  <2>2. ASSUME NEW i \in 1..Len(queue), queue[i] = c
        PROVE  InQueue(c)' \/ serving'[w] = c
    <3>1. CASE i = 1
      BY <2>1, <2>2, <3>1
    <3>2. CASE i # 1
      <4>1. i - 1 \in 1..Len(queue') /\ queue'[i - 1] = c
        BY <2>1, <2>2, <3>2
      <4> QED
        BY <4>1
    <3> QED
      BY <3>1, <3>2
  <2>3. \A v \in Workers : serving[v] = c => serving'[v] = c
    BY <1>5 DEF Take
  <2> QED
    BY <1>5, <2>2, <2>3 DEF Take
<1>6. ASSUME NEW w \in Workers, ProcessClient(w)
      PROVE  \/ client' = c
             \/ InQueue(c)'
             \/ \E v \in Workers : serving'[v] = c
             \/ c \in answered'
             \/ c \in refused'
  BY <1>6 DEF ProcessClient
<1> QED
  BY <1>1, <1>2, <1>3, <1>4, <1>5, <1>6
     DEF Next, AcceptorStep, WorkerStep, Stopped, vars, RequestShutdown, PollFails, CheckShutdown,
         PollAgain, NotifyOne, SetStopping, NotifyAll, Join, Sleep, SpuriousWakeup, Return

\* No step duplicates a connection or makes one up: a connection leaves the place
\* it was in when it enters the next.
LEMMA StepNoneTwice == Typed /\ NoneTwice /\ [Next]_vars => NoneTwice'
<1> SUFFICES ASSUME Typed, NoneTwice, [Next]_vars PROVE NoneTwice'
    OBVIOUS
<1> USE LimitsAssumption
    DEF Typed, TypeOK, HandsAgree, NoConnection, Connections, workerVars, NoneTwice
<1>1. CASE UNCHANGED <<accepted, queue, client, serving, answered, refused>>
  BY <1>1 DEF OnlyAccepted, PlacesDisjoint
<1>2. CASE Accept
  <2>1. /\ client' = accepted + 1 /\ accepted' = accepted + 1
        /\ UNCHANGED <<queue, serving, answered, refused>>
    BY <1>2 DEF Accept
  <2>2. accepted \in Nat /\ client \in Nat /\ client <= accepted
    BY DEF OnlyAccepted
  <2>3. /\ \A i \in 1..Len(queue) : queue[i] \in Nat /\ queue[i] <= accepted
        /\ \A w \in Workers : serving[w] \in Nat /\ serving[w] <= accepted
        /\ \A c \in answered \cup refused : c \in Nat /\ c <= accepted
    BY DEF OnlyAccepted
  <2>4. OnlyAccepted'
    BY <2>1, <2>2, <2>3 DEF OnlyAccepted
  <2>5. /\ \A i \in 1..Len(queue) : queue[i] # client'
        /\ \A w \in Workers : serving[w] # client'
        /\ client' \notin answered \cup refused
    BY <2>1, <2>2, <2>3
  <2>6. PlacesDisjoint'
    BY <2>1, <2>5 DEF PlacesDisjoint
  <2> QED
    BY <2>4, <2>6
<1>3. CASE Enqueue
  <2>1. CASE queue' = Append(queue, client) /\ client' = NoConnection
    <3>1. /\ Len(queue') = Len(queue) + 1
          /\ queue'[Len(queue) + 1] = client
          /\ \A i \in 1..Len(queue) : queue'[i] = queue[i]
      BY <2>1
    <3>2. \A i \in 1..Len(queue') : i = Len(queue) + 1 \/ i \in 1..Len(queue)
      BY <3>1
    <3>3. /\ client # NoConnection
          /\ UNCHANGED <<accepted, serving, answered, refused>>
      BY <1>3 DEF Enqueue
    <3>4. OnlyAccepted'
      BY <2>1, <3>1, <3>2, <3>3 DEF OnlyAccepted
    <3>5. PlacesDisjoint'
      BY <2>1, <3>1, <3>2, <3>3 DEF PlacesDisjoint
    <3> QED
      BY <3>4, <3>5
  <2>2. CASE UNCHANGED <<queue, client>>
    BY <1>3, <2>2 DEF Enqueue, OnlyAccepted, PlacesDisjoint
  <2> QED
    BY <1>3, <2>1, <2>2 DEF Enqueue, PushBack
<1>4. CASE Overloaded
  BY <1>4 DEF Overloaded, OnlyAccepted, PlacesDisjoint
<1>5. ASSUME NEW w \in Workers, Take(w)
      PROVE  NoneTwice'
  <2>1. /\ Len(queue) > 0
        /\ queue' = Tail(queue)
        /\ serving' = [serving EXCEPT ![w] = queue[1]]
        /\ UNCHANGED <<accepted, client, answered, refused>>
    BY <1>5 DEF Take, MustSleep, MustReturn, PopFront
  <2>2. \A i \in 1..Len(queue') : i + 1 \in 2..Len(queue) /\ queue'[i] = queue[i + 1]
    BY <2>1
  <2>3. OnlyAccepted'
    BY <2>1, <2>2 DEF OnlyAccepted
  <2>4. PlacesDisjoint'
    BY <2>1, <2>2 DEF PlacesDisjoint
  <2> QED
    BY <2>3, <2>4
<1>6. ASSUME NEW w \in Workers, ProcessClient(w)
      PROVE  NoneTwice'
  <2>1. /\ serving[w] # NoConnection
        /\ answered' = answered \cup {serving[w]}
        /\ serving' = [serving EXCEPT ![w] = NoConnection]
        /\ UNCHANGED <<accepted, queue, client, refused>>
    BY <1>6 DEF ProcessClient
  <2>2. OnlyAccepted'
    BY <2>1 DEF OnlyAccepted
  <2>3. \A v \in Workers :
            /\ serving'[v] # NoConnection => v # w /\ serving'[v] = serving[v]
            /\ serving'[v] \in {NoConnection, serving[v]}
    BY <2>1
  <2>4. \A i \in 1..Len(queue) : queue[i] \in Connections /\ queue[i] # NoConnection
    OBVIOUS
  <2>5. \A i \in 1..Len(queue) : queue[i] # client /\ queue[i] \notin answered' \cup refused
    BY <2>1 DEF PlacesDisjoint
  <2>6. \A i \in 1..Len(queue), v \in Workers : queue[i] # serving'[v]
    BY <2>3, <2>4 DEF PlacesDisjoint
  <2>7. /\ client \notin answered' \cup refused
        /\ answered' \cap refused = {}
    <3>1. serving[w] # client /\ serving[w] \notin refused
      BY <2>1 DEF PlacesDisjoint
    <3>2. client \notin answered \cup refused /\ answered \cap refused = {}
      BY DEF PlacesDisjoint
    <3> QED
      BY <2>1, <3>1, <3>2, Zenon
  <2>8. \A v \in Workers :
            serving'[v] # NoConnection
                => serving'[v] # client /\ serving'[v] \notin answered' \cup refused
    BY <2>1, <2>3 DEF PlacesDisjoint
  <2>9. \A u, v \in Workers : serving'[u] = serving'[v] /\ serving'[u] # NoConnection => u = v
    BY <2>3 DEF PlacesDisjoint
  <2> QED
    BY <2>1, <2>2, <2>5, <2>6, <2>7, <2>8, <2>9 DEF PlacesDisjoint
<1> QED
  BY <1>1, <1>2, <1>3, <1>4, <1>5, <1>6
     DEF Next, AcceptorStep, WorkerStep, Stopped, vars, RequestShutdown, PollFails, CheckShutdown,
         PollAgain, NotifyOne, SetStopping, NotifyAll, Join, Sleep, SpuriousWakeup, Return

-----------------------------------------------------------------------------
\* The server invariant holds in every reachable state.
LEMMA ServerInvariance == Spec => []ServerInv
<1>1. ServerInv /\ [Next]_vars => ServerInv'
  BY StepTyped, StepPool, StepForgets, StepNoneTwice DEF ServerInv
<1> QED
  BY InitServer, <1>1, PTL DEF Spec

\* The server's state is well typed and its queue never exceeds its capacity,
\* for every pool size and capacity (runLinuxHttpServer).
THEOREM ServerTypeCorrect == Spec => []TypeOK
<1>1. ServerInv => TypeOK
  BY DEF ServerInv, Typed
<1> QED
  BY ServerInvariance, <1>1, PTL

\* No wakeup is lost between the accepting thread's notify calls and the
\* workers' waits, for every pool size.
THEOREM ServerNoLostWakeup == Spec => []NoLostWakeup
<1>1. ServerInv => NoLostWakeup
  BY DEF ServerInv, PoolInv
<1> QED
  BY ServerInvariance, <1>1, PTL

\* When the server has stopped, every connection it accepted was processed or
\* refused: the drain of the queue at shutdown is complete.
THEOREM ServerStoppedIsDrained == Spec => []StoppedIsDrained
<1>1. ServerInv => StoppedIsDrained
  <2> SUFFICES ASSUME ServerInv, apc = "stopped", NEW c \in 1..accepted
               PROVE  c \in answered \cup refused
    BY DEF StoppedIsDrained, ServerInv, PoolInv, ShutdownAgrees
  <2>1. \A w \in Workers : wpc[w] = "returned"
    BY DEF ServerInv, PoolInv, ShutdownAgrees
  <2>2. queue = <<>>
    BY <2>1, LimitsAssumption DEF ServerInv, PoolInv, ShutdownAgrees
  <2>3. client = NoConnection /\ \A w \in Workers : serving[w] = NoConnection
    BY <2>1 DEF ServerInv, Typed, HandsAgree
  <2>4. c # NoConnection
    BY DEF ServerInv, Typed, TypeOK, NoConnection
  <2> QED
    BY <2>2, <2>3, <2>4 DEF ServerInv, NoneForgotten, InQueue
<1> QED
  BY ServerInvariance, <1>1, PTL

\* Every accepted connection is in exactly one place, held, queued, with one worker,
\* processed or refused: no request is handled twice and no socket is dropped, for
\* every pool size, capacity and interleaving of the acceptor and the workers.
THEOREM ServerEachConnectionOnce == Spec => []EachConnectionOnce
<1>1. ServerInv => EachConnectionOnce
  <2> SUFFICES ASSUME ServerInv, NEW c \in Connections
               PROVE  (IF client = c THEN 1 ELSE 0)
                      + Cardinality(Queued(c))
                      + Cardinality(ServedBy(c))
                      + (IF c \in answered THEN 1 ELSE 0)
                      + (IF c \in refused THEN 1 ELSE 0)
                      = IF c <= accepted THEN 1 ELSE 0
    BY DEF EachConnectionOnce
  <2> USE LimitsAssumption
      DEF ServerInv, Typed, TypeOK, NoneTwice, Connections, NoConnection
  <2>1. Cardinality({}) = 0 /\ \A x : Cardinality({x}) = 1
    BY FS_EmptySet, FS_Singleton
  <2>2. DOMAIN queue = 1..Len(queue)
    OBVIOUS
  <2>3. Cardinality(Queued(c)) = IF InQueue(c) THEN 1 ELSE 0
    <3>1. CASE InQueue(c)
      <4>1. PICK i \in 1..Len(queue) : queue[i] = c
        BY <3>1 DEF InQueue
      <4>2. Queued(c) = {i}
        BY <2>2, <4>1 DEF Queued, PlacesDisjoint
      <4> QED
        BY <2>1, <3>1, <4>2
    <3>2. CASE ~InQueue(c)
      BY <2>1, <2>2, <3>2 DEF InQueue, Queued
    <3> QED
      BY <3>1, <3>2
  <2> DEFINE Served == \E w \in Workers : serving[w] = c
  <2>4. Cardinality(ServedBy(c)) = IF Served THEN 1 ELSE 0
    <3>1. CASE Served
      <4>1. PICK w \in Workers : serving[w] = c
        BY <3>1
      <4>2. ServedBy(c) = {w}
        BY <4>1 DEF ServedBy, PlacesDisjoint
      <4> QED
        BY <2>1, <3>1, <4>2
    <3>2. CASE ~Served
      <4>1. ServedBy(c) = {}
        BY <3>2 DEF ServedBy
      <4> QED
        BY <2>1, <3>2, <4>1
    <3> QED
      BY <3>1, <3>2
  <2>5. c <= accepted => client = c \/ InQueue(c) \/ Served \/ c \in answered \/ c \in refused
    BY DEF NoneForgotten
  <2>6. client = c \/ InQueue(c) \/ Served \/ c \in answered \/ c \in refused => c <= accepted
    BY DEF OnlyAccepted, InQueue
  <2>7. /\ client = c => ~InQueue(c) /\ ~Served /\ c \notin answered /\ c \notin refused
        /\ InQueue(c) => ~Served /\ c \notin answered /\ c \notin refused
        /\ Served => c \notin answered /\ c \notin refused
        /\ c \in answered => c \notin refused
    BY DEF PlacesDisjoint, InQueue
  <2> HIDE DEF Served
  <2> QED
    BY <2>3, <2>4, <2>5, <2>6, <2>7
<1> QED
  BY ServerInvariance, <1>1, PTL
=============================================================================
