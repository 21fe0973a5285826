---------------------------- MODULE Persistence ----------------------------
(***************************************************************************)
(* SqliteControlPlaneRepository: the database file of the control plane.   *)
(* Its mutex lets one call at a time use the connection, so what can come  *)
(* between the statements of a call is an exception or the end of the      *)
(* process.  Opening the database migrates its schema, one transaction per *)
(* version; a membership context is replaced in one transaction over all   *)
(* its tables; sessions and audit events are single statements.  A         *)
(* transaction works on a copy that COMMIT puts in the place of the file.  *)
(***************************************************************************)
EXTENDS Integers, Sequences, FiniteSets, FiniteSetsExt

CONSTANTS
    DbSessions,      \* session IDs that are written
    MaxDbVersion,    \* bound on the versions of the membership context
    MaxEvents,       \* bound on the audit events recorded
    MaxTicks,        \* bound on the time
    TicksPerMs,      \* resolution of the clock in a millisecond
    Retention,       \* how long events are kept, in ticks
    PageLimit,       \* limit of the queries that have one
    MaxStarts        \* bound on the starts of the process

ASSUME PersistenceAssumption ==
    /\ MaxDbVersion \in Nat \ {0} /\ MaxEvents \in Nat /\ MaxTicks \in Nat /\ MaxStarts \in Nat
    /\ TicksPerMs \in Nat \ {0} /\ Retention \in Nat /\ PageLimit \in Nat \ {0}

VARIABLES
    disk,       \* the committed database, see Empty
    txn,        \* what the open transaction sees; the file when there is none
    job,        \* down, migrating or idle, or replacing a context; and how far it is
    ticks,      \* the clock
    starts, recorded,   \* bounded counters
    dropped,    \* dropped_audit_events
    cursor,     \* a reader of audit events: the sequence it asks from
    readEvents, \* and the events it has got
    acked,      \* history: the version and the sessions the callers know to be written
    early,      \* history: an event was erased before its time
    renumbered  \* history: a migration set the next sequence back

databaseVars == <<disk, txn>>
readerVars == <<cursor, readEvents>>
boundVars == <<ticks, starts, recorded>>
pastVars == <<acked, early, renumbered>>
persistenceVars == <<databaseVars, job, dropped, boundVars, readerVars, pastVars>>

latest_schema_version == 4

(* The tables of a membership context, in the order in which they are written, *)
(* and the tables their foreign keys refer to.                                 *)
ContextTables ==
    <<"membership_contexts", "membership_scopes", "membership_groups",
      "membership_specializations", "membership_teams", "role_permissions", "memberships">>

References(table) ==
    CASE table = "membership_contexts" -> {}
      [] table = "membership_specializations" -> {"membership_groups"}
      [] table = "membership_teams" -> {"membership_specializations"}
      [] table = "memberships" ->
            {"membership_groups", "membership_specializations", "membership_teams"}
      [] OTHER -> {"membership_contexts"}

Tables == {ContextTables[i] : i \in 1..Len(ContextTables)}

(* The rows of a table are those of one version of the context; 0 is no row. *)
NoRows == [table \in Tables |-> 0]

ToUnixMilliseconds(time) == time \div TicksPerMs

(* A row of transmission_audit_events; at is when it really occurred. *)
Event(sequence, at) == [seq |-> sequence, at |-> at, ms |-> ToUnixMilliseconds(at)]

Database(schema, version, audit, lastSequence) ==
    [schema |-> schema, context |-> [table \in Tables |-> version], sessions |-> {},
     audit |-> audit, lastSequence |-> lastSequence]

(* Databases older programs leave behind, and one of a newer program. *)
OlderDatabases ==
    {Database(s, 0, {}, 0) : s \in 0..latest_schema_version + 1}
    \cup {Database(s, 1, {}, 0) : s \in 2..latest_schema_version}
    \cup {Database(s, 0, audit, 1) : s \in 3..latest_schema_version, audit \in {{}, {Event(1, 0)}}}

\* Type invariant.
PersistenceTypeOK ==
    /\ disk.schema \in 0..latest_schema_version + 1
    /\ disk.context \in [Tables -> 0..MaxDbVersion] /\ txn.context \in [Tables -> 0..MaxDbVersion]
    /\ disk.sessions \subseteq DbSessions
    /\ job.doing \in {"down", "migrating", "idle", "replacing", "returning"}
    /\ job.doing \in {"down", "idle", "returning"} => txn = disk
    /\ ticks \in 0..MaxTicks /\ recorded \in 0..MaxEvents /\ starts \in 0..MaxStarts
    /\ dropped \in 0..MaxEvents

Job(doing) == [doing |-> doing, version |-> 0, next |-> 1]

PersistenceInit ==
    /\ disk \in OlderDatabases
    /\ txn = disk
    /\ job = Job("down")
    /\ ticks = 0 /\ starts = 0 /\ recorded = 0 /\ dropped = 0
    /\ cursor \in {0, disk.lastSequence}
    /\ readEvents = {e \in disk.audit : e.seq <= cursor}
    /\ acked = [version |-> disk.context["membership_contexts"], sessions |-> {}]
    /\ early = FALSE /\ renumbered = FALSE

-----------------------------------------------------------------------------
(* Transactions. *)

Begin(change) == txn' = change /\ UNCHANGED disk
Commit == disk' = txn /\ UNCHANGED txn

(* What was done before the exception stays. *)
SlipRollBack == disk' = txn /\ UNCHANGED txn

RollBack == txn' = disk /\ UNCHANGED disk

(* One statement outside a transaction. *)
Execute(change) == disk' = change /\ txn' = change

-----------------------------------------------------------------------------
(* Opening: openDatabase, the pragmas, migrate. *)

OpenDatabase ==
    /\ job.doing = "down" /\ starts < MaxStarts
    /\ starts' = starts + 1
    /\ job' = Job("migrating")
    /\ UNCHANGED <<databaseVars, ticks, recorded, dropped, readerVars, pastVars>>

(* Migration 4 copies the events to a new table.  AUTOINCREMENT goes on from the *)
(* highest sequence the table has had, which is that of the rows copied.         *)
Migrated(db) ==
    [db EXCEPT !.schema = @ + 1,
               !.lastSequence = IF db.schema + 1 = 4
                                THEN Max({0} \cup {e.seq : e \in db.audit}) ELSE @]

(* BEGIN IMMEDIATE, the migration's statements, its row in the ledger and user_version. *)
ApplyMigration ==
    /\ job.doing = "migrating" /\ txn = disk
    /\ disk.schema < latest_schema_version
    /\ Begin(Migrated(disk))
    /\ UNCHANGED <<job, dropped, boundVars, readerVars, pastVars>>

CommitMigration ==
    /\ job.doing = "migrating" /\ txn # disk
    /\ Commit
    /\ renumbered' = (renumbered \/ txn.lastSequence < disk.lastSequence)
    /\ UNCHANGED <<job, dropped, boundVars, readerVars, acked, early>>

(* The constructor throws, main reports that the startup failed and returns.  *)
(* With a database of a newer program, which is left alone, it always does.   *)
MigrationFails ==
    /\ job.doing = "migrating"
    /\ RollBack
    /\ job' = Job("down")
    /\ UNCHANGED <<dropped, boundVars, readerVars, pastVars>>

Opened ==
    /\ job.doing = "migrating" /\ disk.schema = latest_schema_version
    /\ job' = Job("idle")
    /\ dropped' = 0
    /\ UNCHANGED <<databaseVars, boundVars, readerVars, pastVars>>

(* The process ends at any point; the next one finds what was committed. *)
KillProcess ==
    /\ job.doing # "down"
    /\ txn' = disk
    /\ job' = Job("down")
    /\ UNCHANGED <<disk, dropped, boundVars, readerVars, pastVars>>

-----------------------------------------------------------------------------
(* Membership contexts. *)

(* loadMembershipContext: no row in the first table is no context, rows that do *)
(* not fit together are none the domain's constructors accept.                  *)
LoadMembershipContext(db) ==
    LET version == db.context["membership_contexts"]
    IN IF version = 0 THEN "none"
       ELSE IF \E table \in Tables : db.context[table] # version THEN "inconsistent"
       ELSE "whole"

(* upsertIfNewer up to the deletion of the old context, which cascades. *)
UpsertIfNewer(version) ==
    /\ job.doing = "idle"
    /\ version > disk.context["membership_contexts"]
    /\ Begin([disk EXCEPT !.context = NoRows])
    /\ job' = [doing |-> "replacing", version |-> version, next |-> 1]
    /\ UNCHANGED <<dropped, boundVars, readerVars, pastVars>>

(* persistMembershipContext, one table: foreign keys are enforced per statement. *)
PersistTable ==
    LET table == ContextTables[job.next]
    IN /\ job.doing = "replacing" /\ job.next <= Len(ContextTables)
       /\ \A parent \in References(table) : txn.context[parent] = job.version
       /\ Begin([txn EXCEPT !.context[table] = job.version])
       /\ job' = [job EXCEPT !.next = @ + 1]
       /\ UNCHANGED <<dropped, boundVars, readerVars, pastVars>>

CommitContext ==
    /\ job.doing = "replacing" /\ job.next > Len(ContextTables)
    /\ Commit
    /\ job' = [job EXCEPT !.doing = "returning"]
    /\ UNCHANGED <<dropped, boundVars, readerVars, pastVars>>

(* A statement or the COMMIT fails: catch rolls back and throws again. *)
UpsertFails ==
    /\ job.doing = "replacing"
    /\ RollBack
    /\ job' = Job("idle")
    /\ UNCHANGED <<dropped, boundVars, readerVars, pastVars>>

UpsertReturns ==
    /\ job.doing = "returning"
    /\ acked' = [acked EXCEPT !.version = job.version]
    /\ job' = Job("idle")
    /\ UNCHANGED <<databaseVars, dropped, boundVars, readerVars, early, renumbered>>

EraseContext ==
    /\ job.doing = "idle"
    /\ Execute([disk EXCEPT !.context = NoRows])
    /\ acked' = [acked EXCEPT !.version = 0]
    /\ UNCHANGED <<job, dropped, boundVars, readerVars, early, renumbered>>

-----------------------------------------------------------------------------
(* Sessions. *)

UpsertSession(s) ==
    /\ job.doing = "idle"
    /\ Execute([disk EXCEPT !.sessions = @ \cup {s}])
    /\ acked' = [acked EXCEPT !.sessions = @ \cup {s}]
    /\ UNCHANGED <<job, dropped, boundVars, readerVars, early, renumbered>>

EraseStoredSession(s) ==
    /\ job.doing = "idle"
    /\ Execute([disk EXCEPT !.sessions = @ \ {s}])
    /\ acked' = [acked EXCEPT !.sessions = @ \ {s}]
    /\ UNCHANGED <<job, dropped, boundVars, readerVars, early, renumbered>>

-----------------------------------------------------------------------------
(* Audit events. *)

RecordEvent ==
    /\ job.doing = "idle" /\ recorded < MaxEvents
    /\ recorded' = recorded + 1
    /\ Execute([disk EXCEPT !.audit = @ \cup {Event(disk.lastSequence + 1, ticks)},
                            !.lastSequence = @ + 1])
    /\ UNCHANGED <<job, ticks, starts, dropped, readerVars, pastVars>>

(* record is noexcept: a failure is counted. *)
RecordFails ==
    /\ job.doing = "idle" /\ recorded < MaxEvents
    /\ recorded' = recorded + 1
    /\ dropped' = dropped + 1
    /\ UNCHANGED <<databaseVars, job, ticks, starts, readerVars, pastVars>>

(* ORDER BY sequence LIMIT ... *)
FirstOf(events) ==
    {e \in events : Cardinality({d \in events : d.seq < e.seq}) < PageLimit}

AuditEventsAfter ==
    LET page == FirstOf({e \in disk.audit : e.seq > cursor})
    IN /\ job.doing = "idle" /\ page # {}
       /\ cursor' = Max({e.seq : e \in page})
       /\ readEvents' = readEvents \cup page
       /\ UNCHANGED <<databaseVars, job, dropped, boundVars, pastVars>>

(* The retention sweep of the maintenance thread. *)
EraseAuditEventsBefore ==
    LET cutoff == ticks - Retention
        page == FirstOf({e \in disk.audit : e.ms < ToUnixMilliseconds(cutoff)})
    IN /\ job.doing = "idle" /\ cutoff >= 0
       /\ Execute([disk EXCEPT !.audit = @ \ page])
       /\ early' = (early \/ \E e \in page : e.at >= cutoff)
       /\ UNCHANGED <<job, dropped, boundVars, readerVars, acked, renumbered>>

TimePasses ==
    /\ ticks < MaxTicks
    /\ ticks' = ticks + 1
    /\ UNCHANGED <<databaseVars, job, starts, recorded, dropped, readerVars, pastVars>>

PersistenceNext ==
    \/ OpenDatabase \/ ApplyMigration \/ CommitMigration \/ MigrationFails \/ Opened
    \/ KillProcess
    \/ \E version \in 1..MaxDbVersion : UpsertIfNewer(version)
    \/ PersistTable \/ CommitContext \/ UpsertFails \/ UpsertReturns \/ EraseContext
    \/ \E s \in DbSessions : UpsertSession(s) \/ EraseStoredSession(s)
    \/ RecordEvent \/ RecordFails \/ AuditEventsAfter \/ EraseAuditEventsBefore
    \/ TimePasses

PersistenceSpec == PersistenceInit /\ [][PersistenceNext]_persistenceVars

-----------------------------------------------------------------------------
(* Properties. *)

ContextIsWhole == LoadMembershipContext(disk) # "inconsistent"

AcknowledgedIsKept ==
    /\ disk.context["membership_contexts"] >= acked.version
    /\ acked.sessions \subseteq disk.sessions

CursorMissesNothing == \A e \in disk.audit \ readEvents : e.seq > cursor

\* Whenever the process ends and whichever statement fails, the file holds a whole
\* membership context or none, and everything a caller was told is written; no event is
\* erased before its time, although times are cut to milliseconds; and a reader that
\* pages by sequence (auditEventsAfter) misses no event.  Excepted from the last is a
\* database whose migration to version 4 set the sequence back.
RepositoryIsReliable ==
    /\ ContextIsWhole
    /\ AcknowledgedIsKept
    /\ ~early
    /\ ~renumbered => CursorMissesNothing
=============================================================================
