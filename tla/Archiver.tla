------------------------------ MODULE Archiver ------------------------------
(***************************************************************************)
(* The life of the audit_events partitions: created by the registry when   *)
(* it starts (ensure_audit_partition, services/registry/src/main.rs) and   *)
(* by the audit archiver (services/audit-archiver/src), which exports the  *)
(* expired ones to cold storage and drops them.                            *)
(*                                                                         *)
(* A job is one run of the archiver; each statement and each storage call  *)
(* is an action.  Months all have MonthDays days and a partition bears the *)
(* number of the month it is named after.  The registry's `now + 32 days'  *)
(* is one day more than the longest month, MonthDays + 1 here.  The        *)
(* conversion to Parquet is left out: it cannot fail for a row of the      *)
(* table, every column the schema requires is NOT NULL (migration 006).    *)
(***************************************************************************)
EXTENDS Naturals, FiniteSets

CONSTANTS
  Jobs,         \* archiver processes that may be running at a time
  Events,       \* audit events
  MonthDays,    \* days of a month
  Advance,      \* RetentionConfig.advance_partition_days
  Retention,    \* RetentionConfig.hot_retention_days
  MaxDay        \* bound: the last day

\* The default retention, 90 days, is longer than a month.
ASSUME ArchiverAssumption ==
  /\ {MonthDays, Advance, Retention, MaxDay} \subseteq Nat
  /\ MonthDays > 0
  /\ Retention >= MonthDays

MonthOf(day) == day \div MonthDays

FirstDay(m) == m * MonthDays

Months == 0..(MaxDay + MonthDays + Advance + 1)

VARIABLES
  today,        \* the date
  backend,      \* StorageConfig.backend
  part,         \* [Months -> the table named after the month]
  rows,         \* [Months -> the events in that table]
  archive,      \* [Months -> the object under the table's storage key]
  lock,         \* who holds the advisory lock
  job,          \* [Jobs -> what the run knows and does next]
  born          \* history: [Events -> the day it was recorded, plus one]

vars == <<today, backend, part, rows, archive, lock, job, born>>

-----------------------------------------------------------------------------
NoTable == [state |-> "none", end |-> 0]

\* `end' is the first month the table is not for.
Table == [state : {"none", "attached", "detaching", "detached"}, end : Nat]

\* `cut' is a file that was begun and not finished.
NoObject == [state |-> "none", holds |-> {}]
Cut      == [state |-> "cut", holds |-> {}]
Complete(E) == [state |-> "complete", holds |-> E]
Object   == {NoObject, Cut} \cup {Complete(E) : E \in SUBSET Events}

Nobody == "nobody"

Idle == [at |-> "idle", date |-> 0, todo |-> {}, m |-> 0, held |-> {}]

Stages == {"idle", "create", "list", "next", "check", "export", "upload", "write",
           "verify", "detach", "detaching", "drop"}

Run == [at : Stages, date : Nat, todo : SUBSET Months, m : Months, held : SUBSET Events]

Covers(m, month) == part[m].state # "none" /\ m <= month /\ month < part[m].end

\* The parent table's partitions, a pending detach included.
Listed(m) == part[m].state \in {"attached", "detaching"}

\* CREATE TABLE m PARTITION OF audit_events: the name must be free, and the range
\* disjoint from every partition's.
MayCreate(m, end) ==
  /\ part[m].state = "none"
  /\ \A k \in Months : Listed(k) => k >= end \/ part[k].end <= m

Create(m, end) == part' = [part EXCEPT ![m] = [state |-> "attached", end |-> end]]

Init ==
  /\ today = 0
  /\ backend \in {"S3", "LocalFs"}
  /\ part = [m \in Months |-> NoTable]
  /\ rows = [m \in Months |-> {}]
  /\ archive = [m \in Months |-> NoObject]
  /\ lock = Nobody
  /\ job = [j \in Jobs |-> Idle]
  /\ born = [e \in Events |-> 0]

-----------------------------------------------------------------------------
(* The registry *)

\* A start of the registry: a table named after the month of today, up to the
\* month of the day MonthDays + 1 from now.
EnsureAuditPartition ==
  /\ MayCreate(MonthOf(today), MonthOf(today + MonthDays + 1))
  /\ Create(MonthOf(today), MonthOf(today + MonthDays + 1))
  /\ UNCHANGED <<today, backend, rows, archive, lock, job, born>>

\* An INSERT goes to the attached partition for today, or fails.
RecordEvent(e) ==
  /\ born[e] = 0
  /\ \E m \in Months :
       /\ part[m].state = "attached" /\ Covers(m, MonthOf(today))
       /\ rows' = [rows EXCEPT ![m] = @ \cup {e}]
  /\ born' = [born EXCEPT ![e] = today + 1]
  /\ UNCHANGED <<today, backend, part, archive, lock, job>>

-----------------------------------------------------------------------------
(* The archiver *)

Step(j, at) == job' = [job EXCEPT ![j].at = at]

\* The months of a date up to the one Advance days later.
PartitionsToCreate(date) == MonthOf(date)..MonthOf(date + Advance)

\* pg_try_advisory_lock; a run that does not get it ends at once.
Start(j) ==
  /\ job[j] = Idle
  /\ lock = Nobody
  /\ lock' = j
  /\ job' = [job EXCEPT ![j] =
       [Idle EXCEPT !.at = "create", !.date = today,
                    !.todo = PartitionsToCreate(today)]]
  /\ UNCHANGED <<today, backend, part, rows, archive, born>>

\* The months in order; a failure to create one is
\* logged and the next is tried.
CreatePartition(j) ==
  /\ job[j].at = "create"
  /\ \/ /\ job[j].todo = {}
        /\ Step(j, "list")
        /\ UNCHANGED part
     \/ \E m \in job[j].todo :
          /\ \A k \in job[j].todo : m <= k
          /\ \/ MayCreate(m, m + 1) /\ Create(m, m + 1)
             \/ UNCHANGED part
          /\ job' = [job EXCEPT ![j].todo = @ \ {m}]
  /\ UNCHANGED <<today, backend, rows, archive, lock, born>>

\* A slip: the first day of a partition decides, not the one after its last.
ExpiredByStart(m, date) == FirstDay(m) + Retention <= date

\* partitions_to_archive, with the range that the name of the table implies.
Expired(m, date) == FirstDay(m + 1) + Retention <= date

ListExpired(j) ==
  /\ job[j].at = "list"
  /\ job' = [job EXCEPT ![j] =
       [Idle EXCEPT !.at = "next",
                    !.todo = {m \in Months : Listed(m) /\ Expired(m, job[j].date)}]]
  /\ UNCHANGED <<today, backend, part, rows, archive, lock, born>>

\* The next partition of the list, unless a shutdown was asked for (End).
TakePartition(j) ==
  /\ job[j].at = "next"
  /\ \E m \in job[j].todo :
       /\ \A k \in job[j].todo : m <= k
       /\ job' = [job EXCEPT ![j].at = "check", ![j].m = m, ![j].todo = @ \ {m}]
  /\ UNCHANGED <<today, backend, part, rows, archive, lock, born>>

\* The partition is given up: the storage or the database failed, the table is
\* gone or could not be detached, perhaps half-way.
GiveUp(j) ==
  /\ job[j].at \notin {"idle", "create", "list", "next"}
  /\ job' = [job EXCEPT ![j] = [Idle EXCEPT !.at = "next", !.todo = job[j].todo]]
  /\ UNCHANGED <<today, backend, part, rows, archive, lock, born>>

\* An object under the key is taken for the partition's archive.
CheckArchived(j) ==
  /\ job[j].at = "check"
  /\ IF archive[job[j].m] = NoObject THEN Step(j, "export") ELSE Step(j, "detach")
  /\ UNCHANGED <<today, backend, part, rows, archive, lock, born>>

\* One SELECT reads the whole table, attached or not; an empty one is dropped.
Export(j) ==
  /\ job[j].at = "export"
  /\ part[job[j].m].state # "none"
  /\ IF rows[job[j].m] = {}
     THEN Step(j, "detach")
     ELSE job' = [job EXCEPT ![j].at = "upload", ![j].held = rows[job[j].m]]
  /\ UNCHANGED <<today, backend, part, rows, archive, lock, born>>

\* A slip: a failed upload is not an early return.
UploadObjectAnyhow(j) ==
  /\ job[j].at = "upload" /\ backend = "S3"
  /\ archive' \in {archive, [archive EXCEPT ![job[j].m] = Complete(job[j].held)]}
  /\ job' = [job EXCEPT ![j].at = "detach", ![j].held = {}]
  /\ UNCHANGED <<today, backend, part, rows, lock, born>>

\* put_object stores all or nothing; its reply may be lost, see GiveUp.
UploadObject(j) ==
  /\ job[j].at = "upload" /\ backend = "S3"
  /\ archive' = [archive EXCEPT ![job[j].m] = Complete(job[j].held)]
  /\ job' = [job EXCEPT ![j].at = "verify", ![j].held = {}]
  /\ UNCHANGED <<today, backend, part, rows, lock, born>>

\* fs::write truncates the file, then fills it.
BeginFile(j) ==
  /\ job[j].at = "upload" /\ backend = "LocalFs"
  /\ archive' = [archive EXCEPT ![job[j].m] = Cut]
  /\ Step(j, "write")
  /\ UNCHANGED <<today, backend, part, rows, lock, born>>

FinishFile(j) ==
  /\ job[j].at = "write"
  /\ archive' = [archive EXCEPT ![job[j].m] = Complete(job[j].held)]
  /\ job' = [job EXCEPT ![j].at = "verify", ![j].held = {}]
  /\ UNCHANGED <<today, backend, part, rows, lock, born>>

VerifyUpload(j) ==
  /\ job[j].at = "verify"
  /\ archive[job[j].m] # NoObject
  /\ Step(j, "detach")
  /\ UNCHANGED <<today, backend, part, rows, archive, lock, born>>

\* DETACH PARTITION CONCURRENTLY commits twice: once to mark the partition, and
\* once, when nobody uses it any more, to take it off.  A mark that is there
\* already is an error.
BeginDetach(j) ==
  /\ job[j].at = "detach"
  /\ part[job[j].m].state = "attached"
  /\ part' = [part EXCEPT ![job[j].m].state = "detaching"]
  /\ Step(j, "detaching")
  /\ UNCHANGED <<today, backend, rows, archive, lock, born>>

\* A slip: a state nobody knows.
FinishDetachRenamed(j) ==
  /\ job[j].at = "detaching"
  /\ part' = [part EXCEPT ![job[j].m].state = "gone"]
  /\ Step(j, "drop")
  /\ UNCHANGED <<today, backend, rows, archive, lock, born>>

FinishDetach(j) ==
  /\ job[j].at = "detaching"
  /\ part' = [part EXCEPT ![job[j].m].state = "detached"]
  /\ Step(j, "drop")
  /\ UNCHANGED <<today, backend, rows, archive, lock, born>>

DropPartition(j) ==
  /\ job[j].at = "drop"
  /\ part' = [part EXCEPT ![job[j].m] = NoTable]
  /\ rows' = [rows EXCEPT ![job[j].m] = {}]
  /\ job' = [job EXCEPT ![j] = [Idle EXCEPT !.at = "next", !.todo = job[j].todo]]
  /\ UNCHANGED <<today, backend, archive, lock, born>>

\* The last partition done, a shutdown signal between two, an error of the listing,
\* or a crash anywhere: the connections close, and the lock with the session.
End(j) ==
  /\ job[j] # Idle
  /\ job' = [job EXCEPT ![j] = Idle]
  /\ lock' = IF lock = j THEN Nobody ELSE lock
  /\ UNCHANGED <<today, backend, part, rows, archive, born>>

\* The lock belongs to the session of one pooled connection, which the pool may
\* close and replace while the run goes on.
LoseLock ==
  /\ lock # Nobody
  /\ lock' = Nobody
  /\ UNCHANGED <<today, backend, part, rows, archive, job, born>>

NextDay ==
  /\ today < MaxDay
  /\ today' = today + 1
  /\ UNCHANGED <<backend, part, rows, archive, lock, job, born>>

Archive(j) ==
  \/ CheckArchived(j) \/ Export(j)
  \/ UploadObject(j) \/ BeginFile(j) \/ FinishFile(j) \/ VerifyUpload(j)
  \/ BeginDetach(j) \/ FinishDetach(j) \/ DropPartition(j)
  \/ GiveUp(j)

Next ==
  \/ EnsureAuditPartition
  \/ \E e \in Events : RecordEvent(e)
  \/ \E j \in Jobs :
       \/ Start(j) \/ CreatePartition(j) \/ ListExpired(j) \/ TakePartition(j)
       \/ Archive(j)
       \/ End(j)
  \/ LoseLock
  \/ NextDay

Spec == Init /\ [][Next]_vars

-----------------------------------------------------------------------------
\* The type of every variable.
TypeOK ==
  /\ today \in 0..MaxDay
  /\ backend \in {"S3", "LocalFs"}
  /\ part \in [Months -> Table]
  /\ rows \in [Months -> SUBSET Events]
  /\ archive \in [Months -> Object]
  /\ lock \in Jobs \cup {Nobody}
  /\ job \in [Jobs -> Run]
  /\ born \in [Events -> Nat]

Visible(e) == \E m \in Months : part[m].state = "attached" /\ e \in rows[m]

Archived(e) == \E m \in Months : e \in archive[m].holds

\* An event recorded on a day is in the table named after that month, or after the
\* month before.
HomeOf(e, m) == born[e] # 0 /\ MonthOf(born[e] - 1) \in {m, m + 1}

\* Every recorded event can be found by a query on audit_events or in cold storage,
\* whichever runs overlap, lose the lock or crash; but for a file of its months that
\* the local backend left unfinished, which the next run takes for the archive.
NothingLost ==
  \A e \in Events :
    born[e] # 0 =>
      \/ Visible(e)
      \/ Archived(e)
      \/ \E m \in Months : HomeOf(e, m) /\ archive[m] = Cut

\* The partition today's events go to is never detached.
CurrentStays ==
  [][\A m \in Months :
       part[m].state = "attached" /\ part'[m].state # "attached" =>
         part[m].end <= MonthOf(today)]_vars

\* An event leaves PostgreSQL no earlier than the retention less a month: a table
\* may hold the events of the month after the one it is named after, and its age is
\* taken from its name.
KeptUntilNamedAge ==
  [][\A e \in Events :
       (\E m \in Months : e \in rows[m] /\ e \notin rows'[m]) =>
         born[e] + Retention <= today + MonthDays]_vars

-----------------------------------------------------------------------------
(* What the documentation says and the code does not do. *)

\* "How many days to keep partitions in PostgreSQL": an event stays at least the
\* retention.
KeptForRetention ==
  [][\A e \in Events :
       (\E m \in Months : e \in rows[m] /\ e \notin rows'[m]) =>
         born[e] + Retention <= today]_vars
=============================================================================
