--------------------------- MODULE ArchiverProof ---------------------------
(***************************************************************************)
(* Proofs about Archiver: no event is lost by overlapping, crashing or     *)
(* lockless runs, for any number of jobs and events and any length of a    *)
(* month, and partitions leave PostgreSQL as late as the runs check.       *)
(***************************************************************************)
EXTENDS Archiver, TLAPS

-----------------------------------------------------------------------------
(* Days and months *)

\* A day lies in its month, and months are numbered like days from 0.
LEMMA MonthBounds ==
  ASSUME NEW day \in Nat
  PROVE  /\ MonthOf(day) \in Nat
         /\ MonthOf(day) <= day
         /\ FirstDay(MonthOf(day)) <= day
         /\ day < FirstDay(MonthOf(day) + 1)
BY ArchiverAssumption DEF MonthOf, FirstDay

\* The first days of the months are in the order of the months.
LEMMA FirstDays ==
  ASSUME NEW m \in Nat
  PROVE  /\ FirstDay(m) \in Nat
         /\ FirstDay(m + 1) = FirstDay(m) + MonthDays
         /\ \A k \in Nat : m <= k => FirstDay(m) <= FirstDay(k)
         /\ \A k \in Nat : FirstDay(m) < FirstDay(k) => m < k
BY ArchiverAssumption DEF FirstDay

\* A table made by the registry is for one month or for two.
LEMMA WideEnd ==
  ASSUME NEW day \in Nat
  PROVE  /\ MonthOf(day + MonthDays + 1) \in Nat
         /\ MonthOf(day) < MonthOf(day + MonthDays + 1)
         /\ MonthOf(day + MonthDays + 1) <= MonthOf(day) + 2
<1> DEFINE m == MonthOf(day)
           k == MonthOf(day + MonthDays + 1)
<1>1. /\ m \in Nat /\ k \in Nat
      /\ FirstDay(m) <= day /\ day < FirstDay(m + 1)
      /\ FirstDay(k) <= day + MonthDays + 1 /\ day + MonthDays + 1 < FirstDay(k + 1)
      BY MonthBounds, ArchiverAssumption
<1>2. /\ FirstDay(m + 1) < FirstDay(k + 1)
      /\ FirstDay(k) < FirstDay(m + 3)
  <2>1. /\ FirstDay(m) \in Nat /\ FirstDay(m + 1) = FirstDay(m) + MonthDays
        /\ FirstDay(m + 2) = FirstDay(m + 1) + MonthDays
        /\ FirstDay(m + 3) = FirstDay(m + 2) + MonthDays
        /\ FirstDay(k) \in Nat /\ FirstDay(k + 1) \in Nat
    <3>1. /\ m + 1 \in Nat /\ m + 2 \in Nat /\ k + 1 \in Nat
          /\ (m + 1) + 1 = m + 2 /\ (m + 2) + 1 = m + 3
          BY <1>1
    <3> QED BY <1>1, <3>1, FirstDays
  <2> HIDE DEF m, k
  <2> QED BY <1>1, <2>1, ArchiverAssumption
<1>3. m + 1 < k + 1
  <2>1. m + 1 \in Nat /\ k + 1 \in Nat
        BY <1>1
  <2> QED BY <1>2, <2>1, FirstDays
<1>4. k < m + 3
  <2>1. m + 3 \in Nat
        BY <1>1
  <2> QED BY <1>1, <1>2, <2>1, FirstDays
<1> QED BY <1>1, <1>3, <1>4

\* A partition that has expired once stays expired.
LEMMA ExpiredLater ==
  ASSUME NEW m \in Nat, NEW d \in Nat, NEW e \in Nat, d <= e, Expired(m, d)
  PROVE  Expired(m, e)
<1>1. FirstDay(m + 1) \in Nat
      BY FirstDays
<1> QED BY <1>1, ArchiverAssumption DEF Expired

\* When a partition has expired, so has the month after the one in its name.
LEMMA ExpiredClosed ==
  ASSUME NEW m \in Nat, NEW d \in Nat, Expired(m, d)
  PROVE  m + 2 <= MonthOf(d)
<1>1. /\ MonthOf(d) \in Nat /\ d < FirstDay(MonthOf(d) + 1)
      BY MonthBounds
<1>2. FirstDay(m + 1) \in Nat /\ FirstDay(m + 2) = FirstDay(m + 1) + MonthDays
  <2>1. m + 1 \in Nat /\ (m + 1) + 1 = m + 2
        OBVIOUS
  <2> QED BY <2>1, FirstDays
<1>3. FirstDay(MonthOf(d) + 1) \in Nat
      BY <1>1, FirstDays
<1>4. FirstDay(m + 2) < FirstDay(MonthOf(d) + 1)
      BY <1>1, <1>2, <1>3, ArchiverAssumption DEF Expired
<1>5. m + 2 < MonthOf(d) + 1
      BY <1>1, <1>4, FirstDays
<1> QED BY <1>1, <1>5

\* An event of a month or the next was recorded before the month after began.
LEMMA HomeDay ==
  ASSUME NEW m \in Nat, NEW day \in Nat, MonthOf(day) \in {m, m + 1}
  PROVE  day < FirstDay(m + 1) + MonthDays
<1>1. day < FirstDay(MonthOf(day) + 1)
      BY MonthBounds
<1>2. /\ FirstDay(m + 1) \in Nat
      /\ FirstDay(m + 2) = FirstDay(m + 1) + MonthDays
  <2>1. m + 1 \in Nat /\ (m + 1) + 1 = m + 2
        OBVIOUS
  <2> QED BY <2>1, FirstDays
<1>3. CASE MonthOf(day) = m
      BY <1>1, <1>2, <1>3, ArchiverAssumption
<1>4. CASE MonthOf(day) = m + 1
  <2>1. MonthOf(day) + 1 = m + 2
        BY <1>4
  <2> QED BY <1>1, <1>2, <2>1
<1> QED BY <1>3, <1>4

-----------------------------------------------------------------------------
(* The inductive invariant *)

Unlisted == {"idle", "create", "list"}

\* A table is for no month after the one that follows the month of its name.
TablesShort == \A m \in Months : part[m].end <= m + 2

\* What a run is about, it may archive.
Entitled(r, day) ==
  /\ r.date <= day
  /\ r.at \notin Unlisted => \A m \in r.todo : Expired(m, day)
  /\ r.at \notin Unlisted \cup {"next"} => Expired(r.m, day)

RunsEntitled == \A j \in Jobs : Entitled(job[j], today)

ArchivesExpired == \A m \in Months : archive[m] # NoObject => Expired(m, today)

RowsPlaced ==
  \A m \in Months : \A e \in rows[m] : HomeOf(e, m) /\ part[m].state # "none"

\* A run that has read the table named m and not stored it yet has read e.
ReadWith(e, m, r) == r.at \in {"upload", "write"} /\ r.m = m => e \in r.held

\* No run takes the table named m off.
Spared(m, r) == r.at \in {"detach", "detaching", "drop"} => r.m # m

\* The table named m, or the object with its key, keeps e.
Kept(e, m) ==
  /\ HomeOf(e, m)
  /\ rows[m] = {} \/ e \in rows[m]
  /\ archive[m].state = "complete" => e \in archive[m].holds
  /\ \A j \in Jobs : ReadWith(e, m, job[j])
  /\ \/ archive[m] # NoObject
     \/ /\ e \in rows[m] /\ part[m].state = "attached"
        /\ \A j \in Jobs : Spared(m, job[j])

EventsKept == \A e \in Events : born[e] # 0 => \E m \in Months : Kept(e, m)

Placed == TypeOK /\ TablesShort /\ RunsEntitled /\ ArchivesExpired /\ RowsPlaced

Inv == Placed /\ EventsKept

\* An object in storage is missing, cut off or complete.
LEMMA ObjectForms ==
  ASSUME NEW o \in Object
  PROVE  o = NoObject \/ o = Cut \/ o.state = "complete"
BY DEF Object, Complete

\* Nothing is recorded or archived at first.
LEMMA InvInit == Init => Inv
<1> SUFFICES ASSUME Init PROVE Inv
    OBVIOUS
<1>1. TypeOK
      BY ArchiverAssumption DEF Init, TypeOK, NoTable, Table, Object, Idle, Run, Stages, Months
<1>2. RunsEntitled
      BY DEF Init, RunsEntitled, Entitled, Idle, Unlisted
<1>3. TablesShort
      BY DEF Init, TablesShort, NoTable, Months
<1> QED BY <1>1, <1>2, <1>3 DEF Init, Inv, Placed, ArchivesExpired, RowsPlaced, EventsKept

\* A record a run may move to: of its type, about partitions it may archive, with all
\* that is to be kept in hand, and off to a table only when the object is there or the
\* table is empty.
MayBecome(r) ==
  /\ r \in Run
  /\ Entitled(r, today)
  /\ r.at \in {"upload", "write"} => \A e \in Events : Kept(e, r.m) => e \in r.held
  /\ r.at \in {"detach", "detaching", "drop"} => archive[r.m] # NoObject \/ rows[r.m] = {}

\* Steps that leave the events where they are: runs move on, the lock changes hands,
\* tables are created.
LEMMA RunsMove ==
  ASSUME Inv,
         UNCHANGED <<today, backend, rows, archive, born>>,
         lock' \in Jobs \cup {Nobody},
         job' \in [Jobs -> Run],
         \A j \in Jobs : job'[j] = job[j] \/ MayBecome(job'[j]),
         part' \in [Months -> Table],
         \A m \in Months : part[m].state # "none" => part'[m] = part[m],
         TablesShort'
  PROVE  Inv'
<1>1. TypeOK'
      BY DEF Inv, Placed, TypeOK
<1>2. RunsEntitled'
      BY DEF Inv, Placed, RunsEntitled, MayBecome
<1>3. ArchivesExpired'
      BY DEF Inv, Placed, ArchivesExpired
<1>4. RowsPlaced'
      BY DEF Inv, Placed, RowsPlaced, HomeOf
<1>5. EventsKept'
  <2> SUFFICES ASSUME NEW e \in Events, born[e] # 0
               PROVE  \E m \in Months : Kept(e, m)'
      BY DEF EventsKept
  <2>1. PICK m \in Months : Kept(e, m)
        BY DEF Inv, EventsKept
  <2>2. HomeOf(e, m)' /\ (rows[m] = {} \/ e \in rows[m])'
        BY <2>1 DEF Kept, HomeOf
  <2>3. (archive[m].state = "complete" => e \in archive[m].holds)'
        BY <2>1 DEF Kept
  <2>4. ASSUME NEW j \in Jobs PROVE ReadWith(e, m, job[j])'
        BY <2>1 DEF Kept, ReadWith, MayBecome
  <2>5. \/ (archive[m] # NoObject)'
        \/ /\ (e \in rows[m] /\ part[m].state = "attached")'
           /\ \A j \in Jobs : Spared(m, job[j])'
    <3>1. CASE archive[m] # NoObject
          BY <3>1
    <3>2. CASE /\ e \in rows[m] /\ part[m].state = "attached"
               /\ archive[m] = NoObject
               /\ \A j \in Jobs : Spared(m, job[j])
      <4>1. ASSUME NEW j \in Jobs PROVE Spared(m, job[j])'
            BY <3>2 DEF Spared, MayBecome
      <4> QED BY <3>2, <4>1
    <3> QED BY <2>1, <3>1, <3>2 DEF Kept
  <2> QED BY <2>2, <2>3, <2>4, <2>5 DEF Kept
<1> QED BY <1>1, <1>2, <1>3, <1>4, <1>5 DEF Inv, Placed

\* A run that goes on to a state it may be in, with the tables and the archive
\* as they were.
LEMMA OneMoves ==
  ASSUME Inv, NEW j \in Jobs, NEW r, MayBecome(r),
         job' = [job EXCEPT ![j] = r],
         lock' \in Jobs \cup {Nobody},
         UNCHANGED <<today, backend, part, rows, archive, born>>
  PROVE  Inv'
<1>1. job' \in [Jobs -> Run] /\ part' \in [Months -> Table]
      BY DEF Inv, Placed, TypeOK, MayBecome
<1>2. \A k \in Jobs : job'[k] = job[k] \/ MayBecome(job'[k])
      BY DEF Inv, Placed, TypeOK
<1>3. TablesShort'
      BY DEF Inv, Placed, TablesShort
<1> QED BY <1>1, <1>2, <1>3, RunsMove

\* Today is in some month.
LEMMA Today ==
  ASSUME Inv
  PROVE  today \in Nat /\ MonthOf(today) \in Nat /\ MonthOf(today) \in Months
<1>1. today \in Nat /\ today <= MaxDay
      BY ArchiverAssumption DEF Inv, Placed, TypeOK
<1> QED BY <1>1, MonthBounds, ArchiverAssumption DEF Months

\* What a run that works on a partition is: the fields its steps rest on.
LEMMA Working ==
  ASSUME Inv, NEW j \in Jobs
  PROVE  /\ job[j] \in Run /\ job[j].at \in Stages /\ job[j].date \in Nat
         /\ job[j].m \in Months /\ job[j].todo \in SUBSET Months
         /\ job[j].held \in SUBSET Events
         /\ Entitled(job[j], today)
         /\ today \in Nat
BY DEF Inv, Placed, TypeOK, RunsEntitled, Run

\* A run that is over holds nothing.
LEMMA IdleForm ==
  /\ Idle \in Run
  /\ Idle.at = "idle" /\ Idle.date = 0 /\ Idle.todo = {}
<1>1. 0 \in Months
      BY ArchiverAssumption DEF Months
<1> QED BY <1>1 DEF Idle, Run, Stages

\* The run goes on to the next partition.
Ahead(r) == [Idle EXCEPT !.at = "next", !.todo = r.todo]

\* The next stage of a run that has its list is one it may be in.
LEMMA MayGoAhead ==
  ASSUME Inv, NEW j \in Jobs, job[j].at \notin Unlisted
  PROVE  MayBecome(Ahead(job[j]))
<1>1. /\ Ahead(job[j]).at = "next" /\ Ahead(job[j]).date = 0
      /\ Ahead(job[j]).todo = job[j].todo
      BY IdleForm DEF Ahead, Run
<1>2. Ahead(job[j]) \in Run
      BY Working, IdleForm DEF Ahead, Run, Stages
<1>3. Entitled(Ahead(job[j]), today)
      BY <1>1, Working DEF Entitled, Unlisted
<1> HIDE DEF Ahead
<1> QED BY <1>1, <1>2, <1>3 DEF MayBecome

\* The same partition, at another stage.
LEMMA MayTurnTo ==
  ASSUME Inv, NEW j \in Jobs, NEW at \in Stages \ (Unlisted \cup {"next"}), NEW held \in SUBSET Events,
         job[j].at \notin Unlisted \cup {"next"},
         NEW r, r = [job[j] EXCEPT !.at = at, !.held = held],
         at \in {"upload", "write"} => \A e \in Events : Kept(e, job[j].m) => e \in held,
         at \in {"detach", "detaching", "drop"} =>
           archive[job[j].m] # NoObject \/ rows[job[j].m] = {}
  PROVE  MayBecome(r)
<1>1. /\ r.at = at /\ r.held = held /\ r.date = job[j].date
      /\ r.todo = job[j].todo /\ r.m = job[j].m /\ r \in Run
      BY Working DEF Run
<1>2. Entitled(r, today)
      BY <1>1, Working DEF Entitled
<1> QED BY <1>1, <1>2 DEF MayBecome

\* A run starts: it takes the lock and reads the date.
LEMMA StartStep ==
  ASSUME Inv, NEW j \in Jobs, Start(j)
  PROVE  Inv'
<1> DEFINE todo == PartitionsToCreate(today)
           r == [Idle EXCEPT !.at = "create", !.date = today, !.todo = todo]
<1>1. today \in Nat /\ today <= MaxDay /\ today + Advance \in Nat
      BY ArchiverAssumption DEF Inv, Placed, TypeOK
<1>2. todo \subseteq Months
      BY <1>1, MonthBounds, ArchiverAssumption DEF Months, PartitionsToCreate
<1>3. /\ r.at = "create" /\ r.date = today
      /\ r \in Run
      BY <1>1, <1>2, IdleForm DEF Run, Stages
<1>4. Entitled(r, today)
      BY <1>1, <1>3 DEF Entitled, Unlisted
<1>5. MayBecome(r)
      BY <1>3, <1>4 DEF MayBecome
<1>6. /\ job' = [job EXCEPT ![j] = r] /\ lock' \in Jobs \cup {Nobody}
      /\ UNCHANGED <<today, backend, part, rows, archive, born>>
      BY DEF Start
<1> HIDE DEF r
<1> QED BY <1>5, <1>6, OneMoves

\* A coming month's table has no events yet.
LEMMA CreatePartitionStep ==
  ASSUME Inv, NEW j \in Jobs, CreatePartition(j)
  PROVE  Inv'
<1>1. PICK r \in {[job[j] EXCEPT !.at = "list"]} \cup
                 {[job[j] EXCEPT !.todo = @ \ {m}] : m \in Months} :
        job' = [job EXCEPT ![j] = r]
      BY Working DEF CreatePartition, Step, Inv, Placed, TypeOK
<1>2. job[j].at = "create"
      BY DEF CreatePartition
<1>3. r \in Run /\ r.at \in {"create", "list"} /\ r.date = job[j].date
      BY <1>1, <1>2, Working DEF Run, Stages
<1>4. MayBecome(r)
      BY <1>3, Working DEF MayBecome, Entitled, Unlisted
<1>5. part' = part \/ \E m \in Months : MayCreate(m, m + 1) /\ Create(m, m + 1)
      BY Working DEF CreatePartition
<1>6. /\ part' \in [Months -> Table]
      /\ \A m \in Months : part[m].state # "none" => part'[m] = part[m]
      /\ TablesShort'
  <2>1. CASE part' = part
        BY <2>1 DEF Inv, Placed, TypeOK, TablesShort
  <2>2. ASSUME NEW m \in Months, MayCreate(m, m + 1), Create(m, m + 1)
        PROVE  /\ part' \in [Months -> Table]
               /\ \A k \in Months : part[k].state # "none" => part'[k] = part[k]
               /\ TablesShort'
    <3>1. m \in Nat
          BY DEF Months
    <3>2. part' = [part EXCEPT ![m] = [state |-> "attached", end |-> m + 1]]
          BY <2>2 DEF Create
    <3>3. part \in [Months -> Table] /\ part[m].state = "none"
          BY <2>2 DEF MayCreate, Inv, Placed, TypeOK
    <3>4. part' \in [Months -> Table]
          BY <3>1, <3>2, <3>3 DEF Table
    <3>5. TablesShort'
          BY <3>1, <3>2, <3>3 DEF TablesShort, Inv, Placed
    <3> QED BY <3>2, <3>3, <3>4, <3>5
  <2> QED BY <1>5, <2>1, <2>2
<1>7. /\ UNCHANGED <<today, backend, rows, archive, born>> /\ lock' \in Jobs \cup {Nobody}
      /\ job' \in [Jobs -> Run]
      /\ \A k \in Jobs : job'[k] = job[k] \/ MayBecome(job'[k])
      BY <1>1, <1>3, <1>4 DEF CreatePartition, Inv, Placed, TypeOK
<1> QED BY <1>6, <1>7, RunsMove

\* The registry's table at its start, which may be one for two months.
LEMMA EnsureAuditPartitionStep ==
  ASSUME Inv, EnsureAuditPartition
  PROVE  Inv'
<1> DEFINE m == MonthOf(today)
           end == MonthOf(today + MonthDays + 1)
<1>1. today \in Nat /\ today <= MaxDay
      BY ArchiverAssumption DEF Inv, Placed, TypeOK
<1>2. m \in Months /\ end \in Nat /\ m < end /\ end <= m + 2
      BY <1>1, MonthBounds, WideEnd, ArchiverAssumption DEF Months
<1>3. MayCreate(m, end) /\ part' = [part EXCEPT ![m] = [state |-> "attached", end |-> end]]
      BY DEF EnsureAuditPartition, Create
<1> HIDE DEF m, end
<1>4. /\ part' \in [Months -> Table]
      /\ \A k \in Months : part[k].state # "none" => part'[k] = part[k]
      /\ TablesShort'
      BY <1>2, <1>3 DEF Inv, Placed, TypeOK, TablesShort, MayCreate, Table
<1>5. /\ UNCHANGED <<today, backend, rows, archive, born, job>> /\ lock' \in Jobs \cup {Nobody}
      /\ job' \in [Jobs -> Run]
      BY DEF EnsureAuditPartition, Inv, Placed, TypeOK
<1> QED BY <1>4, <1>5, RunsMove

\* What is listed has expired by its name, so it takes no more events.
LEMMA ListExpiredStep ==
  ASSUME Inv, NEW j \in Jobs, ListExpired(j)
  PROVE  Inv'
<1> DEFINE todo == {m \in Months : Listed(m) /\ Expired(m, job[j].date)}
           r == [Idle EXCEPT !.at = "next", !.todo = todo]
<1>1. r \in Run /\ r.at = "next" /\ r.date = 0 /\ r.todo = todo
      BY IdleForm DEF Run, Stages
<1>2. \A m \in todo : Expired(m, today)
  <2> SUFFICES ASSUME NEW m \in todo PROVE Expired(m, today)
      OBVIOUS
  <2>1. m \in Nat /\ Expired(m, job[j].date)
        BY DEF Months
  <2>2. job[j].date \in Nat /\ today \in Nat /\ job[j].date <= today
        BY Working DEF Entitled
  <2> QED BY <2>1, <2>2, ExpiredLater
<1>3. /\ job' = [job EXCEPT ![j] = r] /\ lock' \in Jobs \cup {Nobody}
      /\ UNCHANGED <<today, backend, part, rows, archive, born>>
      BY DEF ListExpired, Inv, Placed, TypeOK
<1> HIDE DEF r, todo
<1>4. Entitled(r, today)
      BY <1>1, <1>2, Working DEF Entitled, Unlisted
<1> QED BY <1>1, <1>3, <1>4, OneMoves DEF MayBecome

\* A run takes one partition off its list.
LEMMA TakePartitionStep ==
  ASSUME Inv, NEW j \in Jobs, TakePartition(j)
  PROVE  Inv'
<1>1. PICK m \in job[j].todo :
        job' = [job EXCEPT ![j].at = "check", ![j].m = m, ![j].todo = @ \ {m}]
      BY DEF TakePartition
<1> DEFINE r == [job[j] EXCEPT !.at = "check", !.m = m, !.todo = @ \ {m}]
<1>2. job[j].at = "next" /\ m \in Months
      BY <1>1, Working DEF TakePartition
<1>3. /\ r \in Run /\ r.at = "check" /\ r.date = job[j].date
      /\ r.m = m /\ r.todo = job[j].todo \ {m}
      BY <1>2, Working DEF Run, Stages
<1>4. /\ job' = [job EXCEPT ![j] = r] /\ lock' \in Jobs \cup {Nobody}
      /\ UNCHANGED <<today, backend, part, rows, archive, born>>
      BY <1>1 DEF TakePartition, Inv, Placed, TypeOK
<1>5. \A k \in job[j].todo : Expired(k, today)
      BY <1>2, Working DEF Entitled, Unlisted
<1> HIDE DEF r
<1>6. Entitled(r, today)
      BY <1>1, <1>3, <1>5, Working DEF Entitled
<1> QED BY <1>3, <1>4, <1>6, OneMoves DEF MayBecome

\* A run gives up on a partition and leaves everything where it is.
LEMMA GiveUpStep ==
  ASSUME Inv, NEW j \in Jobs, GiveUp(j)
  PROVE  Inv'
<1>1. /\ job' = [job EXCEPT ![j] = Ahead(job[j])] /\ lock' \in Jobs \cup {Nobody}
      /\ UNCHANGED <<today, backend, part, rows, archive, born>>
      BY DEF GiveUp, Ahead, Inv, Placed, TypeOK
<1>2. MayBecome(Ahead(job[j]))
      BY MayGoAhead DEF GiveUp, Unlisted
<1> QED BY <1>1, <1>2, OneMoves

\* An object under the key, cut off or whole, spares the run the export.
LEMMA CheckArchivedStep ==
  ASSUME Inv, NEW j \in Jobs, CheckArchived(j)
  PROVE  Inv'
<1> DEFINE at == IF archive[job[j].m] = NoObject THEN "export" ELSE "detach"
           r == [job[j] EXCEPT !.at = at, !.held = job[j].held]
<1>1. /\ job' = [job EXCEPT ![j] = r] /\ lock' \in Jobs \cup {Nobody}
      /\ UNCHANGED <<today, backend, part, rows, archive, born>>
  <2>1. job' = [job EXCEPT ![j] = [job[j] EXCEPT !.at = at]]
        BY DEF CheckArchived, Step, Inv, Placed, TypeOK
  <2>2. [job[j] EXCEPT !.at = at] = r
        BY Working DEF Run
  <2> QED BY <2>1, <2>2 DEF CheckArchived, Inv, Placed, TypeOK
<1>2. job[j].at = "check"
      BY DEF CheckArchived
<1>3. MayBecome(r)
  <2>1. /\ at \in Stages \ (Unlisted \cup {"next"}) /\ at \notin {"upload", "write"}
        /\ at \in {"detach", "detaching", "drop"} => archive[job[j].m] # NoObject
        BY DEF Stages, Unlisted
  <2>2. job[j].at \notin Unlisted \cup {"next"} /\ job[j].held \in SUBSET Events
        BY <1>2, Working DEF Unlisted
  <2> HIDE DEF at
  <2> QED BY <2>1, <2>2, MayTurnTo
<1> HIDE DEF r
<1> QED BY <1>1, <1>3, OneMoves

\* A run has read the whole table it exports.
LEMMA ExportStep ==
  ASSUME Inv, NEW j \in Jobs, Export(j)
  PROVE  Inv'
<1> DEFINE m == job[j].m
<1>1. /\ job[j].at = "export" /\ m \in Months
      /\ job[j].at \notin Unlisted \cup {"next"} /\ rows[m] \in SUBSET Events
      BY Working DEF Export, Unlisted, Inv, Placed, TypeOK
<1>2. /\ lock' \in Jobs \cup {Nobody}
      /\ UNCHANGED <<today, backend, part, rows, archive, born>>
      BY DEF Export, Inv, Placed, TypeOK
<1>3. CASE rows[m] = {}
  <2> DEFINE r == [job[j] EXCEPT !.at = "detach", !.held = job[j].held]
  <2>1. job' = [job EXCEPT ![j] = [job[j] EXCEPT !.at = "detach"]]
        BY <1>3 DEF Export, Step, Inv, Placed, TypeOK
  <2>2. [job[j] EXCEPT !.at = "detach"] = r
        BY Working DEF Run
  <2>3. MayBecome(r)
    <3>1. "detach" \in Stages \ (Unlisted \cup {"next"})
          BY DEF Stages, Unlisted
    <3>2. job[j].held \in SUBSET Events /\ rows[job[j].m] = {}
          BY <1>3, Working
    <3>3. "detach" \notin {"upload", "write"}
          OBVIOUS
    <3> HIDE DEF m
    <3> QED BY <1>1, <3>1, <3>2, <3>3, MayTurnTo
  <2> QED BY <1>2, <2>1, <2>2, <2>3, OneMoves
<1>4. CASE rows[m] # {}
  <2> DEFINE r == [job[j] EXCEPT !.at = "upload", !.held = rows[m]]
  <2>1. job' = [job EXCEPT ![j] = r]
        BY <1>4 DEF Export, Inv, Placed, TypeOK
  <2>2. \A e \in Events : Kept(e, m) => e \in rows[m]
        BY <1>4 DEF Kept
  <2>3. MayBecome(r)
    <3>1. "upload" \in Stages \ (Unlisted \cup {"next"})
          BY DEF Stages, Unlisted
    <3>2. /\ rows[job[j].m] \in SUBSET Events
          /\ \A e \in Events : Kept(e, job[j].m) => e \in rows[job[j].m]
          BY <1>1, <2>2
    <3>3. "upload" \notin {"detach", "detaching", "drop"}
          OBVIOUS
    <3> HIDE DEF m
    <3> QED BY <1>1, <3>1, <3>2, <3>3, MayTurnTo DEF m
  <2> HIDE DEF r
  <2> QED BY <1>2, <2>1, <2>3, OneMoves
<1> QED BY <1>3, <1>4

\* The check of the upload passes for a complete object only.
LEMMA VerifyUploadStep ==
  ASSUME Inv, NEW j \in Jobs, VerifyUpload(j)
  PROVE  Inv'
<1> DEFINE r == [job[j] EXCEPT !.at = "detach", !.held = job[j].held]
<1>1. /\ job' = [job EXCEPT ![j] = [job[j] EXCEPT !.at = "detach"]]
      /\ lock' \in Jobs \cup {Nobody}
      /\ UNCHANGED <<today, backend, part, rows, archive, born>>
      BY DEF VerifyUpload, Step, Inv, Placed, TypeOK
<1>2. [job[j] EXCEPT !.at = "detach"] = r
      BY Working DEF Run
<1>3. /\ "detach" \in Stages \ (Unlisted \cup {"next"})
      /\ job[j].at \notin Unlisted \cup {"next"} /\ archive[job[j].m] # NoObject
      BY DEF VerifyUpload, Stages, Unlisted
<1>4. MayBecome(r)
      BY <1>3, Working, MayTurnTo
<1> QED BY <1>1, <1>2, <1>4, OneMoves

\* A run ends wherever it is, in the middle of a file too.
LEMMA EndStep ==
  ASSUME Inv, NEW j \in Jobs, End(j)
  PROVE  Inv'
<1>1. MayBecome(Idle)
      BY IdleForm, Working DEF MayBecome, Entitled, Unlisted
<1>2. /\ job' = [job EXCEPT ![j] = Idle] /\ lock' \in Jobs \cup {Nobody}
      /\ UNCHANGED <<today, backend, part, rows, archive, born>>
      BY DEF End, Inv, Placed, TypeOK
<1> QED BY <1>1, <1>2, OneMoves

\* The lock is lost, which nothing here relies on.
LEMMA LoseLockStep ==
  ASSUME Inv, LoseLock
  PROVE  Inv'
<1>1. /\ UNCHANGED <<today, backend, part, rows, archive, born, job>>
      /\ lock' \in Jobs \cup {Nobody}
      /\ job' \in [Jobs -> Run] /\ part' \in [Months -> Table] /\ TablesShort'
      BY DEF LoseLock, Inv, Placed, TypeOK, TablesShort
<1> QED BY <1>1, RunsMove

\* A run stores what it has read, or begins to.
LEMMA StoreStep ==
  ASSUME Inv, NEW j \in Jobs, job[j].at \in {"upload", "write"},
         NEW o \in {Cut, Complete(job[j].held)},
         NEW at \in {"write", "verify"}, NEW held \in {job[j].held, {}},
         at = "write" => held = job[j].held,
         archive' = [archive EXCEPT ![job[j].m] = o],
         job' = [job EXCEPT ![j] = [job[j] EXCEPT !.at = at, !.held = held]],
         UNCHANGED <<today, backend, part, rows, lock, born>>
  PROVE  Inv'
<1> DEFINE r == [job[j] EXCEPT !.at = at, !.held = held]
<1>1. /\ r \in Run /\ r.at = at /\ r.held = held /\ r.date = job[j].date
      /\ r.todo = job[j].todo /\ r.m = job[j].m
      BY Working DEF Run, Stages
<1>2. /\ job[j].m \in Months /\ job[j].held \in SUBSET Events
      /\ Entitled(job[j], today) /\ Expired(job[j].m, today)
      BY Working DEF Entitled, Unlisted
<1>3. /\ o \in Object /\ o # NoObject
      /\ o.state = "complete" => o = Complete(job[j].held)
      /\ Complete(job[j].held).holds = job[j].held
      BY <1>2 DEF Object, Cut, Complete, NoObject
<1>4. job' = [job EXCEPT ![j] = r]
      OBVIOUS
<1> HIDE DEF r
<1>5. TypeOK'
      BY <1>1, <1>3, <1>4 DEF Inv, Placed, TypeOK
<1>6. TablesShort' /\ RowsPlaced'
      BY DEF Inv, Placed, TablesShort, RowsPlaced, HomeOf
<1>7. RunsEntitled'
  <2>1. Entitled(r, today)
        BY <1>1, <1>2 DEF Entitled, Unlisted
  <2> QED BY <2>1, <1>4 DEF RunsEntitled, Inv, Placed, TypeOK
<1>8. ArchivesExpired'
      BY <1>2 DEF ArchivesExpired, Inv, Placed, TypeOK
<1>9. EventsKept'
  <2> SUFFICES ASSUME NEW e \in Events, born[e] # 0
               PROVE  \E m \in Months : Kept(e, m)'
      BY DEF EventsKept
  <2>1. PICK m \in Months : Kept(e, m)
        BY DEF Inv, EventsKept
  <2>2. HomeOf(e, m)' /\ (rows[m] = {} \/ e \in rows[m])'
        BY <2>1 DEF Kept, HomeOf
  <2>3. ASSUME NEW k \in Jobs PROVE ReadWith(e, m, job[k])'
    <3>1. CASE k = j
      <4>1. job'[k] = r /\ ReadWith(e, m, job[j])
            BY <3>1, <1>4, <2>1 DEF Kept, Inv, Placed, TypeOK
      <4> QED BY <4>1, <1>1 DEF ReadWith
    <3>2. CASE k # j
      <4>1. job'[k] = job[k] /\ ReadWith(e, m, job[k])
            BY <3>2, <1>4, <2>1 DEF Kept, Inv, Placed, TypeOK
      <4> QED BY <4>1 DEF ReadWith
    <3> QED BY <3>1, <3>2
  <2>4. /\ (archive[m].state = "complete" => e \in archive[m].holds)'
        /\ \/ (archive[m] # NoObject)'
           \/ /\ (e \in rows[m] /\ part[m].state = "attached")'
              /\ \A k \in Jobs : Spared(m, job[k])'
    <3>1. CASE m = job[j].m
      <4>1. archive'[m] = o /\ e \in job[j].held
            BY <3>1, <1>2, <2>1 DEF Kept, ReadWith, Inv, Placed, TypeOK
      <4> QED BY <4>1, <1>3
    <3>2. CASE m # job[j].m
      <4>1. archive'[m] = archive[m]
            BY <3>2, <1>2 DEF Inv, Placed, TypeOK
      <4>2. ASSUME NEW k \in Jobs, Spared(m, job[k]) PROVE Spared(m, job[k])'
            BY <4>2, <1>1, <1>4 DEF Spared, Inv, Placed, TypeOK
      <4> QED BY <4>1, <4>2, <2>1 DEF Kept
    <3> QED BY <3>1, <3>2
  <2> QED BY <2>2, <2>3, <2>4 DEF Kept
<1> QED BY <1>5, <1>6, <1>7, <1>8, <1>9 DEF Inv, Placed

\* A run takes a table off, or drops it.
LEMMA TakeOffStep ==
  ASSUME Inv, NEW j \in Jobs, job[j].at \in {"detach", "detaching", "drop"},
         NEW t \in Table, t.end \in {0, part[job[j].m].end},
         part' = [part EXCEPT ![job[j].m] = t],
         (rows' = rows /\ t.state # "none") \/ rows' = [rows EXCEPT ![job[j].m] = {}],
         NEW r \in Run, Entitled(r, today),
         r.at \notin {"upload", "write"},
         r.at \in {"detach", "detaching", "drop"} => r.m = job[j].m,
         job' = [job EXCEPT ![j] = r],
         UNCHANGED <<today, backend, archive, lock, born>>
  PROVE  Inv'
<1>1. /\ job[j].m \in Months
      /\ part \in [Months -> Table] /\ rows \in [Months -> SUBSET Events]
      /\ job \in [Jobs -> Run]
      BY Working DEF Inv, Placed, TypeOK
<1>2. TypeOK'
      BY <1>1 DEF Inv, Placed, TypeOK
<1>3. TablesShort'
      BY <1>1 DEF Inv, Placed, TablesShort, Months
<1>4. RunsEntitled' /\ ArchivesExpired'
      BY <1>1 DEF Inv, Placed, RunsEntitled, ArchivesExpired
<1>5. RowsPlaced'
      BY <1>1 DEF Inv, Placed, RowsPlaced, HomeOf
<1>6. EventsKept'
  <2> SUFFICES ASSUME NEW e \in Events, born[e] # 0
               PROVE  \E m \in Months : Kept(e, m)'
      BY DEF EventsKept
  <2>1. PICK m \in Months : Kept(e, m)
        BY DEF Inv, EventsKept
  <2>2. HomeOf(e, m)' /\ (rows[m] = {} \/ e \in rows[m])'
        BY <1>1, <2>1 DEF Kept, HomeOf
  <2>3. (archive[m].state = "complete" => e \in archive[m].holds)'
        BY <2>1 DEF Kept
  <2>4. ASSUME NEW k \in Jobs PROVE ReadWith(e, m, job[k])'
        BY <1>1, <2>1 DEF Kept, ReadWith
  <2>5. \/ (archive[m] # NoObject)'
        \/ /\ (e \in rows[m] /\ part[m].state = "attached")'
           /\ \A k \in Jobs : Spared(m, job[k])'
    <3>1. CASE archive[m] # NoObject
          BY <3>1
    <3>2. CASE /\ e \in rows[m] /\ part[m].state = "attached"
               /\ \A k \in Jobs : Spared(m, job[k])
      <4>1. m # job[j].m
            BY <3>2 DEF Spared
      <4>2. rows'[m] = rows[m] /\ part'[m] = part[m]
            BY <4>1, <1>1
      <4>3. ASSUME NEW k \in Jobs PROVE Spared(m, job[k])'
            BY <3>2, <4>1, <1>1 DEF Spared
      <4> QED BY <3>2, <4>2, <4>3
    <3> QED BY <2>1, <3>1, <3>2 DEF Kept
  <2> QED BY <2>2, <2>3, <2>4, <2>5 DEF Kept
<1> QED BY <1>2, <1>3, <1>4, <1>5, <1>6 DEF Inv, Placed

\* An upload puts the whole export in place at once.
LEMMA UploadObjectStep ==
  ASSUME Inv, NEW j \in Jobs, UploadObject(j)
  PROVE  Inv'
<1>1. /\ job[j].at = "upload"
      /\ archive' = [archive EXCEPT ![job[j].m] = Complete(job[j].held)]
      /\ job' = [job EXCEPT ![j] = [job[j] EXCEPT !.at = "verify", !.held = {}]]
      /\ UNCHANGED <<today, backend, part, rows, lock, born>>
      BY DEF UploadObject, Inv, Placed, TypeOK
<1> QED BY <1>1, StoreStep

\* A file is cut off until it is written to its end; the table is still there.
LEMMA BeginFileStep ==
  ASSUME Inv, NEW j \in Jobs, BeginFile(j)
  PROVE  Inv'
<1>1. /\ job[j].at = "upload"
      /\ archive' = [archive EXCEPT ![job[j].m] = Cut]
      /\ job' = [job EXCEPT ![j] = [job[j] EXCEPT !.at = "write"]]
      /\ UNCHANGED <<today, backend, part, rows, lock, born>>
      BY DEF BeginFile, Step, Inv, Placed, TypeOK
<1>2. [job[j] EXCEPT !.at = "write"] = [job[j] EXCEPT !.at = "write", !.held = job[j].held]
      BY Working DEF Run
<1> QED BY <1>1, <1>2, StoreStep

\* A finished file holds what was exported.
LEMMA FinishFileStep ==
  ASSUME Inv, NEW j \in Jobs, FinishFile(j)
  PROVE  Inv'
<1>1. /\ job[j].at = "write"
      /\ archive' = [archive EXCEPT ![job[j].m] = Complete(job[j].held)]
      /\ job' = [job EXCEPT ![j] = [job[j] EXCEPT !.at = "verify", !.held = {}]]
      /\ UNCHANGED <<today, backend, part, rows, lock, born>>
      BY DEF FinishFile, Inv, Placed, TypeOK
<1> QED BY <1>1, StoreStep

\* The same partition, one stage on: what TakeOffStep asks of the run.
LEMMA DetachStages ==
  ASSUME Inv, NEW j \in Jobs, job[j].at \in {"detach", "detaching"},
         NEW at \in {"detaching", "drop"}
  PROVE  LET r == [job[j] EXCEPT !.at = at]
         IN  r \in Run /\ Entitled(r, today) /\ r.at = at /\ r.m = job[j].m
<1> DEFINE r == [job[j] EXCEPT !.at = at]
<1>1. /\ r \in Run /\ r.at = at /\ r.date = job[j].date
      /\ r.todo = job[j].todo /\ r.m = job[j].m
      BY Working DEF Run, Stages
<1>2. Entitled(r, today)
      BY <1>1, Working DEF Entitled, Unlisted
<1> QED BY <1>1, <1>2

\* A table comes off when its object is there or it is empty.
LEMMA BeginDetachStep ==
  ASSUME Inv, NEW j \in Jobs, BeginDetach(j)
  PROVE  Inv'
<1> DEFINE t == [part[job[j].m] EXCEPT !.state = "detaching"]
           r == [job[j] EXCEPT !.at = "detaching"]
<1>1. /\ job[j].at = "detach" /\ part[job[j].m].state = "attached"
      /\ job[j].m \in Months
      /\ part' = [part EXCEPT ![job[j].m] = t]
      /\ job' = [job EXCEPT ![j] = r]
      /\ UNCHANGED <<today, backend, rows, archive, lock, born>>
      BY Working DEF BeginDetach, Step, Inv, Placed, TypeOK
<1>2. t \in Table /\ t.state = "detaching" /\ t.end = part[job[j].m].end
      BY <1>1 DEF Table, Inv, Placed, TypeOK
<1>3. /\ r \in Run /\ Entitled(r, today) /\ r.at = "detaching" /\ r.m = job[j].m
      BY <1>1, DetachStages
<1> HIDE DEF t, r
<1> QED BY <1>1, <1>2, <1>3, TakeOffStep

\* The second half of a detach.
LEMMA FinishDetachStep ==
  ASSUME Inv, NEW j \in Jobs, FinishDetach(j)
  PROVE  Inv'
<1> DEFINE m == job[j].m
           t == [part[m] EXCEPT !.state = "detached"]
           r == [job[j] EXCEPT !.at = "drop"]
<1>1. /\ job[j].at = "detaching"
      /\ m \in Months
      /\ part' = [part EXCEPT ![m] = t]
      /\ job' = [job EXCEPT ![j] = r]
      /\ UNCHANGED <<today, backend, rows, archive, lock, born>>
      BY Working DEF FinishDetach, Step, Inv, Placed, TypeOK
<1>2. t \in Table /\ t.state = "detached" /\ t.end = part[m].end
      BY <1>1 DEF Table, Inv, Placed, TypeOK
<1>3. /\ r \in Run /\ Entitled(r, today) /\ r.at = "drop" /\ r.m = m
      BY <1>1, DetachStages
<1> QED BY <1>1, <1>2, <1>3, TakeOffStep

\* A table is dropped when its object is there or it is empty.
LEMMA DropPartitionStep ==
  ASSUME Inv, NEW j \in Jobs, DropPartition(j)
  PROVE  Inv'
<1> DEFINE r == Ahead(job[j])
<1>1. /\ job[j].at = "drop"
      /\ part' = [part EXCEPT ![job[j].m] = NoTable]
      /\ rows' = [rows EXCEPT ![job[j].m] = {}]
      /\ job' = [job EXCEPT ![j] = r]
      /\ UNCHANGED <<today, backend, archive, lock, born>>
      BY DEF DropPartition, Ahead, Inv, Placed, TypeOK
<1>2. r \in Run /\ Entitled(r, today) /\ r.at = "next"
      BY <1>1, MayGoAhead, IdleForm DEF MayBecome, Unlisted, Ahead, Run
<1>3. NoTable \in Table /\ NoTable.end = 0
      BY DEF NoTable, Table
<1> HIDE DEF r
<1> QED BY <1>1, <1>2, <1>3, TakeOffStep

\* The day after: tables keep their ranges and expired ones stay expired.
LEMMA NextDayStep ==
  ASSUME Inv, NextDay
  PROVE  Inv'
<1>1. /\ today \in Nat /\ today' = today + 1 /\ today' \in 0..MaxDay
      /\ UNCHANGED <<backend, part, rows, archive, lock, job, born>>
      BY ArchiverAssumption DEF NextDay, Inv, Placed, TypeOK
<1>2. \A m \in Months : Expired(m, today) => Expired(m, today')
      BY <1>1, ExpiredLater DEF Months
<1>3. RunsEntitled'
  <2> SUFFICES ASSUME NEW j \in Jobs PROVE Entitled(job[j], today')
      BY <1>1 DEF RunsEntitled
  <2> QED BY <1>1, <1>2, Working DEF Entitled
<1>4. TypeOK' /\ TablesShort' /\ ArchivesExpired' /\ RowsPlaced'
      BY <1>1, <1>2 DEF Inv, Placed, TypeOK, TablesShort, ArchivesExpired, RowsPlaced, HomeOf
<1>5. EventsKept'
      BY <1>1 DEF Inv, EventsKept, Kept, HomeOf, ReadWith, Spared
<1> QED BY <1>3, <1>4, <1>5 DEF Inv, Placed

\* A table that has expired takes no events any more.
LEMMA ExpiredTakesNone ==
  ASSUME Inv, NEW m \in Months, Covers(m, MonthOf(today))
  PROVE  /\ ~ Expired(m, today)
         /\ MonthOf(today) \in {m, m + 1}
<1>1. m \in Nat /\ today \in Nat /\ MonthOf(today) \in Nat
      BY Working, MonthBounds, ArchiverAssumption DEF Months, Inv, Placed, TypeOK
<1>2. m <= MonthOf(today) /\ MonthOf(today) < part[m].end
      /\ part[m].end <= m + 2 /\ part[m].end \in Nat
      BY DEF Covers, Inv, Placed, TypeOK, TablesShort, Table
<1>3. MonthOf(today) \in {m, m + 1}
      BY <1>1, <1>2
<1> QED BY <1>1, <1>3, ExpiredClosed

\* A new event is routed to the table of today, which nobody takes off.
LEMMA RecordEventStep ==
  ASSUME Inv, NEW e \in Events, RecordEvent(e)
  PROVE  Inv'
<1>1. PICK m \in Months :
        /\ part[m].state = "attached" /\ Covers(m, MonthOf(today))
        /\ rows' = [rows EXCEPT ![m] = @ \cup {e}]
      BY DEF RecordEvent
<1>2. /\ born[e] = 0 /\ born' = [born EXCEPT ![e] = today + 1]
      /\ UNCHANGED <<today, backend, part, archive, lock, job>>
      BY DEF RecordEvent
<1>3. /\ today \in Nat /\ born \in [Events -> Nat] /\ rows \in [Months -> SUBSET Events]
      BY ArchiverAssumption DEF Inv, Placed, TypeOK
<1>4. /\ archive[m] = NoObject /\ archive[m].state # "complete"
      /\ \A j \in Jobs : job[j].at \notin Unlisted \cup {"next"} => job[j].m # m
  <2>1. ~ Expired(m, today)
        BY <1>1, ExpiredTakesNone
  <2>2. archive[m] = NoObject
        BY <2>1 DEF ArchivesExpired, Inv, Placed
  <2>3. \A j \in Jobs : job[j].at \notin Unlisted \cup {"next"} => job[j].m # m
        BY <2>1, Working DEF Entitled
  <2> QED BY <2>2, <2>3 DEF NoObject
<1>5. born'[e] = today + 1 /\ HomeOf(e, m)'
  <2>1. born'[e] = today + 1
        BY <1>2, <1>3
  <2>2. born'[e] # 0 /\ born'[e] - 1 = today
        BY <2>1, <1>3
  <2> QED BY <2>1, <2>2, <1>1, ExpiredTakesNone DEF HomeOf
<1>6. ASSUME NEW f \in Events, f # e, NEW k \in Months, HomeOf(f, k)
      PROVE  HomeOf(f, k)'
      BY <1>2, <1>6 DEF HomeOf
<1>7. \A k \in Months : e \notin rows[k]
      BY <1>2 DEF RowsPlaced, HomeOf, Inv, Placed
<1>8. TypeOK' /\ TablesShort' /\ RunsEntitled' /\ ArchivesExpired'
      BY <1>1, <1>2, <1>3 DEF Inv, Placed, TypeOK, TablesShort, RunsEntitled, ArchivesExpired
<1>9. RowsPlaced'
  <2> SUFFICES ASSUME NEW k \in Months, NEW f \in rows'[k]
               PROVE  HomeOf(f, k)' /\ part'[k].state # "none"
      BY DEF RowsPlaced
  <2>1. CASE f = e
        BY <2>1, <1>1, <1>2, <1>3, <1>5, <1>7
  <2>2. CASE f # e
    <3>1. f \in rows[k] /\ f \in Events
          BY <2>2, <1>1, <1>3
    <3> QED BY <2>2, <3>1, <1>2, <1>6 DEF RowsPlaced, Inv, Placed
  <2> QED BY <2>1, <2>2
<1>10. EventsKept'
  <2> SUFFICES ASSUME NEW f \in Events, born'[f] # 0
               PROVE  \E k \in Months : Kept(f, k)'
      BY DEF EventsKept
  <2>1. CASE f = e
    <3>1. e \in rows'[m] /\ part'[m].state = "attached"
          BY <1>1, <1>2, <1>3
    <3>2. \A j \in Jobs : ReadWith(e, m, job'[j]) /\ Spared(m, job'[j])
          BY <1>2, <1>4 DEF ReadWith, Spared, Unlisted
    <3>3. Kept(e, m)'
          BY <3>1, <3>2, <1>2, <1>4, <1>5 DEF Kept
    <3> QED BY <2>1, <3>3
  <2>2. CASE f # e
    <3>1. PICK k \in Months : Kept(f, k)
          BY <2>2, <1>2 DEF Inv, EventsKept
    <3>2. HomeOf(f, k)'
          BY <2>2, <3>1, <1>6 DEF Kept
    <3>3. rows'[k] = {} \/ f \in rows'[k]
      <4>1. CASE k = m
            BY <4>1, <3>1, <1>1, <1>3, <1>4 DEF Kept
      <4>2. CASE k # m
            BY <4>2, <3>1, <1>1, <1>3 DEF Kept
      <4> QED BY <4>1, <4>2
    <3>4. f \in rows[k] => f \in rows'[k]
          BY <1>1, <1>3
    <3> QED BY <3>1, <3>2, <3>3, <3>4, <1>2 DEF Kept
  <2> QED BY <2>1, <2>2
<1> QED BY <1>8, <1>9, <1>10 DEF Inv, Placed

\* Every step keeps what is known, action by action.
LEMMA InvStep == Inv /\ [Next]_vars => Inv'
<1> SUFFICES ASSUME Inv, [Next]_vars PROVE Inv'
    OBVIOUS
<1>1. CASE EnsureAuditPartition
      BY <1>1, EnsureAuditPartitionStep
<1>2. ASSUME NEW e \in Events, RecordEvent(e) PROVE Inv'
      BY <1>2, RecordEventStep
<1>3. ASSUME NEW j \in Jobs,
             Start(j) \/ CreatePartition(j) \/ ListExpired(j) \/ TakePartition(j) \/ End(j)
      PROVE  Inv'
      BY <1>3, StartStep, CreatePartitionStep, ListExpiredStep, TakePartitionStep, EndStep
<1>4. ASSUME NEW j \in Jobs, Archive(j) PROVE Inv'
  <2>1. CASE CheckArchived(j) \/ Export(j) \/ VerifyUpload(j) \/ GiveUp(j)
        BY <2>1, CheckArchivedStep, ExportStep, VerifyUploadStep, GiveUpStep
  <2>2. CASE UploadObject(j) \/ BeginFile(j) \/ FinishFile(j)
        BY <2>2, UploadObjectStep, BeginFileStep, FinishFileStep
  <2>3. CASE BeginDetach(j) \/ FinishDetach(j) \/ DropPartition(j)
        BY <2>3, BeginDetachStep, FinishDetachStep, DropPartitionStep
  <2> QED BY <1>4, <2>1, <2>2, <2>3 DEF Archive
<1>5. CASE LoseLock
      BY <1>5, LoseLockStep
<1>6. CASE NextDay
      BY <1>6, NextDayStep
<1>7. CASE UNCHANGED vars
  <2>1. TypeOK' /\ TablesShort' /\ RunsEntitled' /\ ArchivesExpired' /\ RowsPlaced'
        BY <1>7 DEF vars, Inv, Placed, TypeOK, TablesShort, RunsEntitled, ArchivesExpired,
                    RowsPlaced, HomeOf
  <2>2. EventsKept'
        BY <1>7 DEF vars, Inv, EventsKept, Kept, HomeOf, ReadWith, Spared
  <2> QED BY <2>1, <2>2 DEF Inv, Placed
<1> QED BY <1>1, <1>2, <1>3, <1>4, <1>5, <1>6, <1>7 DEF Next

\* So it holds of every reachable state.
LEMMA InvAlways == Spec => []Inv
BY InvInit, InvStep, PTL DEF Spec

-----------------------------------------------------------------------------
(* What follows *)

\* Every variable has its type, for any calendar, retention and number of runs.
THEOREM TypeCorrect == Spec => []TypeOK
<1>1. Inv => TypeOK
      BY DEF Inv, Placed
<1> QED BY <1>1, InvAlways, PTL

\* An event that is kept somewhere is not lost.
LEMMA KeptNotLost == Inv => NothingLost
<1> SUFFICES ASSUME Inv, NEW e \in Events, born[e] # 0
             PROVE  \/ Visible(e)
                    \/ Archived(e)
                    \/ \E m \in Months : HomeOf(e, m) /\ archive[m] = Cut
    BY DEF NothingLost
<1>1. PICK m \in Months : Kept(e, m)
      BY DEF Inv, EventsKept
<1>2. CASE archive[m] # NoObject
  <2>1. archive[m] \in Object
        BY DEF Inv, Placed, TypeOK
  <2>2. archive[m] = Cut \/ archive[m].state = "complete"
        BY <1>2, <2>1, ObjectForms
  <2> QED BY <1>1, <2>2 DEF Kept, Archived
<1>3. CASE archive[m] = NoObject
      BY <1>1, <1>3 DEF Kept, Visible
<1> QED BY <1>2, <1>3

\* No overlap of runs, lost lock, lost reply or crash loses a recorded event, but for
\* an archive file that was cut off.
THEOREM EventsSurvive == Spec => []NothingLost
BY InvAlways, KeptNotLost, PTL

\* The partition that takes today's events is never detached, whatever a run that
\* started on an earlier day still has on its list.
THEOREM TodayStaysAttached == Spec => CurrentStays
<1> DEFINE Stays == \A m \in Months :
             part[m].state = "attached" /\ part'[m].state # "attached" =>
               part[m].end <= MonthOf(today)
<1>1. Inv /\ [Next]_vars => [Stays]_vars
  <2> SUFFICES ASSUME Inv, Next, NEW m \in Months,
                      part[m].state = "attached", part'[m].state # "attached"
               PROVE  part[m].end <= MonthOf(today)
      OBVIOUS
  <2>1. PICK j \in Jobs : BeginDetach(j) \/ FinishDetach(j) \/ DropPartition(j)
    <3>1. ~ UNCHANGED part
          OBVIOUS
    <3>2. ASSUME NEW k \in Months, NEW end, MayCreate(k, end), Create(k, end)
          PROVE  FALSE
          BY <3>2 DEF MayCreate, Create, Inv, Placed, TypeOK
    <3>3. ~ EnsureAuditPartition
          BY <3>2, Today DEF EnsureAuditPartition
    <3>4. ASSUME NEW k \in Jobs, CreatePartition(k) PROVE FALSE
          BY <3>1, <3>2, <3>4, Working DEF CreatePartition
    <3> QED BY <3>1, <3>3, <3>4
        DEF Next, Archive, RecordEvent, Start, ListExpired, TakePartition, GiveUp,
            CheckArchived, Export, UploadObject, BeginFile, FinishFile, VerifyUpload, End,
            LoseLock, NextDay
  <2>2. job[j].m = m
        BY <2>1 DEF BeginDetach, FinishDetach, DropPartition, Inv, Placed, TypeOK
  <2>3. Expired(m, today)
        BY <2>1, <2>2, Working
        DEF Entitled, Unlisted, BeginDetach, FinishDetach, DropPartition
  <2>4. /\ m \in Nat /\ today \in Nat /\ MonthOf(today) \in Nat /\ part[m].end \in Nat
        /\ part[m].end <= m + 2
        BY Today DEF Months, Inv, Placed, TypeOK, TablesShort, Table
  <2> QED BY <2>3, <2>4, ExpiredClosed
<1> QED BY <1>1, InvAlways, PTL DEF Spec, CurrentStays

\* An event stays in PostgreSQL for the retention less a month at least, also when its
\* table is for two months and known by the first.
THEOREM KeptLongEnough == Spec => KeptUntilNamedAge
<1> DEFINE Keeps == \A e \in Events :
             (\E m \in Months : e \in rows[m] /\ e \notin rows'[m]) =>
               born[e] + Retention <= today + MonthDays
<1>1. Inv /\ [Next]_vars => [Keeps]_vars
  <2> SUFFICES ASSUME Inv, Next, NEW e \in Events, NEW m \in Months,
                      e \in rows[m], e \notin rows'[m]
               PROVE  born[e] + Retention <= today + MonthDays
      OBVIOUS
  <2>1. PICK j \in Jobs : DropPartition(j)
    <3>1. ~ UNCHANGED rows
          OBVIOUS
    <3>2. ASSUME NEW f \in Events, RecordEvent(f) PROVE FALSE
          BY <3>2 DEF RecordEvent, Inv, Placed, TypeOK
    <3> QED BY <3>1, <3>2
        DEF Next, Archive, EnsureAuditPartition, Start, CreatePartition, ListExpired,
            TakePartition, GiveUp, CheckArchived, Export, UploadObject, BeginFile,
            FinishFile, VerifyUpload, BeginDetach, FinishDetach, End, LoseLock, NextDay
  <2>2. job[j].m = m /\ job[j].at = "drop"
        BY <2>1 DEF DropPartition, Inv, Placed, TypeOK
  <2>3. Expired(m, today)
        BY <2>2, Working DEF Entitled, Unlisted
  <2>4. /\ m \in Nat /\ today \in Nat /\ born[e] \in Nat /\ FirstDay(m + 1) \in Nat
        /\ HomeOf(e, m)
        BY Working, FirstDays DEF Months, Inv, Placed, TypeOK, RowsPlaced
  <2>5. born[e] - 1 < FirstDay(m + 1) + MonthDays
        BY <2>4, HomeDay DEF HomeOf
  <2> QED BY <2>3, <2>4, <2>5, ArchiverAssumption DEF Expired
<1> QED BY <1>1, InvAlways, PTL DEF Spec, KeptUntilNamedAge
=============================================================================
