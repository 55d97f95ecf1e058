-------------------------- MODULE MetadataIndexing ---------------------------
(***************************************************************************)
(* One metadata record in the database and in the Lucene index             *)
(* (DataManager, SearchManager).                                           *)
(*                                                                         *)
(* Nothing ties the two together.  A save and a deletion change the row    *)
(* and the index inside the monitor of DataManager, and commit the row     *)
(* after they left it.  A processing (or a harvest) changes the row inside *)
(* the monitor and indexes it outside, in its transaction or after it; the *)
(* popularity is indexed before its commit and without the monitor;        *)
(* privileges are committed first and indexed by a task with a connection  *)
(* of its own.  An indexing reads the record in two statements, deletes    *)
(* the old documents and adds the new one.  A timer commits the index      *)
(* every minute; after a crash init() compares the dates in the index with *)
(* those in the database.                                                  *)
(***************************************************************************)
EXTENDS Naturals, Sequences, FiniteSets

CONSTANTS
    Thread,       \* threads of requests, harvesters and indexing tasks
    MaxChanges,   \* bound on the operations of a behaviour
    MaxCrashes,   \* bound on the crashes of the server
    NoThread, Absent

VARIABLES
    row,        \* the committed row of table Metadata, or Absent
    allowed,    \* the committed rows of OperationAllowed, by number of changes
    rowLock,    \* the thread whose transaction holds the row
    pending,    \* the row that transaction has written
    monitor,    \* the thread inside a synchronized method of DataManager
    work,       \* work[t]: what thread t does
    docs,       \* the documents of the record in the index
    disk,       \* the documents as the index was committed last
    changes, crashes

database == <<row, allowed, rowLock, pending>>
index == <<docs, disk>>
vars == <<database, monitor, work, index, changes, crashes>>

-----------------------------------------------------------------------------
Row == [data : Nat, date : Nat, hits : Nat]
FirstRow == [data |-> 0, date |-> 0, hits |-> 0]

ASSUME IndexingAssumption ==
    /\ MaxChanges \in Nat /\ MaxCrashes \in Nat
    /\ NoThread \notin Thread
    /\ Absent \notin Nat /\ Absent \notin Row

\* A document: what was read for it
Reading == [data : Nat, date : Nat, hits : Nat, allowed : Nat]
NoReading == [data |-> 0, date |-> 0, hits |-> 0, allowed |-> 0]

\* The documents of the record, oldest first.  A deleted document stays in its
\* segment, not live, until the segments are merged; all that is ever looked at
\* of it is the date, and of all the dates only that of the last document.
Documents == [live : Seq(Reading), last : Nat \cup {Absent}]

Operations == {"save", "process", "delete", "privileges", "popularity", "rebuild"}
Stages == {"idle", "locked", "inside", "written", "reading", "read", "ready",
           "removed", "unindex", "ended"}
Idle == [op |-> "save", stage |-> "idle", seen |-> NoReading]

Init ==
    /\ row = FirstRow /\ allowed = 0
    /\ rowLock = NoThread /\ pending = Absent
    /\ monitor = NoThread
    /\ work = [t \in Thread |-> Idle]
    /\ docs = [live |-> <<NoReading>>, last |-> 0] /\ disk = docs
    /\ changes = 0 /\ crashes = 0

-----------------------------------------------------------------------------
At(t, stage, ops) == work[t].stage = stage /\ work[t].op \in ops
Go(t, stage) == work' = [work EXCEPT ![t].stage = stage]
See(t, stage, reading) ==
    work' = [work EXCEPT ![t] = [@ EXCEPT !.stage = stage, !.seen = reading]]
Begin(t, op, stage) ==
    /\ work[t] = Idle
    /\ changes < MaxChanges /\ changes' = changes + 1
    /\ work' = [work EXCEPT ![t] = [@ EXCEPT !.op = op, !.stage = stage]]
    /\ UNCHANGED crashes
Done(t) == work' = [work EXCEPT ![t] = Idle]
SameRun == UNCHANGED <<changes, crashes>>

\* READ COMMITTED: a transaction sees its own row, everyone else the committed
View(t) == IF rowLock = t THEN pending ELSE row

Free(t) == rowLock \in {NoThread, t}
LockRow(t, image) == /\ Free(t)
                     /\ rowLock' = t /\ pending' = image
Unlock == rowLock' = NoThread /\ pending' = Absent

Monitored == {"save", "process", "delete"}
\* A mutant: the monitor is left by a thread that is not inside
Leave_Any(t) == monitor' = NoThread
Leave(t) == monitor' = IF monitor = t THEN NoThread ELSE monitor

-----------------------------------------------------------------------------
(* The operations *)

\* Update: setTemplateExt locks the row before updateMetadata is called
Save(t) ==
    /\ row # Absent
    /\ rowLock = NoThread /\ LockRow(t, row)
    /\ Begin(t, "save", "locked")
    /\ UNCHANGED <<row, allowed, monitor, index>>

\* updateMetadata or deleteMetadata: the monitor comes first
Enter(t, op) ==
    /\ row # Absent
    /\ monitor = NoThread /\ monitor' = t
    /\ Begin(t, op, "inside")
    /\ UNCHANGED <<database, index>>
Process(t) == Enter(t, "process")
Delete(t) == Enter(t, "delete")

EnterUpdate(t) ==
    /\ At(t, "locked", {"save"})
    /\ monitor = NoThread /\ monitor' = t
    /\ Go(t, "inside")
    /\ SameRun /\ UNCHANGED <<database, index>>

\* xmlSerializer.update: the date has a resolution of one second, and a minor
\* edit does not change it.  Whatever becomes of the validation of a save, the
\* record is indexed before it leaves the monitor.  A processing leaves it first,
\* and then either indexes at once, as a batch does, or commits first.
Write(t) ==
    /\ At(t, "inside", {"save", "process"})
    /\ View(t) # Absent
    /\ \E date \in {View(t).date, View(t).date + 1} :
          LockRow(t, [View(t) EXCEPT !.data = @ + 1, !.date = date])
    /\ IF work[t].op = "save"
       THEN Go(t, "reading") /\ UNCHANGED monitor
       ELSE (\E next \in {"reading", "written"} : Go(t, next)) /\ Leave(t)
    /\ SameRun /\ UNCHANGED <<row, allowed, index>>

\* A single processing and a harvest commit before they index
CommitFirst(t) ==
    /\ work[t].stage = "written"
    /\ row' = pending /\ Unlock /\ UNCHANGED allowed
    /\ Go(t, "reading")
    /\ SameRun /\ UNCHANGED <<monitor, index>>

\* xmlSerializer.delete
WriteDelete(t) ==
    /\ At(t, "inside", {"delete"})
    /\ View(t) # Absent /\ LockRow(t, Absent)
    /\ Go(t, "unindex")
    /\ SameRun /\ UNCHANGED <<row, allowed, monitor, index>>

\* The record was deleted meanwhile: the request fails
Gone(t) ==
    /\ At(t, "inside", Monitored)
    /\ Free(t) /\ View(t) = Absent
    /\ Leave(t) /\ Done(t)
    /\ SameRun /\ UNCHANGED <<database, index>>

\* The database does not let the statement wait any longer
LockTimeout(t) ==
    /\ At(t, "inside", Monitored)
    /\ ~Free(t)
    /\ Leave(t) /\ Done(t)
    /\ SameRun /\ UNCHANGED <<database, index>>

\* A mutant: the task is not run
SetPrivileges_Unindexed(t) ==
    /\ row # Absent /\ ~(rowLock # NoThread /\ pending = Absent)
    /\ work[t] = Idle
    /\ changes < MaxChanges /\ changes' = changes + 1
    /\ allowed' = allowed + 1
    /\ UNCHANGED <<row, rowLock, pending, monitor, index, work, crashes>>

\* UpdateAdminOper: indexInThreadPool commits before the task is run.  The
\* foreign key lets nobody add privileges to a row that is being deleted.
SetPrivileges(t) ==
    /\ row # Absent /\ ~(rowLock # NoThread /\ pending = Absent)
    /\ Begin(t, "privileges", "reading")
    /\ allowed' = allowed + 1
    /\ UNCHANGED <<row, rowLock, pending, monitor, index>>

\* IncreasePopularityTask
IncreasePopularity(t) ==
    /\ row # Absent
    /\ rowLock = NoThread /\ LockRow(t, [row EXCEPT !.hits = @ + 1])
    /\ Begin(t, "popularity", "reading")
    /\ UNCHANGED <<row, allowed, monitor, index>>

-----------------------------------------------------------------------------
(* indexMetadata *)

\* The end of an indexing, whatever came of it: a transaction that wrote the row
\* is still to be ended
AfterIndexing(t) ==
    /\ IF rowLock = t
       THEN See(t, "ended", NoReading)
       ELSE Done(t)
    /\ Leave(t)

\* First the document of the record is read ...
ReadData(t) ==
    /\ work[t].stage = "reading"
    /\ View(t) # Absent
    /\ See(t, "read", [work[t].seen EXCEPT !.data = View(t).data])
    /\ SameRun /\ UNCHANGED <<database, monitor, index>>

\* ... then the fields of its row and its privileges
ReadFields(t) ==
    /\ work[t].stage = "read"
    /\ View(t) # Absent
    /\ See(t, "ready", [data |-> work[t].seen.data, date |-> View(t).date,
                        hits |-> View(t).hits, allowed |-> allowed])
    /\ SameRun /\ UNCHANGED <<database, monitor, index>>

\* Without the row the indexing ends in an exception that is only logged
NothingToIndex(t) ==
    /\ work[t].stage \in {"reading", "read"}
    /\ View(t) = Absent
    /\ AfterIndexing(t)
    /\ SameRun /\ UNCHANGED <<database, index>>

AllDeleted(d) == [d EXCEPT !.live = <<>>]

RemoveDocuments(t) ==
    /\ work[t].stage = "ready"
    /\ docs' = AllDeleted(docs)
    /\ Go(t, "removed")
    /\ SameRun /\ UNCHANGED <<database, monitor, disk>>

AddDocument(t) ==
    /\ work[t].stage = "removed"
    /\ docs' = [live |-> Append(docs.live, work[t].seen),
                last |-> work[t].seen.date]
    /\ AfterIndexing(t)
    /\ SameRun /\ UNCHANGED <<database, disk>>

\* deleteMetadata ends with the index
Unindex(t) ==
    /\ work[t].stage = "unindex"
    /\ docs' = AllDeleted(docs)
    /\ Leave(t) /\ Go(t, "ended")
    /\ SameRun /\ UNCHANGED <<database, disk>>

-----------------------------------------------------------------------------
(* The end of the transaction *)

Commit(t) ==
    /\ work[t].stage = "ended"
    /\ row' = pending /\ Unlock /\ UNCHANGED allowed
    /\ Done(t)
    /\ SameRun /\ UNCHANGED <<monitor, index>>

\* The service fails after the call: the validation, a later step, the commit
Abort(t) ==
    /\ At(t, "ended", Monitored) \/ work[t].stage = "written"
    /\ Unlock /\ UNCHANGED <<row, allowed>>
    /\ Done(t)
    /\ SameRun /\ UNCHANGED <<monitor, index>>

-----------------------------------------------------------------------------
(* The index on disk, the crash and init() *)

\* CommitTimerTask
CommitIndex == /\ disk # docs /\ disk' = docs
               /\ UNCHANGED <<database, monitor, work, docs, changes, crashes>>

\* Lucene merges segments, which drops the deleted documents.  They are older than
\* the live ones: next to these nobody notices.
Merge == /\ docs.live = <<>> /\ docs.last # Absent
         /\ docs' = [docs EXCEPT !.last = Absent]
         /\ UNCHANGED <<database, monitor, work, disk, changes, crashes>>

\* A mutant: only a missing document is indexed
ToIndex_Missing == row # Absent /\ disk.last = Absent

\* init(): the record is missing in the index or has another date there.
\* getDocsChangeDate looks at all documents, the deleted ones too; the last wins.
ToIndex == row # Absent /\ disk.last # row.date

Crash ==
    /\ crashes < MaxCrashes /\ crashes' = crashes + 1
    /\ Unlock /\ UNCHANGED <<row, allowed>>
    /\ monitor' = NoThread
    /\ disk' = IF row = Absent THEN AllDeleted(disk) ELSE disk
    /\ docs' = disk'
    /\ IF ToIndex
       THEN \E t \in Thread :
               work' = [u \in Thread |-> IF u = t
                          THEN [Idle EXCEPT !.op = "rebuild", !.stage = "reading"]
                          ELSE Idle]
       ELSE work' = [u \in Thread |-> Idle]
    /\ UNCHANGED changes

-----------------------------------------------------------------------------
Request(t) == \/ Save(t) \/ Process(t) \/ Delete(t)
              \/ SetPrivileges(t) \/ IncreasePopularity(t)

Continue(t) == \/ EnterUpdate(t) \/ Write(t) \/ WriteDelete(t) \/ Gone(t)
               \/ CommitFirst(t)
               \/ ReadData(t) \/ ReadFields(t) \/ NothingToIndex(t)
               \/ RemoveDocuments(t) \/ AddDocument(t) \/ Unindex(t)
               \/ Commit(t)

ThreadStep(t) == Request(t) \/ Continue(t) \/ LockTimeout(t) \/ Abort(t)

Next == (\E t \in Thread : ThreadStep(t)) \/ CommitIndex \/ Merge \/ Crash

TypeOK ==
    /\ row \in Row \cup {Absent} /\ allowed \in Nat
    /\ rowLock \in Thread \cup {NoThread}
    /\ pending \in Row \cup {Absent}
    /\ monitor \in Thread \cup {NoThread}
    /\ work \in [Thread -> [op : Operations, stage : Stages, seen : Reading]]
    /\ docs \in Documents /\ disk \in Documents
    /\ changes \in 0 .. MaxChanges /\ crashes \in 0 .. MaxCrashes
    /\ \A t \in Thread :
          /\ At(t, "inside", Monitored) \/ work[t].stage = "unindex"
                => monitor = t
          /\ work[t].stage \in {"written", "ended"} => rowLock = t
=============================================================================
