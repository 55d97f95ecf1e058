------------------------- MODULE IndexCoherenceProofs --------------------------
(***************************************************************************)
(* Proofs about IndexCoherence, for any number of threads, operations and  *)
(* crashes.                                                                *)
(*                                                                         *)
(* What keeps the index in step with the row is neither the monitor of     *)
(* DataManager nor a lock of the index: it is the lock of the row, which a *)
(* save or a deletion holds from before it touches the index until it      *)
(* commits (Locks).  So while only these meet (Guarded), the thread that   *)
(* indexes is the one that holds the row, what it has read stays what it   *)
(* will commit (Progress), and nobody else touches the documents.          *)
(***************************************************************************)
EXTENDS IndexCoherence, SequenceTheorems, TLAPS

-----------------------------------------------------------------------------
(* The inductive invariant *)

Document(image) == [data |-> image.data, date |-> image.date,
                    hits |-> image.hits, allowed |-> allowed]

\* Searches see the record as in the row image, or nothing if it is absent
Shows(image) == IF image = Absent THEN docs.live = <<>>
                ELSE docs.live = <<Document(image)>>

ShowsDate(image) == IF image = Absent THEN docs.live = <<>>
                    ELSE Len(docs.live) = 1 /\ docs.live[1].date = image.date

Typing == TypeOK /\ met \in [Thread -> BOOLEAN]

\* Who holds the row, by operation and stage
Lock(t) ==
    LET s == work[t].stage
        o == work[t].op
    IN
    /\ s = "idle" => work[t] = Idle /\ rowLock # t
    /\ s \in {"locked", "written", "unindex", "ended"} => rowLock = t
    /\ s = "inside" => o \in Monitored
    /\ s = "unindex" => o = "delete"
    /\ s = "written" => o = "process"
    /\ o = "save" /\ s # "idle" => rowLock = t
    /\ o = "delete" => s \in {"inside", "unindex", "ended"}
    /\ s = "inside" /\ rowLock = t => o = "save"
    /\ rowLock = t /\ s \in {"locked", "inside"} => pending = row
    /\ rowLock = t => (pending = Absent <=> o = "delete")

Locks == \A t \in Thread : Lock(t)

\* Where t is with its indexing
Progress(t) ==
  LET s == work[t].stage IN
  /\ s \in {"reading", "read", "ready", "removed"} => View(t) # Absent
  /\ s \in {"read", "ready", "removed"} => work[t].seen.data = View(t).data
  /\ s \in {"ready", "removed"} => work[t].seen = Document(View(t))
  /\ s = "removed" => docs.live = <<>>
  /\ s = "ended" => Shows(pending)

Guarded == "unguarded" \notin stain

Alone == /\ \A t \in Thread : met[t] => Busy(t)
         /\ \A t, u \in Thread : t # u /\ Busy(t) /\ Busy(u) =>
               met[t] /\ (Guarded => ~Loose(t))

Sound == \A t \in Thread : Busy(t) /\ (Guarded \/ ~met[t]) => Progress(t)

\* Somebody has changed what the index should show, or is about to change the index
Indexing == \E t \in Thread : work[t].stage \notin {"idle", "locked", "inside"}

Settled == ~Indexing => /\ stain = {} => Shows(row)
                        /\ stain \subseteq {"crash"} => ShowsDate(row)

\* The live documents are the newest, and of an undisturbed record there is one
Newest(d) == d.live # <<>> => d.last = d.live[Len(d.live)].date

Single == /\ Newest(docs) /\ Newest(disk)
          /\ Guarded => Len(docs.live) \in 0 .. 1
          /\ "unguarded" \notin onDisk => Len(disk.live) \in 0 .. 1

\* The inductive invariant
IInv == Typing /\ Locks /\ Alone /\ Sound /\ Settled /\ Single

-----------------------------------------------------------------------------
(* The types *)

WorkType == [op : Operations, stage : Stages, seen : Reading]

LEMMA StageNames ==
  {"idle", "locked", "inside", "written", "reading", "read", "ready", "removed",
   "unindex", "ended"} \subseteq Stages
BY DEF Stages

\* What the helpers leave of work
LEMMA GoWork ==
  ASSUME work \in [Thread -> WorkType], NEW t \in Thread, NEW g \in Stages, Go(t, g)
  PROVE  /\ work' \in [Thread -> WorkType]
         /\ work'[t].op = work[t].op /\ work'[t].stage = g
         /\ work'[t].seen = work[t].seen
         /\ \A u \in Thread \ {t} : work'[u] = work[u]
BY DEF Go, WorkType

LEMMA SeeWork ==
  ASSUME work \in [Thread -> WorkType], NEW t \in Thread, NEW g \in Stages,
         NEW r \in Reading, See(t, g, r)
  PROVE  /\ work' \in [Thread -> WorkType]
         /\ work'[t].op = work[t].op /\ work'[t].stage = g /\ work'[t].seen = r
         /\ \A u \in Thread \ {t} : work'[u] = work[u]
BY DEF See, WorkType

LEMMA IdleType == Idle \in WorkType /\ Idle.stage = "idle" /\ Idle.seen = NoReading
                  /\ Idle.op = "save"
BY DEF Idle, WorkType, Reading, NoReading, Stages, Operations

LEMMA BeginWork ==
  ASSUME work \in [Thread -> WorkType], NEW t \in Thread,
         NEW o \in Operations, NEW g \in Stages, Begin(t, o, g)
  PROVE  /\ work' \in [Thread -> WorkType]
         /\ work[t] = Idle
         /\ work'[t].op = o /\ work'[t].stage = g /\ work'[t].seen = NoReading
         /\ \A u \in Thread \ {t} : work'[u] = work[u]
BY IdleType DEF Begin, WorkType

LEMMA DoneWork ==
  ASSUME work \in [Thread -> WorkType], NEW t \in Thread, Done(t)
  PROVE  /\ work' \in [Thread -> WorkType]
         /\ work'[t] = Idle
         /\ \A u \in Thread \ {t} : work'[u] = work[u]
BY IdleType DEF Done

LEMMA AfterWork ==
  ASSUME work \in [Thread -> WorkType], NEW t \in Thread, AfterIndexing(t)
  PROVE  /\ work' \in [Thread -> WorkType]
         /\ IF rowLock = t
            THEN work'[t].op = work[t].op /\ work'[t].stage = "ended"
            ELSE work'[t] = Idle
         /\ \A u \in Thread \ {t} : work'[u] = work[u]
<1>1. CASE rowLock = t
  <2>1. NoReading \in Reading
    BY DEF NoReading, Reading
  <2> QED
    BY <1>1, <2>1, StageNames, SeeWork DEF AfterIndexing
<1>2. CASE rowLock # t
  BY <1>2, DoneWork DEF AfterIndexing
<1> QED
  BY <1>1, <1>2

LEMMA ViewType == ASSUME TypeOK, NEW t \in Thread PROVE View(t) \in Row \cup {Absent}
BY DEF TypeOK, View

LEMMA InitTyping == HInit => Typing
BY IndexingAssumption DEF HInit, Init, Typing, TypeOK, Row, FirstRow, Reading,
   NoReading, Documents, Operations, Stages, Idle, At, Monitored

\* What an indexing reads
LEMMA ReadWork ==
  ASSUME work \in [Thread -> WorkType], NEW t \in Thread, TypeOK,
         ReadData(t) \/ ReadFields(t)
  PROVE  /\ work' \in [Thread -> WorkType]
         /\ View(t) \in Row /\ work'[t].op = work[t].op
         /\ \/ /\ work[t].stage = "reading" /\ work'[t].stage = "read"
               /\ work'[t].seen.data = View(t).data
            \/ /\ work[t].stage = "read" /\ work'[t].stage = "ready"
               /\ work'[t].seen = [data |-> work[t].seen.data, date |-> View(t).date,
                                   hits |-> View(t).hits, allowed |-> allowed]
         /\ \A u \in Thread \ {t} : work'[u] = work[u]
<1>1. View(t) \in Row
  BY ViewType DEF ReadData, ReadFields
<1>2. allowed \in Nat /\ work[t].seen \in Reading
  BY DEF TypeOK, WorkType
<1>3. CASE ReadData(t)
  <2> DEFINE r == [work[t].seen EXCEPT !.data = View(t).data]
  <2>1. r \in Reading /\ r.data = View(t).data
    BY <1>1, <1>2 DEF Reading, Row
  <2>2. work[t].stage = "reading" /\ See(t, "read", r)
    BY <1>3 DEF ReadData
  <2> HIDE DEF r
  <2>3. work'[t].seen = r /\ work'[t].stage = "read"
    BY <2>1, <2>2, StageNames, SeeWork
  <2> QED
    BY <1>1, <2>1, <2>2, <2>3, StageNames, SeeWork
<1>4. CASE ReadFields(t)
  <2> DEFINE r == [data |-> work[t].seen.data, date |-> View(t).date,
                   hits |-> View(t).hits, allowed |-> allowed]
  <2>1. r \in Reading
    BY <1>1, <1>2 DEF Reading, Row
  <2>2. work[t].stage = "read" /\ See(t, "ready", r)
    BY <1>4 DEF ReadFields
  <2> HIDE DEF r
  <2>3. work'[t].seen = r /\ work'[t].stage = "ready"
    BY <2>1, <2>2, StageNames, SeeWork
  <2> QED
    BY <1>1, <2>1, <2>2, <2>3, StageNames, SeeWork DEF r
<1> QED
  BY <1>3, <1>4

-----------------------------------------------------------------------------
(* Typing, action by action *)

Holding == \A t \in Thread :
             /\ At(t, "inside", Monitored) \/ work[t].stage = "unindex"
                   => monitor = t
             /\ work[t].stage \in {"written", "ended"} => rowLock = t

Typed == /\ row \in Row \cup {Absent} /\ allowed \in Nat
         /\ rowLock \in Thread \cup {NoThread}
         /\ pending \in Row \cup {Absent}
         /\ monitor \in Thread \cup {NoThread}
         /\ work \in [Thread -> WorkType]
         /\ docs \in Documents /\ disk \in Documents
         /\ changes \in 0 .. MaxChanges /\ crashes \in 0 .. MaxCrashes
         /\ Holding

LEMMA Types == (TypeOK <=> Typed) /\ (TypeOK' <=> Typed')
BY DEF TypeOK, Typed, Holding, WorkType

LEMMA RowChange ==
  ASSUME NEW v \in Row, NEW d \in {v.date, v.date + 1}
  PROVE  [v EXCEPT !.data = @ + 1, !.date = d] \in Row
<1>1. v.data + 1 \in Nat /\ d \in Nat
  BY DEF Row
<1> QED
  BY <1>1 DEF Row

LEMMA DeletedType ==
  ASSUME NEW d \in Documents
  PROVE  /\ AllDeleted(d) \in Documents
         /\ AllDeleted(d).live = <<>> /\ AllDeleted(d).last = d.last
<1>1. <<>> \in Seq(Reading)
  OBVIOUS
<1> QED
  BY <1>1 DEF Documents, AllDeleted

LEMMA OperationNames ==
  {"save", "process", "delete", "privileges", "popularity", "rebuild"} \subseteq Operations
BY DEF Operations

LEMMA ThreadTyping ==
  ASSUME TypeOK, Locks, NEW t \in Thread, ThreadStep(t)
  PROVE  TypeOK'
<1> USE StageNames, OperationNames, IdleType DEF SameRun, index, database
<1>t. /\ row \in Row \cup {Absent} /\ allowed \in Nat
      /\ rowLock \in Thread \cup {NoThread} /\ pending \in Row \cup {Absent}
      /\ monitor \in Thread \cup {NoThread} /\ work \in [Thread -> WorkType]
      /\ docs \in Documents /\ disk \in Documents
      /\ changes \in 0 .. MaxChanges /\ crashes \in 0 .. MaxCrashes /\ Holding
  BY Types DEF Typed
<1>l. work[t].stage = "unindex" => rowLock = t
  BY DEF Locks, Lock
<1>v. View(t) \in Row \cup {Absent}
  BY ViewType
<1>1. CASE Save(t)
  <2>1. /\ work' \in [Thread -> WorkType]
        /\ \A u \in Thread \ {t} : work'[u] = work[u]
        /\ work'[t].stage = "locked" /\ work'[t].op = "save"
    BY <1>1, <1>t, BeginWork DEF Save, LockRow
  <2>2. Holding'
    BY <1>1, <1>t, <2>1, IndexingAssumption DEF Save, LockRow, Holding, At, Monitored,
       Free
  <2>4. changes' \in 0 .. MaxChanges /\ crashes' = crashes
    BY <1>1, <1>t, IndexingAssumption DEF Save, LockRow, Begin
  <2> QED
    BY <1>1, <1>t, <1>v, <2>1, <2>2, <2>4, Types DEF Save, LockRow, Typed
<1>2. CASE Process(t)
  <2>1. /\ work' \in [Thread -> WorkType]
        /\ \A u \in Thread \ {t} : work'[u] = work[u]
        /\ work'[t].stage = "inside" /\ work'[t].op = "process"
    BY <1>2, <1>t, BeginWork DEF Process, Enter
  <2>2. Holding'
    BY <1>2, <1>t, <2>1, IndexingAssumption DEF Process, Enter, Holding, At,
       Monitored, Free
  <2>4. changes' \in 0 .. MaxChanges /\ crashes' = crashes
    BY <1>2, <1>t, IndexingAssumption DEF Process, Enter, Begin
  <2> QED
    BY <1>2, <1>t, <1>v, <2>1, <2>2, <2>4, Types DEF Process, Enter, Typed
<1>3. CASE Delete(t)
  <2>1. /\ work' \in [Thread -> WorkType]
        /\ \A u \in Thread \ {t} : work'[u] = work[u]
        /\ work'[t].stage = "inside" /\ work'[t].op = "delete"
    BY <1>3, <1>t, BeginWork DEF Delete, Enter
  <2>2. Holding'
    BY <1>3, <1>t, <2>1, IndexingAssumption DEF Delete, Enter, Holding, At, Monitored,
       Free
  <2>4. changes' \in 0 .. MaxChanges /\ crashes' = crashes
    BY <1>3, <1>t, IndexingAssumption DEF Delete, Enter, Begin
  <2> QED
    BY <1>3, <1>t, <1>v, <2>1, <2>2, <2>4, Types DEF Delete, Enter, Typed
<1>4. CASE SetPrivileges(t)
  <2>1. /\ work' \in [Thread -> WorkType]
        /\ \A u \in Thread \ {t} : work'[u] = work[u]
        /\ work'[t].stage = "reading" /\ work'[t].op = "privileges"
    BY <1>4, <1>t, BeginWork DEF SetPrivileges
  <2>2. Holding'
    BY <1>4, <1>t, <2>1, IndexingAssumption DEF SetPrivileges, Holding, At, Monitored,
       Free
  <2>4. changes' \in 0 .. MaxChanges /\ crashes' = crashes
    BY <1>4, <1>t, IndexingAssumption DEF SetPrivileges, Begin
  <2> QED
    BY <1>4, <1>t, <1>v, <2>1, <2>2, <2>4, Types DEF SetPrivileges, Typed
<1>5. CASE IncreasePopularity(t)
  <2>1. /\ work' \in [Thread -> WorkType]
        /\ \A u \in Thread \ {t} : work'[u] = work[u]
        /\ work'[t].stage = "reading" /\ work'[t].op = "popularity"
    BY <1>5, <1>t, BeginWork DEF IncreasePopularity, LockRow
  <2>2. Holding'
    BY <1>5, <1>t, <2>1, IndexingAssumption DEF IncreasePopularity, LockRow, Holding,
       At, Monitored, Free
  <2>3. pending' \in Row
    BY <1>5, <1>t DEF IncreasePopularity, LockRow, Row
  <2>4. changes' \in 0 .. MaxChanges /\ crashes' = crashes
    BY <1>5, <1>t, IndexingAssumption DEF IncreasePopularity, LockRow, Begin
  <2> QED
    BY <1>5, <1>t, <1>v, <2>1, <2>2, <2>3, <2>4, Types DEF IncreasePopularity,
       LockRow, Typed
<1>6. CASE EnterUpdate(t)
  <2>1. /\ work' \in [Thread -> WorkType]
        /\ \A u \in Thread \ {t} : work'[u] = work[u]
        /\ work'[t].stage = "inside" /\ work'[t].op = work[t].op
    BY <1>6, <1>t, GoWork DEF EnterUpdate
  <2>2. Holding'
    BY <1>6, <1>t, <2>1, IndexingAssumption DEF EnterUpdate, Holding, At, Monitored, Free
  <2> QED
    BY <1>6, <1>t, <1>v, <2>1, <2>2, Types DEF EnterUpdate, Typed
<1>7. CASE Write(t)
  <2>1. /\ work' \in [Thread -> WorkType]
        /\ \A u \in Thread \ {t} : work'[u] = work[u]
        /\ work'[t].stage \in {"reading", "written"}
    BY <1>7, <1>t, GoWork DEF Write, Leave, LockRow
  <2>2. Holding'
    BY <1>7, <1>t, <2>1, IndexingAssumption DEF Write, Leave, LockRow, Holding, At,
       Monitored, Free
  <2>3. pending' \in Row
    BY <1>7, <1>v, RowChange DEF Write, LockRow
  <2> QED
    BY <1>7, <1>t, <1>v, <2>1, <2>2, <2>3, Types DEF Write, Leave, LockRow, Typed
<1>8. CASE WriteDelete(t)
  <2>1. /\ work' \in [Thread -> WorkType]
        /\ \A u \in Thread \ {t} : work'[u] = work[u]
        /\ work'[t].stage = "unindex"
    BY <1>8, <1>t, GoWork DEF WriteDelete, LockRow
  <2>2. Holding'
    BY <1>8, <1>t, <2>1, IndexingAssumption DEF WriteDelete, LockRow, Holding, At,
       Monitored, Free
  <2> QED
    BY <1>8, <1>t, <1>v, <2>1, <2>2, Types DEF WriteDelete, LockRow, Typed
<1>9. CASE Gone(t)
  <2>1. /\ work' \in [Thread -> WorkType]
        /\ \A u \in Thread \ {t} : work'[u] = work[u]
        /\ work'[t].stage = "idle"
    BY <1>9, <1>t, DoneWork DEF Gone, Leave
  <2>2. Holding'
    BY <1>9, <1>t, <2>1, IndexingAssumption DEF Gone, Leave, Holding, At, Monitored, Free
  <2> QED
    BY <1>9, <1>t, <1>v, <2>1, <2>2, Types DEF Gone, Leave, Typed
<1>10. CASE CommitFirst(t)
  <2>1. /\ work' \in [Thread -> WorkType]
        /\ \A u \in Thread \ {t} : work'[u] = work[u]
        /\ work'[t].stage = "reading"
    BY <1>10, <1>t, GoWork DEF CommitFirst, Unlock
  <2>2. Holding'
    BY <1>10, <1>t, <2>1, IndexingAssumption DEF CommitFirst, Unlock, Holding, At,
       Monitored, Free
  <2> QED
    BY <1>10, <1>t, <1>v, <2>1, <2>2, Types DEF CommitFirst, Unlock, Typed
<1>11. CASE ReadData(t)
  <2>1. /\ work' \in [Thread -> WorkType]
        /\ \A u \in Thread \ {t} : work'[u] = work[u]
        /\ work'[t].stage = "read"
    BY <1>11, <1>t, ReadWork DEF ReadData
  <2>2. Holding'
    BY <1>11, <1>t, <2>1, IndexingAssumption DEF ReadData, Holding, At, Monitored, Free
  <2> QED
    BY <1>11, <1>t, <1>v, <2>1, <2>2, Types DEF ReadData, Typed
<1>12. CASE ReadFields(t)
  <2>1. /\ work' \in [Thread -> WorkType]
        /\ \A u \in Thread \ {t} : work'[u] = work[u]
        /\ work'[t].stage = "ready"
    BY <1>12, <1>t, ReadWork DEF ReadFields
  <2>2. Holding'
    BY <1>12, <1>t, <2>1, IndexingAssumption DEF ReadFields, Holding, At, Monitored, Free
  <2> QED
    BY <1>12, <1>t, <1>v, <2>1, <2>2, Types DEF ReadFields, Typed
<1>13. CASE NothingToIndex(t)
  <2>1. /\ work' \in [Thread -> WorkType]
        /\ \A u \in Thread \ {t} : work'[u] = work[u]
        /\ work'[t].stage = IF rowLock = t THEN "ended" ELSE "idle"
    BY <1>13, <1>t, AfterWork DEF NothingToIndex, AfterIndexing, Leave
  <2>2. Holding'
    BY <1>13, <1>t, <2>1, IndexingAssumption DEF NothingToIndex, AfterIndexing, Leave,
       Holding, At, Monitored, Free
  <2> QED
    BY <1>13, <1>t, <1>v, <2>1, <2>2, Types DEF NothingToIndex, AfterIndexing, Leave,
       Typed
<1>14. CASE RemoveDocuments(t)
  <2>1. /\ work' \in [Thread -> WorkType]
        /\ \A u \in Thread \ {t} : work'[u] = work[u]
        /\ work'[t].stage = "removed"
    BY <1>14, <1>t, GoWork DEF RemoveDocuments
  <2>2. Holding'
    BY <1>14, <1>t, <2>1, IndexingAssumption DEF RemoveDocuments, Holding, At,
       Monitored, Free
  <2>3. docs' \in Documents
    BY <1>14, <1>t, DeletedType DEF RemoveDocuments
  <2> QED
    BY <1>14, <1>t, <1>v, <2>1, <2>2, <2>3, Types DEF RemoveDocuments, Typed
<1>15. CASE AddDocument(t)
  <2>1. /\ work' \in [Thread -> WorkType]
        /\ \A u \in Thread \ {t} : work'[u] = work[u]
        /\ work'[t].stage = IF rowLock = t THEN "ended" ELSE "idle"
    BY <1>15, <1>t, AfterWork DEF AddDocument, AfterIndexing, Leave
  <2>2. Holding'
    BY <1>15, <1>t, <2>1, IndexingAssumption DEF AddDocument, AfterIndexing, Leave,
       Holding, At, Monitored, Free
  <2>3. docs' \in Documents
    BY <1>15, <1>t DEF AddDocument, Documents, WorkType, Reading
  <2> QED
    BY <1>15, <1>t, <1>v, <2>1, <2>2, <2>3, Types DEF AddDocument, AfterIndexing,
       Leave, Typed
<1>16. CASE Unindex(t)
  <2>1. /\ work' \in [Thread -> WorkType]
        /\ \A u \in Thread \ {t} : work'[u] = work[u]
        /\ work'[t].stage = "ended"
    BY <1>16, <1>t, GoWork DEF Unindex, Leave
  <2>2. Holding'
    BY <1>16, <1>t, <2>1, IndexingAssumption, <1>l DEF Unindex, Leave, Holding, At,
       Monitored, Free
  <2>3. docs' \in Documents
    BY <1>16, <1>t, DeletedType DEF Unindex
  <2> QED
    BY <1>16, <1>t, <1>v, <2>1, <2>2, <2>3, Types DEF Unindex, Leave, Typed
<1>17. CASE Commit(t)
  <2>1. /\ work' \in [Thread -> WorkType]
        /\ \A u \in Thread \ {t} : work'[u] = work[u]
        /\ work'[t].stage = "idle"
    BY <1>17, <1>t, DoneWork DEF Commit, Unlock
  <2>2. Holding'
    BY <1>17, <1>t, <2>1, IndexingAssumption DEF Commit, Unlock, Holding, At,
       Monitored, Free
  <2> QED
    BY <1>17, <1>t, <1>v, <2>1, <2>2, Types DEF Commit, Unlock, Typed
<1>18. CASE LockTimeout(t)
  <2>1. /\ work' \in [Thread -> WorkType]
        /\ \A u \in Thread \ {t} : work'[u] = work[u]
        /\ work'[t].stage = "idle"
    BY <1>18, <1>t, DoneWork DEF LockTimeout, Leave
  <2>2. Holding'
    BY <1>18, <1>t, <2>1, IndexingAssumption DEF LockTimeout, Leave, Holding, At,
       Monitored, Free
  <2> QED
    BY <1>18, <1>t, <1>v, <2>1, <2>2, Types DEF LockTimeout, Leave, Typed
<1>19. CASE Abort(t)
  <2>1. /\ work' \in [Thread -> WorkType]
        /\ \A u \in Thread \ {t} : work'[u] = work[u]
        /\ work'[t].stage = "idle"
    BY <1>19, <1>t, DoneWork DEF Abort, Unlock
  <2>2. Holding'
    BY <1>19, <1>t, <2>1, IndexingAssumption DEF Abort, Unlock, Holding, At,
       Monitored, Free
  <2> QED
    BY <1>19, <1>t, <1>v, <2>1, <2>2, Types DEF Abort, Unlock, Typed
<1> QED
  BY <1>1, <1>2, <1>3, <1>4, <1>5, <1>6, <1>7, <1>8, <1>9, <1>10, <1>11, <1>12, <1>13,
     <1>14, <1>15, <1>16, <1>17, <1>18, <1>19 DEF ThreadStep, Request, Continue

-----------------------------------------------------------------------------
(* What a step does to its thread and to the others *)

LEMMA HitsChange == ASSUME NEW v \in Row PROVE [v EXCEPT !.hits = @ + 1] \in Row
BY DEF Row

LEMMA Effects ==
  ASSUME TypeOK, NEW t \in Thread
  PROVE  /\ ThreadStep(t) => \A u \in Thread \ {t} : work'[u] = work[u]
         /\ Save(t) =>
               work[t] = Idle /\ work'[t].op = "save" /\ work'[t].stage = "locked"
         /\ Process(t) =>
               work[t] = Idle /\ work'[t].op = "process" /\ work'[t].stage = "inside"
         /\ Delete(t) =>
               work[t] = Idle /\ work'[t].op = "delete" /\ work'[t].stage = "inside"
         /\ SetPrivileges(t) =>
               work[t] = Idle /\ work'[t].op = "privileges" /\ work'[t].stage = "reading"
         /\ IncreasePopularity(t) =>
               work[t] = Idle /\ work'[t].op = "popularity" /\ work'[t].stage = "reading"
         /\ EnterUpdate(t) =>
               work'[t].op = work[t].op /\ work'[t].stage = "inside"
         /\ Write(t) =>
               work'[t].op = work[t].op /\ work[t].op \in {"save", "process"}
             /\ \/ work'[t].stage = "reading"
                \/ (work[t].op # "save" /\ work'[t].stage = "written")
         /\ WriteDelete(t) =>
               work'[t].op = work[t].op /\ work'[t].stage = "unindex"
         /\ Gone(t) =>
               work'[t] = Idle
         /\ CommitFirst(t) =>
               work'[t].op = work[t].op /\ work'[t].stage = "reading"
         /\ ReadData(t) =>
               work'[t].op = work[t].op /\ work'[t].stage = "read"
         /\ ReadFields(t) =>
               work'[t].op = work[t].op /\ work'[t].stage = "ready"
         /\ NothingToIndex(t) =>
               IF rowLock = t
               THEN work'[t].op = work[t].op /\ work'[t].stage = "ended"
               ELSE work'[t] = Idle
         /\ RemoveDocuments(t) =>
               work'[t].op = work[t].op /\ work'[t].stage = "removed"
         /\ AddDocument(t) =>
               IF rowLock = t
               THEN work'[t].op = work[t].op /\ work'[t].stage = "ended"
               ELSE work'[t] = Idle
         /\ Unindex(t) =>
               work'[t].op = work[t].op /\ work'[t].stage = "ended"
         /\ Commit(t) =>
               work'[t] = Idle
         /\ LockTimeout(t) =>
               work'[t] = Idle
         /\ Abort(t) =>
               work'[t] = Idle
<1> USE StageNames, OperationNames
<1>t. work \in [Thread -> WorkType]
  BY Types DEF Typed
<1>1. Save(t) => /\ \A u \in Thread \ {t} : work'[u] = work[u]
             /\ work[t] = Idle /\ work'[t].op = "save" /\ work'[t].stage = "locked"
  BY <1>t, BeginWork DEF Save, LockRow, At
<1>2. Process(t) => /\ \A u \in Thread \ {t} : work'[u] = work[u]
             /\ work[t] = Idle /\ work'[t].op = "process" /\ work'[t].stage = "inside"
  BY <1>t, BeginWork DEF Process, Enter, At
<1>3. Delete(t) => /\ \A u \in Thread \ {t} : work'[u] = work[u]
             /\ work[t] = Idle /\ work'[t].op = "delete" /\ work'[t].stage = "inside"
  BY <1>t, BeginWork DEF Delete, Enter, At
<1>4. SetPrivileges(t) => /\ \A u \in Thread \ {t} : work'[u] = work[u]
             /\ work[t] = Idle /\ work'[t].op = "privileges" /\ work'[t].stage = "reading"
  BY <1>t, BeginWork DEF SetPrivileges, At
<1>5. IncreasePopularity(t) => /\ \A u \in Thread \ {t} : work'[u] = work[u]
             /\ work[t] = Idle /\ work'[t].op = "popularity" /\ work'[t].stage = "reading"
  BY <1>t, BeginWork DEF IncreasePopularity, LockRow, At
<1>6. EnterUpdate(t) => /\ \A u \in Thread \ {t} : work'[u] = work[u]
             /\ work'[t].op = work[t].op /\ work'[t].stage = "inside"
  BY <1>t, GoWork DEF EnterUpdate, At
<1>7. Write(t) => /\ \A u \in Thread \ {t} : work'[u] = work[u]
             /\ work'[t].op = work[t].op /\ work[t].op \in {"save", "process"}
             /\ \/ work'[t].stage = "reading"
                \/ (work[t].op # "save" /\ work'[t].stage = "written")
  BY <1>t, GoWork DEF Write, Leave, LockRow, At
<1>8. WriteDelete(t) => /\ \A u \in Thread \ {t} : work'[u] = work[u]
             /\ work'[t].op = work[t].op /\ work'[t].stage = "unindex"
  BY <1>t, GoWork DEF WriteDelete, LockRow, At
<1>9. Gone(t) => /\ \A u \in Thread \ {t} : work'[u] = work[u]
             /\ work'[t] = Idle
  BY <1>t, DoneWork DEF Gone, Leave, At
<1>10. CommitFirst(t) => /\ \A u \in Thread \ {t} : work'[u] = work[u]
             /\ work'[t].op = work[t].op /\ work'[t].stage = "reading"
  BY <1>t, GoWork DEF CommitFirst, Unlock, At
<1>11. ReadData(t) => /\ \A u \in Thread \ {t} : work'[u] = work[u]
             /\ work'[t].op = work[t].op /\ work'[t].stage = "read"
  BY <1>t, ReadWork DEF ReadData, At
<1>12. ReadFields(t) => /\ \A u \in Thread \ {t} : work'[u] = work[u]
             /\ work'[t].op = work[t].op /\ work'[t].stage = "ready"
  BY <1>t, ReadWork DEF ReadFields, At
<1>13. NothingToIndex(t) => /\ \A u \in Thread \ {t} : work'[u] = work[u]
             /\ IF rowLock = t
               THEN work'[t].op = work[t].op /\ work'[t].stage = "ended"
               ELSE work'[t] = Idle
  BY <1>t, AfterWork DEF NothingToIndex, AfterIndexing, Leave, At
<1>14. RemoveDocuments(t) => /\ \A u \in Thread \ {t} : work'[u] = work[u]
             /\ work'[t].op = work[t].op /\ work'[t].stage = "removed"
  BY <1>t, GoWork DEF RemoveDocuments, At
<1>15. AddDocument(t) => /\ \A u \in Thread \ {t} : work'[u] = work[u]
             /\ IF rowLock = t
               THEN work'[t].op = work[t].op /\ work'[t].stage = "ended"
               ELSE work'[t] = Idle
  BY <1>t, AfterWork DEF AddDocument, AfterIndexing, Leave, At
<1>16. Unindex(t) => /\ \A u \in Thread \ {t} : work'[u] = work[u]
             /\ work'[t].op = work[t].op /\ work'[t].stage = "ended"
  BY <1>t, GoWork DEF Unindex, Leave, At
<1>17. Commit(t) => /\ \A u \in Thread \ {t} : work'[u] = work[u]
             /\ work'[t] = Idle
  BY <1>t, DoneWork DEF Commit, Unlock, At
<1>18. LockTimeout(t) => /\ \A u \in Thread \ {t} : work'[u] = work[u]
             /\ work'[t] = Idle
  BY <1>t, DoneWork DEF LockTimeout, Leave, At
<1>19. Abort(t) => /\ \A u \in Thread \ {t} : work'[u] = work[u]
             /\ work'[t] = Idle
  BY <1>t, DoneWork DEF Abort, Unlock, At
<1> QED
  BY <1>1, <1>2, <1>3, <1>4, <1>5, <1>6, <1>7, <1>8, <1>9, <1>10, <1>11, <1>12, <1>13,
     <1>14, <1>15, <1>16, <1>17, <1>18, <1>19 DEF ThreadStep, Request, Continue

\* A thread that holds the row holds it whatever the others do
LEMMA Others ==
  ASSUME TypeOK, Locks, NEW t \in Thread, ThreadStep(t), NEW u \in Thread \ {t}
  PROVE  /\ rowLock' = u <=> rowLock = u
         /\ rowLock = u => pending' = pending /\ row' = row
<1> USE IndexingAssumption DEF database, SameRun
<1>t. work \in [Thread -> WorkType]
  BY Types DEF Typed
<1>l. work[t].stage \in {"written", "ended"} => rowLock = t
  BY DEF Locks, Lock
<1>1. CASE Save(t)
  BY <1>1, <1>l DEF Save, LockRow, Free, At
<1>2. CASE Process(t)
  BY <1>2, <1>l DEF Process, Enter, Free, At
<1>3. CASE Delete(t)
  BY <1>3, <1>l DEF Delete, Enter, Free, At
<1>4. CASE SetPrivileges(t)
  BY <1>4, <1>l DEF SetPrivileges, Free, At
<1>5. CASE IncreasePopularity(t)
  BY <1>5, <1>l DEF IncreasePopularity, LockRow, Free, At
<1>6. CASE EnterUpdate(t)
  BY <1>6, <1>l DEF EnterUpdate, Free, At
<1>7. CASE Write(t)
  BY <1>7, <1>l DEF Write, LockRow, Free, At
<1>8. CASE WriteDelete(t)
  BY <1>8, <1>l DEF WriteDelete, LockRow, Free, At
<1>9. CASE Gone(t)
  BY <1>9, <1>l DEF Gone, Free, At
<1>10. CASE CommitFirst(t)
  BY <1>10, <1>l DEF CommitFirst, Unlock, Free, At
<1>11. CASE ReadData(t)
  BY <1>11, <1>l DEF ReadData, Free, At
<1>12. CASE ReadFields(t)
  BY <1>12, <1>l DEF ReadFields, Free, At
<1>13. CASE NothingToIndex(t)
  BY <1>13, <1>l DEF NothingToIndex, Free, At
<1>14. CASE RemoveDocuments(t)
  BY <1>14, <1>l DEF RemoveDocuments, Free, At
<1>15. CASE AddDocument(t)
  BY <1>15, <1>l DEF AddDocument, Free, At
<1>16. CASE Unindex(t)
  BY <1>16, <1>l DEF Unindex, Free, At
<1>17. CASE Commit(t)
  BY <1>17, <1>l DEF Commit, Unlock, Free, At
<1>18. CASE LockTimeout(t)
  BY <1>18, <1>l DEF LockTimeout, Free, At
<1>19. CASE Abort(t)
  BY <1>19, <1>l DEF Abort, Unlock, Free, At
<1> QED
  BY <1>1, <1>2, <1>3, <1>4, <1>5, <1>6, <1>7, <1>8, <1>9, <1>10, <1>11, <1>12, <1>13,
     <1>14, <1>15, <1>16, <1>17, <1>18, <1>19 DEF ThreadStep, Request, Continue

LEMMA WrittenRow ==
  ASSUME TypeOK, NEW t \in Thread, Write(t)
  PROVE  pending' \in Row
<1>1. View(t) \in Row
  BY ViewType DEF Write
<1> QED
  BY <1>1, RowChange DEF Write, LockRow

LEMMA OwnLock ==
  ASSUME TypeOK, Locks, NEW t \in Thread, ThreadStep(t)
  PROVE  Lock(t)'
<1> USE IndexingAssumption, IdleType, ViewType, Effects DEF database, SameRun, Lock, Monitored
<1>t. /\ work \in [Thread -> WorkType] /\ row \in Row \cup {Absent}
      /\ rowLock = t => pending \in Row \cup {Absent}
  BY Types DEF Typed
<1>v. View(t) \in Row \cup {Absent}
  BY ViewType
<1>l. Lock(t)
  BY DEF Locks
<1>1. CASE Save(t)
  BY <1>1, <1>t, <1>l DEF Save, LockRow, Free, At, Begin
<1>2. CASE Process(t)
  BY <1>2, <1>t, <1>l DEF Process, Enter, Free, At, Begin
<1>3. CASE Delete(t)
  BY <1>3, <1>t, <1>l DEF Delete, Enter, Free, At, Begin
<1>4. CASE SetPrivileges(t)
  BY <1>4, <1>t, <1>l DEF SetPrivileges, Free, At, Begin
<1>5. CASE IncreasePopularity(t)
  <2>1. pending' \in Row
    BY <1>5, <1>t, <1>v, HitsChange DEF IncreasePopularity, LockRow
  <2> QED
    BY <1>5, <1>t, <1>l, <2>1 DEF IncreasePopularity, LockRow, Free, At, Begin
<1>6. CASE EnterUpdate(t)
  BY <1>6, <1>t, <1>l DEF EnterUpdate, Free, At
<1>7. CASE Write(t)
  <2>1. pending' \in Row
    BY <1>7, <1>t, <1>v, WrittenRow DEF Write, LockRow
  <2> QED
    BY <1>7, <1>t, <1>l, <2>1 DEF Write, LockRow, Free, At
<1>8. CASE WriteDelete(t)
  BY <1>8, <1>t, <1>l DEF WriteDelete, LockRow, Free, At
<1>9. CASE Gone(t)
  BY <1>9, <1>t, <1>l DEF Gone, Free, At, View
<1>10. CASE CommitFirst(t)
  BY <1>10, <1>t, <1>l DEF CommitFirst, Unlock, Free, At
<1>11. CASE ReadData(t)
  BY <1>11, <1>t, <1>l DEF ReadData, Free, At
<1>12. CASE ReadFields(t)
  BY <1>12, <1>t, <1>l DEF ReadFields, Free, At
<1>13. CASE NothingToIndex(t)
  BY <1>13, <1>t, <1>l DEF NothingToIndex, AfterIndexing, Free, At
<1>14. CASE RemoveDocuments(t)
  BY <1>14, <1>t, <1>l DEF RemoveDocuments, Free, At
<1>15. CASE AddDocument(t)
  BY <1>15, <1>t, <1>l DEF AddDocument, AfterIndexing, Free, At
<1>16. CASE Unindex(t)
  BY <1>16, <1>t, <1>l DEF Unindex, Free, At
<1>17. CASE Commit(t)
  BY <1>17, <1>t, <1>l DEF Commit, Unlock, Free, At
<1>18. CASE LockTimeout(t)
  BY <1>18, <1>t, <1>l DEF LockTimeout, Free, At
<1>19. CASE Abort(t)
  BY <1>19, <1>t, <1>l DEF Abort, Unlock, Free, At
<1> QED
  BY <1>1, <1>2, <1>3, <1>4, <1>5, <1>6, <1>7, <1>8, <1>9, <1>10, <1>11, <1>12, <1>13,
     <1>14, <1>15, <1>16, <1>17, <1>18, <1>19 DEF ThreadStep, Request, Continue

LEMMA ThreadLocks ==
  ASSUME TypeOK, Locks, NEW t \in Thread, ThreadStep(t)
  PROVE  Locks'
<1> SUFFICES ASSUME NEW u \in Thread PROVE Lock(u)'
  BY DEF Locks
<1>1. CASE u = t
  BY <1>1, OwnLock
<1>2. CASE u # t
  <2>1. Lock(u) /\ work'[u] = work[u]
    BY <1>2, Effects DEF Locks
  <2> QED
    BY <1>2, <2>1, Others DEF Lock
<1> QED
  BY <1>1, <1>2

-----------------------------------------------------------------------------
(* The indexing of a thread, and what the others do to it *)

Active(t) == work[t].stage \notin {"idle", "locked", "inside"}

\* Only an indexing changes the documents, only an end of a transaction the row
LEMMA Footprint ==
  ASSUME TypeOK, NEW t \in Thread, ThreadStep(t)
  PROVE  /\ disk' = disk
         /\ docs' = docs \/ work[t].stage \in {"ready", "removed", "unindex"}
         /\ row' = row \/ work[t].stage \in {"written", "ended"}
         /\ allowed' = allowed \/ (work'[t].op = "privileges" /\ work'[t].stage = "reading")
<1> USE DEF database, index, SameRun
<1>1. CASE Save(t)
  BY <1>1 DEF Save, LockRow, Begin
<1>2. CASE Process(t)
  BY <1>2 DEF Process, Enter, Begin
<1>3. CASE Delete(t)
  BY <1>3 DEF Delete, Enter, Begin
<1>4. CASE SetPrivileges(t)
  BY <1>4, Effects DEF SetPrivileges, Begin
<1>5. CASE IncreasePopularity(t)
  BY <1>5 DEF IncreasePopularity, LockRow, Begin
<1>6. CASE EnterUpdate(t)
  BY <1>6 DEF EnterUpdate
<1>7. CASE Write(t)
  BY <1>7 DEF Write, LockRow
<1>8. CASE WriteDelete(t)
  BY <1>8 DEF WriteDelete, LockRow
<1>9. CASE Gone(t)
  BY <1>9 DEF Gone
<1>10. CASE CommitFirst(t)
  BY <1>10 DEF CommitFirst, Unlock
<1>11. CASE ReadData(t)
  BY <1>11 DEF ReadData
<1>12. CASE ReadFields(t)
  BY <1>12 DEF ReadFields
<1>13. CASE NothingToIndex(t)
  BY <1>13 DEF NothingToIndex
<1>14. CASE RemoveDocuments(t)
  BY <1>14 DEF RemoveDocuments
<1>15. CASE AddDocument(t)
  BY <1>15 DEF AddDocument
<1>16. CASE Unindex(t)
  BY <1>16 DEF Unindex
<1>17. CASE Commit(t)
  BY <1>17 DEF Commit, Unlock
<1>18. CASE LockTimeout(t)
  BY <1>18 DEF LockTimeout
<1>19. CASE Abort(t)
  BY <1>19 DEF Abort, Unlock
<1> QED
  BY <1>1, <1>2, <1>3, <1>4, <1>5, <1>6, <1>7, <1>8, <1>9, <1>10, <1>11, <1>12, <1>13,
     <1>14, <1>15, <1>16, <1>17, <1>18, <1>19 DEF ThreadStep, Request, Continue

LEMMA Acts == ASSUME TypeOK, NEW t \in Thread, ThreadStep(t) PROVE Busy(t) \/ Busy(t)'
<1> USE IdleType DEF Busy
<1>1. CASE Save(t)
  BY <1>1, Effects DEF Busy
<1>2. CASE Process(t)
  BY <1>2, Effects DEF Busy
<1>3. CASE Delete(t)
  BY <1>3, Effects DEF Busy
<1>4. CASE SetPrivileges(t)
  BY <1>4, Effects DEF Busy
<1>5. CASE IncreasePopularity(t)
  BY <1>5, Effects DEF Busy
<1>6. CASE EnterUpdate(t)
  BY <1>6 DEF At, EnterUpdate
<1>7. CASE Write(t)
  BY <1>7 DEF At, Write
<1>8. CASE WriteDelete(t)
  BY <1>8 DEF At, WriteDelete
<1>9. CASE Gone(t)
  BY <1>9 DEF At, Gone
<1>10. CASE CommitFirst(t)
  BY <1>10 DEF At, CommitFirst
<1>11. CASE ReadData(t)
  BY <1>11 DEF At, ReadData
<1>12. CASE ReadFields(t)
  BY <1>12 DEF At, ReadFields
<1>13. CASE NothingToIndex(t)
  BY <1>13 DEF At, NothingToIndex
<1>14. CASE RemoveDocuments(t)
  BY <1>14 DEF At, RemoveDocuments
<1>15. CASE AddDocument(t)
  BY <1>15 DEF At, AddDocument
<1>16. CASE Unindex(t)
  BY <1>16 DEF At, Unindex
<1>17. CASE Commit(t)
  BY <1>17 DEF At, Commit
<1>18. CASE LockTimeout(t)
  BY <1>18 DEF At, LockTimeout
<1>19. CASE Abort(t)
  BY <1>19 DEF At, Abort
<1> QED
  BY <1>1, <1>2, <1>3, <1>4, <1>5, <1>6, <1>7, <1>8, <1>9, <1>10, <1>11, <1>12, <1>13,
     <1>14, <1>15, <1>16, <1>17, <1>18, <1>19 DEF ThreadStep, Request, Continue

LEMMA OwnProgress ==
  ASSUME TypeOK, Locks, NEW t \in Thread, ThreadStep(t), Busy(t) => Progress(t), Busy(t)'
  PROVE  Progress(t)'
<1> USE IdleType, IndexingAssumption DEF database, index, SameRun
<1>l. Lock(t) /\ Lock(t)'
  BY OwnLock DEF Locks
<1>t. work \in [Thread -> WorkType] /\ row \in Row \cup {Absent} /\ docs \in Documents
  BY Types DEF Typed
<1>p. work[t].stage # "idle" => Progress(t)
  BY DEF Busy
<1>1. CASE Save(t)
  BY <1>1, Effects DEF Progress
<1>2. CASE Process(t)
  BY <1>2, Effects DEF Progress
<1>3. CASE Delete(t)
  BY <1>3, Effects DEF Progress
<1>4. CASE SetPrivileges(t)
  <2>1. work'[t].stage = "reading" /\ rowLock' = rowLock /\ row' = row /\ row # Absent
    BY <1>4, Effects DEF SetPrivileges
  <2>2. rowLock # t
    BY <1>4, <1>l, Effects DEF Lock
  <2> QED
    BY <2>1, <2>2 DEF Progress, View
<1>5. CASE IncreasePopularity(t)
  <2>1. work'[t].stage = "reading" /\ rowLock' = t /\ pending' \in Row
    BY <1>5, <1>t, Effects, HitsChange DEF IncreasePopularity, LockRow
  <2> QED
    BY <2>1 DEF Progress, View
<1>6. CASE EnterUpdate(t)
  BY <1>6, Effects DEF Progress
<1>7. CASE Write(t)
  <2>1. work'[t].stage \in {"reading", "written"}
    BY <1>7, Effects
  <2>2. rowLock' = t /\ pending' \in Row
    BY <1>7, WrittenRow DEF Write, LockRow
  <2> QED
    BY <2>1, <2>2 DEF Progress, View
<1>8. CASE WriteDelete(t)
  BY <1>8, Effects DEF Progress
<1>9. CASE Gone(t)
  BY <1>9, Effects DEF Busy
<1>10. CASE CommitFirst(t)
  <2>1. work'[t].stage = "reading" /\ row' = pending /\ rowLock' = NoThread
    BY <1>10, Effects DEF CommitFirst, Unlock
  <2>2. pending # Absent
    BY <1>10, <1>l DEF CommitFirst, Lock
  <2> QED
    BY <2>1, <2>2 DEF Progress, View
<1>11. CASE ReadData(t)
  <2>1. /\ work'[t].stage = "read" /\ work'[t].seen.data = View(t).data
        /\ View(t) \in Row /\ View(t)' = View(t)
    BY <1>11, <1>t, ReadWork DEF ReadData, View
  <2> QED
    BY <2>1 DEF Progress
<1>12. CASE ReadFields(t)
  <2>1. work[t].stage = "read" /\ work[t].seen.data = View(t).data
    BY <1>12, <1>p DEF ReadFields, Progress
  <2>2. /\ work'[t].stage = "ready" /\ View(t) \in Row
        /\ work'[t].seen = [data |-> work[t].seen.data, date |-> View(t).date,
                            hits |-> View(t).hits, allowed |-> allowed]
    BY <1>12, <1>t, <2>1, ReadWork
  <2>3. View(t)' = View(t) /\ allowed' = allowed
    BY <1>12 DEF ReadFields, View
  <2>4. work'[t].seen = Document(View(t))'
    BY <2>1, <2>2, <2>3 DEF Document
  <2>5. work'[t].seen.data = View(t)'.data
    BY <2>1, <2>2, <2>3
  <2> QED
    BY <2>2, <2>3, <2>4, <2>5 DEF Progress
<1>13. CASE NothingToIndex(t)
  <2>1. FALSE
    BY <1>13, <1>p DEF NothingToIndex, Progress
  <2> QED
    BY <2>1
<1>14. CASE RemoveDocuments(t)
  <2>1. /\ work'[t].stage = "removed" /\ work'[t].seen = work[t].seen
        /\ docs'.live = <<>>
    BY <1>14, <1>t, GoWork, StageNames, DeletedType DEF RemoveDocuments
  <2>2. View(t)' = View(t) /\ allowed' = allowed
    BY <1>14 DEF RemoveDocuments, View
  <2>3. Document(View(t))' = Document(View(t))
    BY <2>2 DEF Document
  <2>4. work[t].stage = "ready"
    BY <1>14 DEF RemoveDocuments
  <2> QED
    BY <1>p, <2>1, <2>2, <2>3, <2>4 DEF Progress
<1>15. CASE AddDocument(t)
  <2>1. rowLock = t /\ work'[t].stage = "ended"
    BY <1>15, Effects DEF Busy
  <2>2. /\ work[t].stage = "removed" /\ docs.live = <<>>
        /\ work[t].seen = Document(pending) /\ pending # Absent
    BY <1>15, <1>p, <2>1 DEF AddDocument, Progress, View
  <2>3. docs'.live = <<Document(pending)>> /\ pending' = pending /\ allowed' = allowed
    BY <1>15, <2>2 DEF AddDocument
  <2>4. Document(pending)' = Document(pending)
    BY <2>3 DEF Document
  <2>5. Shows(pending)'
    BY <2>2, <2>3, <2>4 DEF Shows
  <2> QED
    BY <2>1, <2>5 DEF Progress
<1>16. CASE Unindex(t)
  <2>1. work'[t].stage = "ended" /\ docs'.live = <<>> /\ pending' = pending
    BY <1>16, <1>t, Effects, DeletedType DEF Unindex
  <2>2. pending = Absent
    BY <1>16, <1>l DEF Unindex, Lock
  <2> QED
    BY <2>1, <2>2 DEF Progress, Shows
<1>17. CASE Commit(t)
  BY <1>17, Effects DEF Busy
<1>18. CASE LockTimeout(t)
  BY <1>18, Effects DEF Busy
<1>19. CASE Abort(t)
  BY <1>19, Effects DEF Busy
<1> QED
  BY <1>1, <1>2, <1>3, <1>4, <1>5, <1>6, <1>7, <1>8, <1>9, <1>10, <1>11, <1>12, <1>13,
     <1>14, <1>15, <1>16, <1>17, <1>18, <1>19 DEF ThreadStep, Request, Continue

\* While saves and deletions meet, the one that indexes has the row, and nobody
\* else changes what it has read or the documents
LEMMA OtherProgress ==
  ASSUME TypeOK, Locks, NEW t \in Thread, ThreadStep(t), NEW u \in Thread \ {t},
         Busy(u), Progress(u), ~Loose(u),
         Busy(t) => ~Loose(t), Busy(t)' => ~Loose(t)'
  PROVE  Progress(u)'
<1>1. work'[u] = work[u] /\ Lock(u) /\ Lock(t)
  BY Effects DEF Locks
<1>2. CASE ~Active(u)
  BY <1>1, <1>2 DEF Active, Progress
<1>3. CASE work[u].stage \in {"written", "unindex"}
  BY <1>1, <1>3 DEF Progress
<1>4. CASE Active(u) /\ work[u].stage \notin {"written", "unindex"}
  <2>1. rowLock = u
    BY <1>1, <1>4 DEF Active, Lock, Loose
  <2>2. rowLock' = u /\ pending' = pending /\ row' = row
    BY <2>1, Others
  <2>3. docs' = docs
    <3>1. CASE Busy(t)
      <4>1. work[t].stage \notin {"ready", "removed", "unindex"}
        BY <1>1, <2>1, <3>1 DEF Lock, Loose
      <4> QED
        BY <4>1, Footprint
    <3>2. CASE ~Busy(t)
      <4>1. work[t].stage = "idle"
        BY <3>2, IdleType DEF Busy
      <4> QED
        BY <4>1, Footprint
    <3> QED
      BY <3>1, <3>2
  <2>4. allowed' = allowed
    BY Footprint, IdleType DEF Busy, Loose
  <2>5. View(u)' = View(u) /\ Document(View(u))' = Document(View(u))
        /\ Document(pending)' = Document(pending)
    BY <2>1, <2>2, <2>4 DEF View, Document
  <2>6. Shows(pending)' <=> Shows(pending)
    BY <2>2, <2>3, <2>5 DEF Shows
  <2> QED
    BY <1>1, <2>3, <2>5, <2>6 DEF Progress
<1> QED
  BY <1>2, <1>3, <1>4 DEF Active

\* The end of an indexing or of a transaction leaves the committed row in the index
LEMMA Leaves ==
  ASSUME TypeOK, Locks, NEW t \in Thread, ThreadStep(t), Progress(t),
         Active(t), ~Active(t)', ~Abort(t)
  PROVE  Shows(row)' /\ docs'.live \in {<<>>, <<Document(row)'>>}
<1> USE Effects, IdleType DEF Active
<1>0. docs \in Documents /\ Lock(t)
  BY Types DEF Typed, Locks
<1>1. CASE Save(t)
  BY <1>1 DEF Save, LockRow, At
<1>2. CASE Process(t)
  BY <1>2 DEF Process, Enter, At
<1>3. CASE Delete(t)
  BY <1>3 DEF Delete, Enter, At
<1>4. CASE SetPrivileges(t)
  BY <1>4 DEF SetPrivileges, At
<1>5. CASE IncreasePopularity(t)
  BY <1>5 DEF IncreasePopularity, LockRow, At
<1>6. CASE EnterUpdate(t)
  BY <1>6 DEF EnterUpdate, At
<1>7. CASE Write(t)
  BY <1>7 DEF Write, Leave, LockRow, At
<1>8. CASE WriteDelete(t)
  BY <1>8 DEF WriteDelete, LockRow, At
<1>9. CASE Gone(t)
  BY <1>9 DEF Gone, Leave, At
<1>10. CASE CommitFirst(t)
  BY <1>10 DEF CommitFirst, Unlock, At
<1>11. CASE ReadData(t)
  BY <1>11 DEF ReadData, At
<1>12. CASE ReadFields(t)
  BY <1>12 DEF ReadFields, At
<1>13. CASE NothingToIndex(t)
  BY <1>13 DEF NothingToIndex, Progress
<1>14. CASE RemoveDocuments(t)
  BY <1>14 DEF RemoveDocuments, At
<1>15. CASE AddDocument(t)
  <2>1. rowLock # t
    BY <1>15
  <2>2. /\ docs.live = <<>> /\ work[t].seen = Document(row) /\ row # Absent
    BY <1>15, <2>1 DEF AddDocument, Progress, View
  <2>3. docs'.live = <<Document(row)>> /\ row' = row /\ allowed' = allowed
    BY <1>15, <2>2 DEF AddDocument, database
  <2>4. Document(row)' = Document(row)
    BY <2>3 DEF Document
  <2> QED
    BY <2>2, <2>3, <2>4 DEF Shows
<1>16. CASE Unindex(t)
  BY <1>16 DEF Unindex, Leave, At
<1>17. CASE Commit(t)
  <2>1. Shows(pending) /\ row' = pending /\ docs' = docs /\ allowed' = allowed
    BY <1>17 DEF Commit, Progress, SameRun, index
  <2>2. Document(row)' = Document(pending)
    BY <2>1 DEF Document
  <2> QED
    BY <2>1, <2>2 DEF Shows
<1>18. CASE LockTimeout(t)
  BY <1>18 DEF LockTimeout, Leave, At
<1>19. CASE Abort(t)
  BY <1>19
<1> QED
  BY <1>1, <1>2, <1>3, <1>4, <1>5, <1>6, <1>7, <1>8, <1>9, <1>10, <1>11, <1>12, <1>13,
     <1>14, <1>15, <1>16, <1>17, <1>18, <1>19 DEF ThreadStep, Request, Continue

-----------------------------------------------------------------------------
(* The steps of the system *)

\* What a crash and init() leave
LEMMA CrashEffects ==
  ASSUME TypeOK, Crash
  PROVE  /\ rowLock' = NoThread /\ monitor' = NoThread /\ pending' = Absent
         /\ row' = row /\ allowed' = allowed
         /\ disk' = (IF row = Absent THEN AllDeleted(disk) ELSE disk) /\ docs' = disk'
         /\ IF ToIndex
            THEN \E t \in Thread :
                    /\ work'[t].op = "rebuild" /\ work'[t].stage = "reading"
                    /\ \A u \in Thread \ {t} : work'[u] = Idle
            ELSE \A t \in Thread : work'[t] = Idle
         /\ work' \in [Thread -> WorkType]
         /\ changes' = changes /\ crashes' \in 0 .. MaxCrashes /\ crashes' # crashes
<1> USE IndexingAssumption DEF Unlock
<1>1. work' \in [Thread -> WorkType]
      /\ IF ToIndex
         THEN \E t \in Thread :
                 /\ work'[t].op = "rebuild" /\ work'[t].stage = "reading"
                 /\ \A u \in Thread \ {t} : work'[u] = Idle
         ELSE \A t \in Thread : work'[t] = Idle
  <2> DEFINE w == [Idle EXCEPT !.op = "rebuild", !.stage = "reading"]
  <2>1. w \in WorkType /\ w.op = "rebuild" /\ w.stage = "reading"
    BY DEF Idle, NoReading, WorkType, Reading, Operations, Stages
  <2>2. CASE ToIndex
    <3>1. PICK t \in Thread : work' = [u \in Thread |-> IF u = t THEN w ELSE Idle]
      BY <2>2 DEF Crash
    <3> HIDE DEF w
    <3> QED
      BY <2>1, <2>2, <3>1, IdleType
  <2>3. CASE ~ToIndex
    BY <2>3, IdleType DEF Crash
  <2> QED
    BY <2>2, <2>3
<1>2. changes' = changes /\ crashes' \in 0 .. MaxCrashes /\ crashes' # crashes
  BY Types DEF Typed, Crash
<1> QED
  BY <1>1, <1>2 DEF Crash

LEMMA NextTyping ==
  ASSUME TypeOK, Locks, Next
  PROVE  TypeOK' /\ Locks'
<1>t. Typed
  BY Types
<1>1. ASSUME NEW t \in Thread, ThreadStep(t) PROVE TypeOK' /\ Locks'
  BY <1>1, ThreadTyping, ThreadLocks
<1>2. CASE CommitIndex
  <2>1. Typed'
    BY <1>2, <1>t DEF CommitIndex, Typed, Holding, At, database
  <2>2. Locks'
    BY <1>2 DEF CommitIndex, Locks, Lock, database
  <2> QED
    BY <2>1, <2>2, Types
<1>3. CASE Merge
  <2>1. docs' \in Documents
    BY <1>3, <1>t DEF Merge, Typed, Documents
  <2>2. Typed'
    BY <1>3, <1>t, <2>1 DEF Merge, Typed, Holding, At, database
  <2>3. Locks'
    BY <1>3 DEF Merge, Locks, Lock, database
  <2> QED
    BY <2>2, <2>3, Types
<1>4. CASE Crash
  <2>1. \A t \in Thread : work'[t].stage \in {"idle", "reading"}
                          /\ (work'[t].stage = "idle" => work'[t] = Idle)
                          /\ (work'[t].stage # "idle" => work'[t].op = "rebuild")
    BY <1>4, CrashEffects, IdleType
  <2>2. Holding'
    BY <2>1 DEF Holding, At
  <2>3. Locks'
    BY <1>4, <2>1, CrashEffects, IdleType, IndexingAssumption DEF Locks, Lock, Monitored
  <2>4. docs' \in Documents /\ disk' \in Documents
    BY <1>4, <1>t, CrashEffects, DeletedType DEF Typed
  <2>5. Typed'
    BY <1>4, <1>t, <2>2, <2>4, CrashEffects DEF Typed
  <2> QED
    BY <2>3, <2>5, Types
<1> QED
  BY <1>1, <1>2, <1>3, <1>4 DEF Next

-----------------------------------------------------------------------------
(* The histories *)

LEMMA History ==
  ASSUME HNext
  PROVE  \/ Crash
         \/ /\ ~Crash
            /\ \E t \in Thread : Cleans(t)
            /\ stain' = {}
         \/ /\ ~Crash
            /\ stain \subseteq stain'
            /\ Unguarded => ~Guarded'
            /\ (\E t \in Thread : Abort(t)) => "abort" \in stain'
BY DEF HNext, Stains, Guarded

\* An operation that had the server for itself
LEMMA CleanIndex ==
  ASSUME IInv, NEW t \in Thread, Cleans(t)
  PROVE  /\ \A u \in Thread : ~Busy(u)'
         /\ Shows(row)' /\ docs'.live \in {<<>>, <<Document(row)'>>}
<1> USE DEF IInv, Typing
<1>1. Busy(t) /\ ~Busy(t)' /\ ~met[t] /\ (Commit(t) \/ AddDocument(t))
  BY DEF Cleans
<1>3. \A u \in Thread : ~Busy(u)'
  <2>1. \A u \in Thread \ {t} : ~Busy(u)
    BY <1>1 DEF Alone
  <2>2. ThreadStep(t)
    BY <1>1 DEF ThreadStep, Continue
  <2> QED
    BY <1>1, <2>1, <2>2, Effects DEF Busy
<1>4. Progress(t)
  BY <1>1 DEF Sound
<1>5. Active(t) /\ ~Active(t)'
  BY <1>1, <1>3, IdleType DEF Active, Commit, AddDocument, Busy
<1>6. CASE AddDocument(t)
  <2>1. ThreadStep(t) /\ ~Abort(t)
    BY <1>6 DEF ThreadStep, Continue, Abort, AddDocument, At
  <2> QED
    BY <1>3, <1>4, <1>5, <2>1, Leaves
<1>7. CASE Commit(t)
  <2>1. Shows(pending) /\ row' = pending /\ docs' = docs /\ allowed' = allowed
    BY <1>4, <1>7 DEF Commit, Progress, SameRun, index
  <2>2. Document(row)' = Document(pending)
    BY <2>1 DEF Document
  <2> QED
    BY <1>3, <2>1, <2>2 DEF Shows
<1> QED
  BY <1>1, <1>3, <1>6, <1>7

LEMMA AloneStep ==
  ASSUME IInv, HNext
  PROVE  Alone'
<1>1. \A t \in Thread : met'[t] => Busy(t)'
  BY DEF HNext, Meets
<1>2. ASSUME NEW t \in Thread, NEW u \in Thread, t # u, Busy(t)', Busy(u)'
      PROVE  met'[t] /\ (Guarded' => ~Loose(t)')
  <2>1. met'[t]
    BY <1>2 DEF HNext, Meets
  <2>2. CASE Crash
    <3>1. TypeOK
      BY DEF IInv, Typing
    <3> QED
      BY <1>2, <2>2, <3>1, CrashEffects DEF Busy
  <2>3. CASE \E v \in Thread : Cleans(v)
    BY <1>2, <2>3, CleanIndex
  <2>4. CASE Unguarded => ~Guarded'
    BY <1>2, <2>1, <2>4 DEF Unguarded
  <2> QED
    BY <2>1, <2>2, <2>3, <2>4, History
<1> QED
  BY <1>1, <1>2 DEF Alone

LEMMA SoundStep ==
  ASSUME IInv, HNext, Alone'
  PROVE  Sound'
<1> USE DEF IInv, Typing
<1> SUFFICES ASSUME NEW u \in Thread, Busy(u)', Guarded' \/ ~met'[u]
             PROVE  Progress(u)'
  BY DEF Sound
<1>1. CASE Crash
  <2>1. work'[u].stage = "reading" /\ ToIndex
    BY <1>1, CrashEffects DEF Busy
  <2> QED
    BY <1>1, <2>1, CrashEffects, IndexingAssumption DEF Progress, View, ToIndex
<1>2. CASE \E t \in Thread : Cleans(t)
  BY <1>2, CleanIndex
<1>3. CASE ~Crash /\ stain \subseteq stain'
  <2>1. Busy(u) => (Guarded \/ ~met[u]) /\ Progress(u)
    <3>1. Guarded' => Guarded
      BY <1>3 DEF Guarded
    <3>2. Busy(u) /\ ~met'[u] => ~met[u]
      BY DEF HNext, Meets
    <3> QED
      BY <3>1, <3>2 DEF Sound
  <2>2. CASE CommitIndex \/ Merge
    <3>1. /\ work' = work /\ row' = row /\ pending' = pending /\ rowLock' = rowLock
          /\ allowed' = allowed /\ docs'.live = docs.live
      BY <2>2, Types DEF Typed, Documents, CommitIndex, Merge, database
    <3>2. Busy(u) /\ Progress(u)
      BY <2>1, <3>1 DEF Busy
    <3>3. /\ View(u)' = View(u) /\ Document(View(u))' = Document(View(u))
          /\ Shows(pending)' = Shows(pending)
      BY <3>1 DEF View, Document, Shows
    <3> QED
      BY <3>1, <3>2, <3>3 DEF Progress
  <2>3. CASE ThreadStep(u)
    BY <2>1, <2>3, OwnProgress
  <2>4. ASSUME NEW t \in Thread \ {u}, ThreadStep(t)
        PROVE  Progress(u)'
    <3>1. work'[u] = work[u] /\ Busy(u) /\ Progress(u)
      BY <2>1, <2>4, Effects DEF Busy
    <3>2. Busy(t) \/ Busy(t)'
      BY <2>4, Acts
    <3>3. Busy(t)' => met'[u]
      BY DEF HNext, Meets
    <3>4. Busy(t) => met[u]
      BY <3>1, <2>4 DEF Alone
    <3>5. Guarded' /\ Guarded
      BY <1>3, <2>1, <3>1, <3>2, <3>3, <3>4 DEF Guarded, HNext, Meets
    <3>6. /\ Busy(t) => ~Loose(t) /\ ~Loose(u)
          /\ Busy(t)' => ~Loose(t)' /\ ~Loose(u)'
      BY <2>4, <3>1, <3>5 DEF Alone
    <3>7. Loose(u)' <=> Loose(u)
      BY <3>1 DEF Loose
    <3> QED
      BY <2>4, <3>1, <3>2, <3>6, <3>7, OtherProgress
  <2> QED
    BY <1>3, <2>2, <2>3, <2>4 DEF HNext, Next
<1> QED
  BY <1>1, <1>2, <1>3, History

LEMMA OneDocument == ASSUME NEW x PROVE Len(<<x>>) = 1 /\ <<x>>[1] = x
OBVIOUS

LEMMA ShowsShowsDate == Shows(row) => ShowsDate(row)
<1>1. Document(row).date = row.date
  BY DEF Document
<1> QED
  BY <1>1, OneDocument DEF Shows, ShowsDate

LEMMA SettledStep ==
  ASSUME IInv, HNext
  PROVE  Settled'
<1> USE DEF IInv, Typing
<1> SUFFICES ASSUME ~Indexing'
             PROVE  /\ stain' = {} => Shows(row)'
                    /\ stain' \subseteq {"crash"} => ShowsDate(row)'
  BY DEF Settled
<1>0. Shows(row)' => ShowsDate(row)'
  <2>1. Document(row)'.date = row'.date
    BY DEF Document
  <2> QED
    BY <2>1, OneDocument DEF Shows, ShowsDate
<1>1. CASE Crash
  <2>1. ~ToIndex
    BY <1>1, CrashEffects DEF Indexing
  <2>2. "crash" \in stain' /\ (stain' \subseteq {"crash"} => "unguarded" \notin onDisk /\ ~Hidden)
    BY <1>1 DEF HNext, Stains
  <2>3. disk \in Documents
    BY Types DEF Typed
  <2>4. CASE row = Absent
    BY <1>1, <2>2, <2>3, <2>4, CrashEffects, DeletedType DEF ShowsDate
  <2>5. CASE row # Absent
    <3>1. docs' = disk /\ row' = row
      BY <1>1, <2>5, CrashEffects
    <3>2. disk.last = row.date
      BY <2>1, <2>5 DEF ToIndex
    <3>3. stain' \subseteq {"crash"} => disk.live # <<>> /\ Len(disk.live) \in 0 .. 1
      BY <2>1, <2>2, <2>5 DEF Hidden, Single
    <3>4. disk.live \in Seq(Reading)
      BY <2>3 DEF Documents
    <3>5. stain' \subseteq {"crash"} => Len(disk.live) = 1
      BY <3>3, <3>4, EmptySeq
    <3>6. stain' \subseteq {"crash"} => disk.live[1].date = row.date
      BY <3>2, <3>3, <3>5 DEF Single, Newest
    <3> QED
      BY <2>2, <2>5, <3>1, <3>5, <3>6 DEF ShowsDate
  <2> QED
    BY <2>4, <2>5
<1>2. CASE \E t \in Thread : Cleans(t)
  BY <1>0, <1>2, CleanIndex
<1>3. CASE /\ ~Crash /\ stain \subseteq stain'
           /\ (\E t \in Thread : Abort(t)) => "abort" \in stain'
  <2>1. CASE CommitIndex \/ Merge
    <3>1. /\ work' = work /\ row' = row /\ allowed' = allowed /\ docs'.live = docs.live
      BY <2>1, Types DEF Typed, Documents, CommitIndex, Merge, database
    <3>2. ~Indexing
      BY <3>1 DEF Indexing
    <3>3. (Shows(row)' <=> Shows(row)) /\ (ShowsDate(row)' <=> ShowsDate(row))
      BY <3>1 DEF Shows, ShowsDate, Document
    <3> QED
      BY <1>3, <3>2, <3>3 DEF Settled
  <2>2. ASSUME NEW t \in Thread, ThreadStep(t)
        PROVE  /\ stain' = {} => Shows(row)'
               /\ stain' \subseteq {"crash"} => ShowsDate(row)'
    <3>1. \A u \in Thread \ {t} : work'[u] = work[u]
      BY <2>2, Effects
    <3>2. ~Active(t)'
      BY DEF Active, Indexing
    <3>3. CASE ~Active(t)
      <4>1. ~Indexing
        BY <3>1, <3>3 DEF Indexing, Active
      <4>2. docs' = docs /\ row' = row /\ allowed' = allowed
        BY <2>2, <3>2, <3>3, Footprint DEF Active
      <4>3. (Shows(row)' <=> Shows(row)) /\ (ShowsDate(row)' <=> ShowsDate(row))
        BY <4>2 DEF Shows, ShowsDate, Document
      <4> QED
        BY <1>3, <4>1, <4>3 DEF Settled
    <3>4. CASE Active(t)
      <4> SUFFICES ASSUME stain' \subseteq {"crash"} PROVE Shows(row)'
        BY <1>0
      <4>1. Guarded /\ ~Abort(t)
        BY <1>3 DEF Guarded
      <4>2. Progress(t)
        BY <3>4, <4>1, IdleType DEF Sound, Busy, Active
      <4> QED
        BY <2>2, <3>2, <3>4, <4>1, <4>2, Leaves
    <3> QED
      BY <3>3, <3>4
  <2> QED
    BY <1>3, <2>1, <2>2 DEF HNext, Next
<1> QED
  BY <1>1, <1>2, <1>3, History

LEMMA IndexSteps ==
  ASSUME TypeOK, NEW t \in Thread, ThreadStep(t)
  PROVE  docs' = docs \/ docs'.live = <<>> \/ AddDocument(t)
<1> USE DEF index, SameRun
<1>t. docs \in Documents
  BY Types DEF Typed
<1>1. CASE Save(t)
  BY <1>1 DEF Save
<1>2. CASE Process(t)
  BY <1>2 DEF Process, Enter
<1>3. CASE Delete(t)
  BY <1>3 DEF Delete, Enter
<1>4. CASE SetPrivileges(t)
  BY <1>4 DEF SetPrivileges
<1>5. CASE IncreasePopularity(t)
  BY <1>5 DEF IncreasePopularity
<1>6. CASE EnterUpdate(t)
  BY <1>6 DEF EnterUpdate
<1>7. CASE Write(t)
  BY <1>7 DEF Write
<1>8. CASE WriteDelete(t)
  BY <1>8 DEF WriteDelete
<1>9. CASE Gone(t)
  BY <1>9 DEF Gone
<1>10. CASE CommitFirst(t)
  BY <1>10 DEF CommitFirst
<1>11. CASE ReadData(t)
  BY <1>11 DEF ReadData
<1>12. CASE ReadFields(t)
  BY <1>12 DEF ReadFields
<1>13. CASE NothingToIndex(t)
  BY <1>13 DEF NothingToIndex
<1>14. CASE RemoveDocuments(t)
  BY <1>14, <1>t, DeletedType DEF RemoveDocuments
<1>15. CASE AddDocument(t)
  BY <1>15
<1>16. CASE Unindex(t)
  BY <1>16, <1>t, DeletedType DEF Unindex
<1>17. CASE Commit(t)
  BY <1>17 DEF Commit
<1>18. CASE LockTimeout(t)
  BY <1>18 DEF LockTimeout
<1>19. CASE Abort(t)
  BY <1>19 DEF Abort
<1> QED
  BY <1>1, <1>2, <1>3, <1>4, <1>5, <1>6, <1>7, <1>8, <1>9, <1>10, <1>11, <1>12, <1>13,
     <1>14, <1>15, <1>16, <1>17, <1>18, <1>19 DEF ThreadStep, Request, Continue

\* A document that is added is the newest
LEMMA AddNewest ==
  ASSUME NEW q \in Seq(Reading), NEW r \in Reading
  PROVE  /\ Append(q, r) # <<>>
         /\ Append(q, r)[Len(Append(q, r))].date = r.date
         /\ q = <<>> => Len(Append(q, r)) = 1
BY AppendProperties, EmptySeq

LEMMA SingleStep ==
  ASSUME IInv, HNext
  PROVE  Single'
<1> USE DEF IInv, Typing
<1>t. docs \in Documents /\ disk \in Documents /\ work \in [Thread -> WorkType]
      /\ crashes \in 0 .. MaxCrashes
  BY Types DEF Typed
<1>1. CASE Crash
  <2>1. docs' = disk' /\ (disk' = disk \/ disk' = AllDeleted(disk))
    BY <1>1, CrashEffects
  <2>2. Newest(disk)' /\ Newest(docs)' /\ (Len(disk'.live) \in 0 .. 1 \/ disk'.live = disk.live)
    BY <1>t, <2>1, DeletedType, EmptySeq DEF Single, Newest
  <2>3. ~CommitIndex
    BY <1>1, CrashEffects DEF CommitIndex
  <2>4. onDisk' = onDisk /\ (Guarded' => "unguarded" \notin onDisk)
    BY <1>1, <2>3 DEF HNext, Stains, Guarded
  <2> QED
    BY <2>1, <2>2, <2>4 DEF Single
<1>2. CASE CommitIndex
  <2>1. disk' = docs /\ docs' = docs /\ onDisk' = stain
    BY <1>2 DEF CommitIndex, HNext, Stains
  <2>2. ~Crash /\ \A t \in Thread : ~Cleans(t)
    BY <1>2, <1>t, CrashEffects DEF CommitIndex, Cleans, Busy
  <2>3. Guarded' => Guarded
    BY <2>2, History DEF Guarded
  <2> QED
    BY <2>1, <2>3 DEF Single, Guarded
<1>3. CASE Merge
  <2>1. docs'.live = <<>> /\ disk' = disk
    BY <1>3, <1>t DEF Merge, Documents
  <2>2. onDisk' = onDisk
    BY <2>1 DEF CommitIndex, HNext, Stains
  <2> QED
    BY <2>1, <2>2, EmptySeq DEF Single, Newest
<1>4. ASSUME NEW t \in Thread, ThreadStep(t), ~Crash
      PROVE  Single'
  <2>1. disk' = disk
    BY <1>4, Footprint
  <2>2. onDisk' = onDisk
    BY <2>1 DEF CommitIndex, HNext, Stains
  <2>3. CASE \E u \in Thread : Cleans(u)
    <3>1. docs'.live \in {<<>>, <<Document(row)'>>}
      BY <2>3, CleanIndex
    <3>2. Len(docs'.live) \in 0 .. 1
      BY <3>1
    <3>3. Newest(docs)'
      <4>1. PICK u \in Thread : Cleans(u)
        BY <2>3
      <4>2. CASE AddDocument(u)
        BY <1>t, <4>2, AddNewest DEF AddDocument, Newest, Documents, WorkType
      <4>3. CASE Commit(u)
        BY <4>3 DEF Commit, index, Single, Newest
      <4> QED
        BY <4>1, <4>2, <4>3 DEF Cleans
    <3> QED
      BY <2>1, <2>2, <3>2, <3>3 DEF Single, Newest
  <2>4. CASE stain \subseteq stain'
    <3>1. Guarded' => Guarded
      BY <2>4 DEF Guarded
    <3>2. CASE docs' = docs
      BY <2>1, <2>2, <3>1, <3>2 DEF Single, Newest
    <3>3. CASE docs'.live = <<>>
      BY <2>1, <2>2, <3>3, EmptySeq DEF Single, Newest
    <3>4. CASE AddDocument(t)
      <4>1. Newest(docs)'
        BY <1>t, <3>4, AddNewest DEF AddDocument, Newest, Documents, WorkType
      <4>2. Guarded => docs.live = <<>>
        BY <3>4, IdleType DEF Sound, Progress, AddDocument, Busy
      <4>3. Guarded => Len(docs'.live) = 1
        BY <1>t, <3>4, <4>2, AddNewest DEF AddDocument, Documents, WorkType
      <4> QED
        BY <2>1, <2>2, <3>1, <4>1, <4>3 DEF Single, Newest
    <3> QED
      BY <1>4, <1>t, <3>2, <3>3, <3>4, IndexSteps
  <2> QED
    BY <1>4, <2>3, <2>4, History
<1> QED
  BY <1>1, <1>2, <1>3, <1>4 DEF HNext, Next

-----------------------------------------------------------------------------
(* The theorems *)

LEMMA Initial == HInit => IInv
<1> SUFFICES ASSUME HInit PROVE IInv
  OBVIOUS
<1>1. Typing
  BY InitTyping
<1>2. \A t \in Thread : work[t] = Idle /\ ~met[t]
  BY DEF HInit, Init
<1>3. rowLock = NoThread /\ stain = {} /\ onDisk = {} /\ disk = docs
      /\ docs.live = <<NoReading>> /\ docs.last = 0 /\ row = FirstRow /\ allowed = 0
  BY DEF HInit, Init
<1>4. Locks
  BY <1>2, <1>3, IdleType, IndexingAssumption DEF Locks, Lock, Monitored
<1>5. Alone /\ Sound
  BY <1>2 DEF Alone, Sound, Busy
<1>6. row \in Row /\ Document(row) = NoReading
  BY <1>3 DEF FirstRow, Row, Document, NoReading
<1>7. Shows(row) /\ Settled
  BY <1>3, <1>6, IndexingAssumption, ShowsShowsDate DEF Shows, Settled
<1>8. Single
  BY <1>3 DEF Single, Newest, NoReading
<1> QED
  BY <1>1, <1>4, <1>5, <1>7, <1>8 DEF IInv

LEMMA Inductive == IInv /\ [HNext]_hvars => IInv'
<1> SUFFICES ASSUME IInv, [HNext]_hvars PROVE IInv'
  OBVIOUS
<1>1. CASE HNext
  <2>1. TypeOK' /\ Locks'
    BY <1>1, NextTyping DEF IInv, Typing, HNext
  <2>2. met' \in [Thread -> BOOLEAN]
    BY <1>1 DEF HNext, Meets
  <2>3. Alone'
    BY <1>1, AloneStep
  <2> QED
    BY <1>1, <2>1, <2>2, <2>3, SoundStep, SettledStep, SingleStep DEF IInv, Typing
<1>2. CASE UNCHANGED hvars
  <2>1. UNCHANGED <<row, allowed, rowLock, pending, monitor, work, docs, disk, changes,
                    crashes, met, stain, onDisk>>
    BY <1>2 DEF hvars, vars, database, index
  <2> QED
    BY <2>1 DEF IInv, Typing, TypeOK, At, Locks, Lock, Alone, Busy, Guarded, Loose, Sound,
       Progress, View, Document, Shows, ShowsDate, Settled, Indexing, Single, Newest
<1> QED
  BY <1>1, <1>2

\* The row lock keeps the index in step with the row (DataManager.updateMetadata and
\* deleteMetadata, SearchManager.index): who holds it has read what it will commit,
\* and only it touches the documents.
THEOREM Invariant == HSpec => []IInv
BY Initial, Inductive, PTL DEF HSpec

\* The variables of the indexing have their types; a thread that works in a
\* synchronized method of DataManager has its monitor, and whoever is about to end
\* a transaction holds the row.
THEOREM TypeCorrect == HSpec => []TypeOK
<1>1. IInv => TypeOK
  BY DEF IInv, Typing
<1> QED
  BY <1>1, Invariant, PTL

LEMMA QuietMeansSettled == ASSUME Quiet PROVE ~Indexing
BY IdleType DEF Quiet, Busy, Indexing

\* Any number of overlapping saves and deletions leave the index as the row and its
\* privileges are (DataManager.updateMetadata, deleteMetadata, indexMetadata).
THEOREM QuietIndexAgrees == HSpec => []QuietAgrees
<1>1. IInv => QuietAgrees
  <2>1. Document(row) = RowDocument
    BY DEF Document, RowDocument
  <2> QED
    BY <2>1, QuietMeansSettled, OneDocument DEF IInv, Settled, Shows, QuietAgrees
<1> QED
  BY <1>1, Invariant, PTL

\* After any number of crashes the index shows each record with the date of its row,
\* but for the cases RestartComparesDates names (DataManager.init).
THEOREM RestartRepairs == HSpec => []RestartComparesDates
<1>1. IInv => RestartComparesDates
  BY QuietMeansSettled DEF IInv, Settled, ShowsDate, RestartComparesDates
<1> QED
  BY <1>1, Invariant, PTL

=============================================================================
