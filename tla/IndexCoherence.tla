--------------------------- MODULE IndexCoherence ----------------------------
(***************************************************************************)
(* What the index may be trusted for: MetadataIndexing with a history of   *)
(* the three things that make the index differ from the database.          *)
(***************************************************************************)
EXTENDS MetadataIndexing

VARIABLES
    met,     \* met[t]: another thread was busy while t did its operation
    stain,   \* why the index may differ from the database
    onDisk   \* the same when the index was committed last

hvars == <<vars, met, stain, onDisk>>

Busy(t) == work[t] # Idle
Quiet == \A t \in Thread : ~Busy(t)

\* All but saves and deletions index outside the monitor: they may read, delete
\* and add at any moment of another thread's operation
Loose(t) == work[t].op \notin {"save", "delete"}

Meets == met' = [t \in Thread |->
                   /\ Busy(t)'
                   /\ met[t] \/ \E u \in Thread \ {t} : Busy(u)']

\* An operation that had the server for itself leaves a good index
Cleans(t) == /\ Busy(t) /\ ~Busy(t)' /\ ~met[t]
             /\ Commit(t) \/ AddDocument(t)

Unguarded == \E t, u \in Thread :
                /\ t # u /\ Busy(t)' /\ Busy(u)'
                /\ Loose(t)'

\* All that the index on disk holds of the record is a deleted document with the
\* date of its row
Hidden == /\ row # Absent /\ ~ToIndex
          /\ disk.live = <<>>

Stains ==
    /\ onDisk' = IF CommitIndex THEN stain ELSE onDisk
    /\ stain' =
      IF Crash THEN (onDisk \ {"abort"}) \cup {"crash"}
                      \cup (IF Hidden THEN {"hidden"} ELSE {})
      ELSE IF \E t \in Thread : Cleans(t) THEN {}
      ELSE stain \cup (IF Unguarded THEN {"unguarded"} ELSE {})
                 \cup (IF \E t \in Thread : Abort(t) THEN {"abort"} ELSE {})

HInit == Init /\ met = [t \in Thread |-> FALSE] /\ stain = {} /\ onDisk = {}
HNext == Next /\ Meets /\ Stains
HSpec == HInit /\ [][HNext]_hvars

-----------------------------------------------------------------------------
RowDocument == [data |-> row.data, date |-> row.date, hits |-> row.hits,
                allowed |-> allowed]

\* Saves and deletions of one record that overlap in any way leave exactly one
\* document of it, or none when it is deleted, and that document is what was
\* committed: although each indexes before it commits and outside any lock of
\* the index.  Only an abort, a crash or an indexing outside the monitor
\* (processing, privileges, popularity, rebuilding) that meets another operation
\* breaks this, until an operation of the record has the server for itself.
QuietAgrees ==
    Quiet /\ stain = {} =>
       IF row = Absent THEN docs.live = <<>>
       ELSE Len(docs.live) = 1 /\ docs.live[1] = RowDocument

\* After a restart a record that is not in the database is not in the index, and
\* one that is there is shown once, with the date of its row, unless all that
\* the index had of it on disk was a deleted document with that date.  An index
\* that an abort had left with what the database never had is repaired as well.
RestartComparesDates ==
    Quiet /\ stain = {"crash"} =>
       IF row = Absent THEN docs.live = <<>>
       ELSE Len(docs.live) = 1 /\ docs.live[1].date = row.date

\* SearchManager.getDocsChangeDate about looking at deleted documents, whose
\* check is commented out: "It shouldn't be needed I would guess".  A restarted
\* server has every record in its index.
RestartIndexesRecord ==
    Quiet /\ row # Absent /\ stain \subseteq {"crash", "hidden"} => docs.live # <<>>
=============================================================================
