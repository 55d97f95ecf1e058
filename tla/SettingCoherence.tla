-------------------------- MODULE SettingCoherence --------------------------
(***************************************************************************)
(* Does the tree in memory end up equal to the Settings table?  The        *)
(* behaviours are those of SettingManager; a history of what was committed *)
(* and flushed, in which order, explains every difference that remains.    *)
(***************************************************************************)
EXTENDS SettingManager

VARIABLE history  (* the commits, flushes and losses so far, in order      *)

Rows(t) == {i \in Ids : written[t][i] # Unset}
TaskIds(t) == {tasks[t][n].id : n \in DOMAIN tasks[t]}

Note(kind, t, ids) ==
  history' = Append(history, [kind |-> kind, tx |-> t, ids |-> ids])

Noted(t) ==
  \/ (Commit(t) \/ ExplicitCommit(t)) /\ Note("commit", t, Rows(t))
  \/ CommitFails(t) /\ Note("lost", t, Rows(t))
  \/ BeginFlush(t) /\ Note("flush", t, TaskIds(t))
  \/ DropTasks(t) /\ Note("drop", t, TaskIds(t))

Unnoted(t) ==
  Call(t) \/ Close(t) \/ Abort(t) \/ Operation(t) \/ BeforeClose(t)
    \/ Notify(t) \/ FlushTask(t) \/ EndFlush(t)

HInit == Init /\ history = <<>>

HNext ==
  \/ \E t \in Tx : Noted(t)
  \/ \E t \in Tx : Unnoted(t) /\ UNCHANGED history
  \/ \E r \in Reader : Get(r) /\ UNCHANGED history
  \/ AllEnded /\ UNCHANGED history

HSpec == HInit /\ [][HNext]_<<vars, history>>

-----------------------------------------------------------------------------
Happened(n, kind, t, i) ==
  history[n].kind = kind /\ history[n].tx = t /\ i \in history[n].ids

\* two transactions committed their rows in one order and flushed in the other
Overtaken(i) ==
  \E a, b \in Tx : \E m, n, p, q \in DOMAIN history :
    /\ m < n /\ Happened(m, "commit", a, i) /\ Happened(n, "commit", b, i)
    /\ p < q /\ Happened(p, "flush", b, i) /\ Happened(q, "flush", a, i)

\* dbms.commit() threw, and the tasks were applied all the same
CommitLost(i) == \E n \in DOMAIN history :
  history[n].kind = "lost" /\ i \in history[n].ids

\* the service had committed on its own before the transaction was aborted
TasksDropped(i) ==
  \E a \in Tx : \E m, n \in DOMAIN history :
    m < n /\ Happened(m, "commit", a, i) /\ Happened(n, "drop", a, i)

Explained(i) == Overtaken(i) \/ CommitLost(i) \/ TasksDropped(i)

\* nobody is about to change the row or the node
Settled(i) == \A t \in Tx : written[t][i] = Unset /\ i \notin TaskIds(t)

Agrees(i) == Visible[i] = db[i]

\* Once nobody is changing a setting, readers see the committed row, unless one
\* of three things happened to it or to a setting above it: a flush overtook
\* another, a commit failed, a service committed and then aborted.
OnlyExplainedDifferences ==
  \A i \in Ids : (\A j \in Ids : Below(j, i) => Settled(j)) /\ ~Agrees(i)
                   => \E j \in Ids : Below(j, i) /\ Explained(j)

\* "In any commit combination, the settings integrity is maintained"
\* (SettingManager line 63): if no commit failed and no task of a committed row
\* was dropped, the tree is the table once nobody is changing a setting.
AnyCommitCombinationAgrees ==
  (\A i \in Ids : Settled(i) /\ ~CommitLost(i) /\ ~TasksDropped(i))
    => \A i \in Ids : Agrees(i)
=============================================================================
