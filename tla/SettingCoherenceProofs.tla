----------------------- MODULE SettingCoherenceProofs ------------------------
(***************************************************************************)
(* Proof that, once nobody is changing a setting, readers see the committed*)
(* row of the Settings table unless the history explains the difference,   *)
(* for any number of transactions, readers, settings and operations.       *)
(*                                                                         *)
(* Row by row: an id is given once (Fresh), a row has one writer at a time *)
(* (RowLocks), and each committed change of it has a task or a flush.  So  *)
(* the node holds what the last flush left, the row what the last commit   *)
(* left (LastFlush, LastCommit), and these two are of the same transaction *)
(* unless a flush overtook another.  A row without a node has the task     *)
(* that will add it, a node without a row the one that will remove it      *)
(* (RowAwaitsNode, NodeAwaitsRemoval).                                     *)
(*                                                                         *)
(* Then down the tree: the foreign key keeps the rows above a row          *)
(* (ForeignKey), hence the nodes above its node, hence resolve() finds it. *)
(***************************************************************************)
EXTENDS SettingCoherence, SettingManagerProofs

-----------------------------------------------------------------------------
(* The parts of the inductive invariant *)

Event == [kind : {"commit", "lost", "flush", "drop"}, tx : Tx, ids : SUBSET Ids]

HistoryOK == history \in Seq(Event)

\* q has a task on i; it has this one; it has at most one
Names(q, i) == \E n \in DOMAIN q : q[n].id = i
Has(q, o, i) == \E n \in DOMAIN q : q[n] = [op |-> o, id |-> i]
Once(q, i) == \A m, n \in DOMAIN q : q[m].id = i /\ q[n].id = i => m = n

Committed(t, i) == \E n \in DOMAIN history : Happened(n, "commit", t, i)
Flushed(t, i) == \E n \in DOMAIN history : Happened(n, "flush", t, i)

\* the pool has not decided to drop the tasks
Live(t) == status[t] \notin {"rolledback", "notifyAbort", "aborted"}

\* a node is created under one that was there before
Rooted ==
  /\ \A i \in Ids : parentOf[i] < i
  /\ \A t \in Tx : status[t] = "calling" /\ call[t].op = "add"
                     => call[t].parent <= maxSerial

\* the statements of an operation that is being executed
Underway ==
  \A t \in Tx : \A s \in todo[t] :
    /\ status[t] = "executing"
    /\ s.id <= maxSerial
    /\ IF s.op = "add" THEN todo[t] = {s} ELSE root[s.id] # Absent

Untouched(i) ==
  /\ root[i] = Absent /\ db[i] = Absent
  /\ \A t \in Tx : written[t][i] = Unset /\ ~ Names(tasks[t], i)
  /\ \A n \in DOMAIN history : i \notin history[n].ids

Adding(i) == \E t \in Tx : [op |-> "add", id |-> i] \in todo[t]

Fresh == \A i \in Ids : i > maxSerial \/ Adding(i) => Untouched(i)

\* a row has one writer, which has the task for what it did
RowLocks ==
  \A t \in Tx, i \in Ids :
    /\ written[t][i] \in {t, Absent, Unset}
    /\ written[t][i] # Unset => \A u \in Tx \ {t} : written[u][i] = Unset
    /\ written[t][i] = Absent => Has(tasks[t], "del", i)
    /\ written[t][i] = t /\ db[i] = Absent => Has(tasks[t], "add", i)

FlushNoted(t) ==
  \E p \in DOMAIN history :
    /\ \A i \in Ids : Names(tasks[t], i) => Happened(p, "flush", t, i)
    /\ \A q \in DOMAIN history : q > p => history[q].kind # "flush"

Flushes ==
  \A t \in Tx :
    /\ \A i \in Ids : Flushed(t, i) => status[t] \in {"flushing", "closed"}
    /\ Flushing(t) => FlushNoted(t)

\* what the foreign key, and the row locks it takes, mean for i and its parent
KeyHolds(i, p) ==
  /\ db[i] # Absent => db[p] # Absent
  /\ \A t \in Tx : written[t][i] = t =>
       /\ Seen(t, p) # Absent
       /\ \A u \in Tx \ {t} : written[u][p] # Absent
  /\ \A t \in Tx : written[t][p] = Absent =>
       /\ Seen(t, i) = Absent
       /\ \A u \in Tx \ {t} : written[u][i] = Unset

ForeignKey == \A i \in Ids : parentOf[i] # 0 => KeyHolds(i, parentOf[i])

KInv == HistoryOK /\ Rooted /\ Underway /\ Fresh /\ RowLocks /\ Flushes /\ ForeignKey

\* a committed change is going to be applied, or was
ChangesCarried(j) == \A t \in Tx : Committed(t, j) => Names(tasks[t], j) \/ Flushed(t, j)

\* the row is what the last commit left
LastCommit(j) ==
  /\ db[j] = Original => \A t \in Tx : ~ Committed(t, j)
  /\ db[j] \in Tx => \E n \in DOMAIN history :
       /\ Happened(n, "commit", db[j], j)
       /\ \A m \in DOMAIN history, t \in Tx : m > n => ~ Happened(m, "commit", t, j)

\* the node is what the last flush left that has applied its tasks on it
LastFlush(j) ==
  /\ root[j] = Original => \A t \in Tx : Flushed(t, j) => Names(tasks[t], j)
  /\ root[j] \in Tx => \E p \in DOMAIN history :
       /\ Happened(p, "flush", root[j], j)
       /\ \A q \in DOMAIN history, t \in Tx :
            q > p /\ Happened(q, "flush", t, j) => Names(tasks[t], j)

\* nobody but the transaction that adds a setting has anything to do with it
AddsAlone(j) ==
  \A t \in Tx : Has(tasks[t], "add", j) =>
    /\ root[j] = Absent
    /\ Once(tasks[t], j)
    /\ \A u \in Tx : Names(tasks[u], j) \/ Flushed(u, j) => u = t
    /\ Live(t) => written[t][j] = t \/ db[j] = t

RowAwaitsNode(j) ==
  db[j] # Absent /\ root[j] = Absent =>
    \E t \in Tx : Has(tasks[t], "add", j) /\ Committed(t, j)

NodeAwaitsRemoval(j) ==
  db[j] = Absent /\ root[j] # Absent =>
    \E t \in Tx : Has(tasks[t], "del", j) /\ Committed(t, j)

\* a task that will remove a node removes it from a table it is gone from
RemovalsHold(j) ==
  \A t \in Tx : Has(tasks[t], "del", j) /\ Live(t) =>
    written[t][j] = Absent \/ db[j] = Absent

\* tasks that stand for no row change are for a row that is gone
IdleTasks(j) ==
  \A t \in Tx : ~ Committed(t, j) =>
    /\ Names(tasks[t], j) /\ Live(t) /\ written[t][j] = Unset => db[j] = Absent
    /\ Flushed(t, j) => db[j] = Absent

Coherent(j) ==
  /\ ChangesCarried(j) /\ LastCommit(j) /\ LastFlush(j) /\ AddsAlone(j)
  /\ RowAwaitsNode(j) /\ NodeAwaitsRemoval(j) /\ RemovalsHold(j) /\ IdleTasks(j)

HInv == IInv /\ KInv /\ \A j \in Ids : Explained(j) \/ Coherent(j)

-----------------------------------------------------------------------------
(* Tasks, history and tree *)

\* What a task that is appended adds to a list
LEMMA AppendTask ==
  ASSUME NEW q \in Seq(Statement), NEW s \in Statement, NEW i \in Ids
  PROVE  /\ Names(Append(q, s), i) <=> Names(q, i) \/ s.id = i
         /\ \A o : Has(Append(q, s), o, i) <=> Has(q, o, i) \/ s = [op |-> o, id |-> i]
         /\ Once(q, i) /\ (s.id = i => ~ Names(q, i)) => Once(Append(q, s), i)
<1> DEFINE a == Append(q, s)
<1>1. /\ DOMAIN q = 1 .. Len(q) /\ DOMAIN a = 1 .. Len(q) + 1 /\ Len(q) \in Nat
      /\ a[Len(q) + 1] = s /\ \A n \in 1 .. Len(q) : a[n] = q[n]
  OBVIOUS
<1> HIDE DEF a
<1>2. \A n \in DOMAIN a : (n \in DOMAIN q /\ a[n] = q[n]) \/ (n = Len(q) + 1 /\ a[n] = s)
  BY <1>1
<1>3. \A n \in DOMAIN q : n \in DOMAIN a /\ a[n] = q[n]
  BY <1>1
<1>4. Len(q) + 1 \in DOMAIN a /\ a[Len(q) + 1] = s
  BY <1>1
<1>5. Names(a, i) <=> Names(q, i) \/ s.id = i
  BY <1>2, <1>3, <1>4 DEF Names
<1>6. \A o : Has(a, o, i) <=> Has(q, o, i) \/ s = [op |-> o, id |-> i]
  BY <1>2, <1>3, <1>4 DEF Has
<1>7. Once(q, i) /\ (s.id = i => ~ Names(q, i)) => Once(a, i)
  BY <1>2 DEF Names, Once
<1> QED
  BY <1>5, <1>6, <1>7 DEF a

\* What is left of a list when its first task is applied
LEMMA TailTask ==
  ASSUME NEW q \in Seq(Statement), q # <<>>, NEW i \in Ids
  PROVE  /\ Head(q) \in Statement
         /\ Names(q, i) <=> Names(Tail(q), i) \/ Head(q).id = i
         /\ \A o : Has(q, o, i) <=> Has(Tail(q), o, i) \/ Head(q) = [op |-> o, id |-> i]
         /\ Once(q, i) => /\ Once(Tail(q), i)
                          /\ Head(q).id = i => ~ Names(Tail(q), i)
<1> DEFINE p == Tail(q)
<1>1. /\ DOMAIN q = 1 .. Len(q) /\ DOMAIN p = 1 .. Len(q) - 1 /\ Len(q) \in Nat
      /\ Len(q) > 0 /\ Head(q) = q[1] /\ \A n \in 1 .. Len(q) - 1 : p[n] = q[n + 1]
      /\ Head(q) \in Statement
  OBVIOUS
<1> HIDE DEF p
<1>2. \A n \in DOMAIN p : n + 1 \in DOMAIN q /\ n + 1 # 1 /\ p[n] = q[n + 1]
  BY <1>1
<1>3. \A n \in DOMAIN q : n = 1 \/ (n - 1 \in DOMAIN p /\ p[n - 1] = q[n])
  BY <1>1
<1>4. 1 \in DOMAIN q /\ q[1] = Head(q)
  BY <1>1
<1>5. Names(q, i) <=> Names(p, i) \/ Head(q).id = i
  BY <1>2, <1>3, <1>4 DEF Names
<1>6. \A o : Has(q, o, i) <=> Has(p, o, i) \/ Head(q) = [op |-> o, id |-> i]
  <2> TAKE o
  <2> DEFINE k == [op |-> o, id |-> i]
  <2> HIDE DEF k
  <2>1. (\E n \in DOMAIN q : q[n] = k) <=> (\E n \in DOMAIN p : p[n] = k) \/ Head(q) = k
    BY <1>2, <1>3, <1>4
  <2> QED
    BY <2>1 DEF Has, k
<1>7. ASSUME Once(q, i) PROVE Once(p, i)
  <2> SUFFICES ASSUME NEW m \in DOMAIN p, NEW n \in DOMAIN p, p[m].id = i, p[n].id = i
               PROVE  m = n
    BY DEF Once
  <2>1. /\ m + 1 \in DOMAIN q /\ n + 1 \in DOMAIN q
        /\ q[m + 1].id = i /\ q[n + 1].id = i
    BY <1>2
  <2>2. m + 1 = n + 1
    BY <1>7, <2>1 DEF Once
  <2> QED
    BY <1>1, <2>2
<1>8. ASSUME Once(q, i), Head(q).id = i PROVE ~ Names(p, i)
  <2> SUFFICES ASSUME NEW n \in DOMAIN p, p[n].id = i PROVE FALSE
    BY DEF Names
  <2>1. n + 1 \in DOMAIN q /\ q[n + 1].id = i /\ n + 1 # 1
    BY <1>2
  <2> QED
    BY <1>4, <1>8, <2>1 DEF Once
<1> QED
  BY <1>1, <1>5, <1>6, <1>7, <1>8 DEF p

\* The row, the node or the tasks a list has on i say what its type allows
LEMMA HasNames ==
  ASSUME NEW q, NEW o, NEW i, Has(q, o, i)
  PROVE  Names(q, i)
BY DEF Has, Names

LEMMA OnceHas ==
  ASSUME NEW q, NEW i, NEW o, NEW w, Once(q, i), Has(q, o, i), Has(q, w, i)
  PROVE  o = w
<1>1. PICK m \in DOMAIN q : q[m] = [op |-> o, id |-> i]
  BY DEF Has
<1>2. PICK n \in DOMAIN q : q[n] = [op |-> w, id |-> i]
  BY DEF Has
<1>3. q[m].id = i /\ q[n].id = i /\ q[m].op = o /\ q[n].op = w
  BY <1>1, <1>2
<1> QED
  BY <1>3 DEF Once

\* An event that is noted leaves the others in their places
LEMMA Noting ==
  ASSUME HistoryOK, NEW k, NEW t, NEW ids, Note(k, t, ids)
  PROVE  /\ Len(history) \in Nat /\ DOMAIN history = 1 .. Len(history)
         /\ DOMAIN history' = 1 .. Len(history) + 1
         /\ \A n \in DOMAIN history : n \in DOMAIN history' /\ history'[n] = history[n]
         /\ history'[Len(history) + 1] = [kind |-> k, tx |-> t, ids |-> ids]
BY DEF HistoryOK, Note

\* The two recursions up the tree have solutions, whatever the tree: a set of
\* ids that closes under the recursion is one
LEMMA ReachableUp ==
  ASSUME TypeOK, NEW i \in Ids
  PROVE  Reachable(i) <=> root[i] # Absent /\ (parentOf[i] # 0 => Reachable(parentOf[i]))
<1> DEFINE Is(f) == f = [j \in Ids |-> /\ root[j] # Absent
                                       /\ parentOf[j] # 0 => f[parentOf[j]]]
           Closed(S) == \A k \in S : /\ root[k] # Absent
                                     /\ parentOf[k] # 0 => parentOf[k] \in S
           All == {k \in Ids : \E S \in SUBSET Ids : k \in S /\ Closed(S)}
           w == [j \in Ids |-> j \in All]
           g == CHOOSE f : Is(f)
<1>1. \A j \in Ids : parentOf[j] # 0 => parentOf[j] \in Ids
  BY DEF TypeOK
<1>2. Is(w)
  <2>1. ASSUME NEW j \in Ids
        PROVE  j \in All <=> root[j] # Absent /\ (parentOf[j] # 0 => parentOf[j] \in All)
    <3>1. ASSUME j \in All
          PROVE  root[j] # Absent /\ (parentOf[j] # 0 => parentOf[j] \in All)
      <4>1. PICK S \in SUBSET Ids : j \in S /\ Closed(S)
        BY <3>1
      <4> QED
        BY <1>1, <4>1
    <3>2. ASSUME root[j] # Absent, parentOf[j] = 0
          PROVE  j \in All
      <4>1. Closed({j})
        BY <3>2
      <4> QED
        BY <4>1
    <3>3. ASSUME root[j] # Absent, parentOf[j] \in All
          PROVE  j \in All
      <4>1. PICK S \in SUBSET Ids : parentOf[j] \in S /\ Closed(S)
        BY <3>3
      <4>2. Closed(S \cup {j})
        BY <3>3, <4>1
      <4> QED
        BY <4>1, <4>2
    <3> QED
      BY <3>1, <3>2, <3>3
  <2> HIDE DEF All
  <2>2. \A j \in Ids : w[j] = (j \in All)
    OBVIOUS
  <2>3. ASSUME NEW j \in Ids
        PROVE  w[j] = (root[j] # Absent /\ (parentOf[j] # 0 => w[parentOf[j]]))
    <3>1. parentOf[j] # 0 => (w[parentOf[j]] <=> parentOf[j] \in All)
      BY <1>1, <2>2, Zenon
    <3>2. w[j] <=> root[j] # Absent /\ (parentOf[j] # 0 => w[parentOf[j]])
      BY <2>1, <2>2, <3>1, Zenon
    <3>3. w[j] \in BOOLEAN
      BY <2>2
    <3> QED
      BY <3>2, <3>3, Zenon
  <2>4. w = [j \in Ids |-> w[j]]
    OBVIOUS
  <2> HIDE DEF w
  <2>5. [j \in Ids |-> w[j]]
          = [j \in Ids |-> /\ root[j] # Absent
                           /\ parentOf[j] # 0 => w[parentOf[j]]]
    BY <2>3, Zenon
  <2> QED
    BY <2>4, <2>5, Zenon
<1>3. Is(g)
  <2> HIDE DEF Is
  <2> QED
    BY <1>2
<1>4. \A j \in Ids : Reachable(j) = g[j]
  BY DEF Reachable
<1> HIDE DEF g
<1>5. g[i] = (root[i] # Absent /\ (parentOf[i] # 0 => g[parentOf[i]]))
  BY <1>3
<1>6. CASE parentOf[i] = 0
  BY <1>4, <1>5, <1>6
<1>7. CASE parentOf[i] # 0
  <2>1. Reachable(parentOf[i]) = g[parentOf[i]] /\ Reachable(i) = g[i]
    BY <1>1, <1>4, <1>7
  <2> QED
    BY <1>5, <1>7, <2>1
<1> QED
  BY <1>6, <1>7

LEMMA BelowUp ==
  ASSUME TypeOK, NEW i \in Ids, NEW j \in Ids
  PROVE  Below(i, j) <=> (j # i => parentOf[j] # 0 /\ Below(i, parentOf[j]))
<1> DEFINE Body(f, k) == k # i => parentOf[k] # 0 /\ f[parentOf[k]]
           Is(f) == f = [k \in Ids |-> Body(f, k)]
           Closed(S) == \A k \in S : k # i => parentOf[k] # 0 /\ parentOf[k] \in S
           All == {k \in Ids : \E S \in SUBSET Ids : k \in S /\ Closed(S)}
           w == [k \in Ids |-> k \in All]
           g == CHOOSE f : Is(f)
<1>1. \A k \in Ids : parentOf[k] # 0 => parentOf[k] \in Ids
  BY DEF TypeOK
<1>2. Is(w)
  <2>1. ASSUME NEW k \in Ids
        PROVE  k \in All <=> (k # i => parentOf[k] # 0 /\ parentOf[k] \in All)
    <3>1. ASSUME k \in All, k # i
          PROVE  parentOf[k] # 0 /\ parentOf[k] \in All
      <4>1. PICK S \in SUBSET Ids : k \in S /\ Closed(S)
        BY <3>1
      <4> QED
        BY <1>1, <3>1, <4>1
    <3>2. ASSUME k = i
          PROVE  k \in All
      <4>1. Closed({k})
        BY <3>2
      <4> QED
        BY <4>1
    <3>3. ASSUME parentOf[k] # 0, parentOf[k] \in All
          PROVE  k \in All
      <4>1. PICK S \in SUBSET Ids : parentOf[k] \in S /\ Closed(S)
        BY <3>3
      <4>2. Closed(S \cup {k})
        BY <3>3, <4>1
      <4> QED
        BY <4>1, <4>2
    <3> QED
      BY <3>1, <3>2, <3>3
  <2> HIDE DEF All
  <2>2. \A k \in Ids : w[k] = (k \in All)
    OBVIOUS
  <2>3. ASSUME NEW k \in Ids
        PROVE  w[k] = (k # i => parentOf[k] # 0 /\ w[parentOf[k]])
    <3>1. parentOf[k] # 0 => (w[parentOf[k]] <=> parentOf[k] \in All)
      BY <1>1, <2>2, Zenon
    <3>2. w[k] <=> (k # i => parentOf[k] # 0 /\ w[parentOf[k]])
      BY <2>1, <2>2, <3>1, Zenon
    <3>3. w[k] \in BOOLEAN
      BY <2>2
    <3> QED
      BY <3>2, <3>3, Zenon
  <2>4. w = [k \in Ids |-> w[k]]
    OBVIOUS
  <2> HIDE DEF w
  <2>5. \A k \in Ids : w[k] = Body(w, k)
    BY <2>3
  <2> HIDE DEF Body
  <2>6. [k \in Ids |-> w[k]] = [k \in Ids |-> Body(w, k)]
    BY <2>5, Zenon
  <2> QED
    BY <2>4, <2>6, Zenon
<1>3. Is(g)
  <2> HIDE DEF Is
  <2> QED
    BY <1>2
<1>4. \A k \in Ids : Below(i, k) = g[k]
  BY DEF Below
<1> HIDE DEF g
<1>5. g[j] = (j # i => parentOf[j] # 0 /\ g[parentOf[j]])
  BY <1>3
<1>6. CASE parentOf[j] = 0
  BY <1>4, <1>5, <1>6
<1>7. CASE parentOf[j] # 0
  <2>1. Below(i, parentOf[j]) = g[parentOf[j]] /\ Below(i, j) = g[j]
    BY <1>1, <1>4, <1>7
  <2> QED
    BY <1>5, <1>7, <2>1
<1> QED
  BY <1>6, <1>7

\* What lies below a setting lies below its parent
LEMMA BelowParent ==
  ASSUME TypeOK, Rooted, NEW k \in Ids, NEW i \in Ids, Below(k, i), parentOf[k] # 0
  PROVE  Below(parentOf[k], i)
<1> DEFINE p == parentOf[k]
           S == {m \in Ids : Below(k, m) /\ ~ Below(p, m)}
<1>1. p \in Ids
  BY DEF TypeOK
<1>2. S = {}
  <2> SUFFICES ASSUME S # {} PROVE FALSE
    OBVIOUS
  <2>1. PICK m \in S : \A l \in S : m <= l
    <3>1. S \in SUBSET Nat
      BY DEF Ids
    <3> HIDE DEF S
    <3> QED
      BY <3>1, LeastNatural
  <2>2. m \in Ids /\ Below(k, m) /\ ~ Below(p, m)
    BY <2>1
  <2>3. m # p /\ (parentOf[m] # 0 => ~ Below(p, parentOf[m]))
    BY <1>1, <2>2, BelowUp
  <2>4. Below(p, p)
    BY <1>1, BelowUp
  <2>5. m # k
    BY <2>3, <2>4
  <2>6. parentOf[m] # 0 /\ Below(k, parentOf[m])
    BY <2>2, <2>5, BelowUp
  <2>7. parentOf[m] \in Ids /\ parentOf[m] < m
    BY <2>2, <2>6 DEF TypeOK, Rooted
  <2>8. parentOf[m] \in S
    BY <2>3, <2>6, <2>7
  <2> QED
    BY <2>1, <2>2, <2>7, <2>8, SettingAssumption DEF Ids
<1> QED
  BY <1>2

-----------------------------------------------------------------------------
(* What a step leaves alone *)

\* nothing happened to i that the history did not tell already
SameEvents(i) ==
  /\ DOMAIN history \subseteq DOMAIN history'
  /\ \A n \in DOMAIN history', k \in {"commit", "flush", "lost", "drop"}, t \in Tx :
       Happened(n, k, t, i)' <=> n \in DOMAIN history /\ Happened(n, k, t, i)

SameTasks(i) ==
  \A t \in Tx :
    /\ Names(tasks'[t], i) <=> Names(tasks[t], i)
    /\ \A o \in {"add", "del"} : Has(tasks'[t], o, i) <=> Has(tasks[t], o, i)
    /\ Once(tasks[t], i) => Once(tasks'[t], i)

\* the rows of a transaction that is being aborted do not matter any more
SameRow(i) ==
  /\ root'[i] = root[i] /\ db'[i] = db[i]
  /\ \A t \in Tx : Live(t)' => Live(t) /\ written'[t][i] = written[t][i]

\* An event on other settings says nothing about i
LEMMA OtherEvent ==
  ASSUME HistoryOK, NEW i \in Ids, NEW k, NEW t, NEW ids, Note(k, t, ids), i \notin ids
  PROVE  SameEvents(i)
<1>1. /\ Len(history) \in Nat /\ DOMAIN history = 1 .. Len(history)
      /\ DOMAIN history' = 1 .. Len(history) + 1
      /\ \A n \in DOMAIN history : n \in DOMAIN history' /\ history'[n] = history[n]
      /\ history'[Len(history) + 1] = [kind |-> k, tx |-> t, ids |-> ids]
  BY Noting
<1>2. \A n \in DOMAIN history' :
        \/ n \in DOMAIN history /\ history'[n] = history[n]
        \/ n \notin DOMAIN history /\ history'[n].ids = ids
  BY <1>1
<1> QED
  BY <1>1, <1>2 DEF SameEvents, Happened

LEMMA NoEvent ==
  ASSUME UNCHANGED history, NEW i
  PROVE  SameEvents(i)
BY DEF SameEvents, Happened

LEMMA SameTasksStay ==
  ASSUME UNCHANGED tasks, NEW i
  PROVE  SameTasks(i)
BY DEF SameTasks

\* What is coherent stays so if neither the row, the node, the tasks nor the
\* history of the setting change
LEMMA CoherentStays ==
  ASSUME NEW j \in Ids, Coherent(j), SameEvents(j), SameTasks(j), SameRow(j)
  PROVE  Coherent(j)'
<1>1. \A t \in Tx : /\ Committed(t, j)' <=> Committed(t, j)
                    /\ Flushed(t, j)' <=> Flushed(t, j)
  BY DEF SameEvents, Committed, Flushed
<1>2. ChangesCarried(j)'
  BY <1>1 DEF Coherent, ChangesCarried, SameTasks
<1>3. LastCommit(j)'
  <2>1. db[j] = Original => \A t \in Tx : ~ Committed(t, j)
    BY DEF Coherent, LastCommit
  <2>2. ASSUME NEW u \in Tx, db[j] = u
        PROVE  \E n \in DOMAIN history' :
                 /\ Happened(n, "commit", u, j)'
                 /\ \A m \in DOMAIN history', t \in Tx :
                      m > n => ~ Happened(m, "commit", t, j)'
    <3>1. PICK n \in DOMAIN history :
            /\ Happened(n, "commit", u, j)
            /\ \A m \in DOMAIN history, t \in Tx : m > n => ~ Happened(m, "commit", t, j)
      BY <2>2 DEF Coherent, LastCommit
    <3> QED
      BY <3>1 DEF SameEvents
  <2> QED
    BY <1>1, <2>1, <2>2 DEF LastCommit, SameRow, Happened
<1>4. LastFlush(j)'
  <2>1. root[j] = Original => \A t \in Tx : Flushed(t, j) => Names(tasks[t], j)
    BY DEF Coherent, LastFlush
  <2>2. ASSUME NEW u \in Tx, root[j] = u
        PROVE  \E p \in DOMAIN history' :
                 /\ Happened(p, "flush", u, j)'
                 /\ \A q \in DOMAIN history', t \in Tx :
                      q > p /\ Happened(q, "flush", t, j)' => Names(tasks'[t], j)
    <3>1. PICK p \in DOMAIN history :
            /\ Happened(p, "flush", u, j)
            /\ \A q \in DOMAIN history, t \in Tx :
                 q > p /\ Happened(q, "flush", t, j) => Names(tasks[t], j)
      BY <2>2 DEF Coherent, LastFlush
    <3> QED
      BY <3>1 DEF SameEvents, SameTasks
  <2> QED
    BY <1>1, <2>1, <2>2 DEF LastFlush, SameRow, SameTasks, Happened
<1>5. AddsAlone(j)'
  BY <1>1 DEF Coherent, AddsAlone, SameRow, SameTasks
<1>6. RowAwaitsNode(j)' /\ NodeAwaitsRemoval(j)'
  BY <1>1 DEF Coherent, RowAwaitsNode, NodeAwaitsRemoval, SameRow, SameTasks
<1>7. RemovalsHold(j)'
  BY DEF Coherent, RemovalsHold, SameRow, SameTasks
<1>8. IdleTasks(j)'
  BY <1>1 DEF Coherent, IdleTasks, SameRow, SameTasks
<1> QED
  BY <1>2, <1>3, <1>4, <1>5, <1>6, <1>7, <1>8 DEF Coherent

\* The history only grows, so what it explains stays explained
Grows == \A n \in DOMAIN history : n \in DOMAIN history' /\ history'[n] = history[n]

LEMMA NotedGrows ==
  ASSUME HistoryOK, NEW k \in {"commit", "lost", "flush", "drop"}, NEW t \in Tx,
         NEW ids \in SUBSET Ids, Note(k, t, ids)
  PROVE  HistoryOK' /\ Grows
<1>1. [kind |-> k, tx |-> t, ids |-> ids] \in Event
  BY DEF Event
<1>2. Grows
  BY Noting DEF Grows
<1> QED
  BY <1>1, <1>2 DEF HistoryOK, Note

LEMMA RowsTasksAreIds ==
  ASSUME TypeOK, NEW t \in Tx
  PROVE  Rows(t) \in SUBSET Ids /\ TaskIds(t) \in SUBSET Ids
<1>1. tasks[t] \in Seq(Statement)
  BY DEF TypeOK
<1>2. \A n \in DOMAIN tasks[t] : tasks[t][n] \in Statement
  BY <1>1
<1>3. \A n \in DOMAIN tasks[t] : tasks[t][n].id \in Ids
  BY <1>2 DEF Statement
<1> QED
  BY <1>3 DEF Rows, TaskIds

LEMMA HistoryStep ==
  ASSUME TypeOK, HistoryOK, [HNext]_<<vars, history>>
  PROVE  HistoryOK' /\ Grows
<1>1. ASSUME NEW t \in Tx, Noted(t)
      PROVE  HistoryOK' /\ Grows
  BY <1>1, NotedGrows, RowsTasksAreIds DEF Noted
<1>2. ASSUME UNCHANGED history
      PROVE  HistoryOK' /\ Grows
  BY <1>2 DEF HistoryOK, Grows
<1>3. (\E t \in Tx : Noted(t)) \/ UNCHANGED history
  BY DEF HNext
<1> QED
  BY <1>1, <1>2, <1>3

LEMMA ExplainedStays ==
  ASSUME Grows, NEW i \in Ids, Explained(i)
  PROVE  Explained(i)'
<1>1. \A n \in DOMAIN history : \A k, t :
        Happened(n, k, t, i) => n \in DOMAIN history' /\ Happened(n, k, t, i)'
  BY DEF Grows, Happened
<1>2. Overtaken(i) => Overtaken(i)'
  <2> SUFFICES ASSUME NEW a \in Tx, NEW b \in Tx,
                      NEW m \in DOMAIN history, NEW n \in DOMAIN history,
                      NEW p \in DOMAIN history, NEW q \in DOMAIN history,
                      m < n, Happened(m, "commit", a, i), Happened(n, "commit", b, i),
                      p < q, Happened(p, "flush", b, i), Happened(q, "flush", a, i)
               PROVE  Overtaken(i)'
    BY DEF Overtaken
  <2> QED
    BY <1>1 DEF Overtaken
<1>3. CommitLost(i) => CommitLost(i)'
  BY DEF CommitLost, Grows
<1>4. TasksDropped(i) => TasksDropped(i)'
  BY <1>1 DEF TasksDropped
<1> QED
  BY <1>2, <1>3, <1>4 DEF Explained

\* A setting nobody has touched stays so if the step is about others
LEMMA UntouchedStays ==
  ASSUME NEW i \in Ids, Untouched(i), root'[i] = root[i], db'[i] = db[i],
         \A t \in Tx : written'[t][i] \in {written[t][i], Unset},
         \A t \in Tx : Names(tasks'[t], i) => Names(tasks[t], i),
         \A n \in DOMAIN history' :
           \/ n \in DOMAIN history /\ history'[n].ids = history[n].ids
           \/ i \notin history'[n].ids
  PROVE  Untouched(i)'
BY DEF Untouched

-----------------------------------------------------------------------------
(* The steps that touch no row, no node, no task and no id *)

Quiet ==
  /\ UNCHANGED <<root, tasks, maxSerial, parentOf, db, written, history>>
  /\ \A t \in Tx :
       /\ todo'[t] # {} => todo'[t] = todo[t] /\ status'[t] = "executing"
       /\ status'[t] = "calling" /\ call'[t].op = "add" => call'[t].parent <= maxSerial
       /\ status[t] \in {"flushing", "closed"} => status'[t] \in {"flushing", "closed"}
       /\ Flushing(t)' => Flushing(t)
       /\ Live(t)' => Live(t)

LEMMA CallIsQuiet ==
  ASSUME IInv, KInv, NEW t \in Tx, Call(t), UNCHANGED history
  PROVE  Quiet
<1>1. UNCHANGED <<root, tasks, maxSerial, parentOf, db, written, history, todo>>
  BY DEF Call, memVars, dbVars
<1>2. todo[t] = {}
  BY DEF KInv, Underway, Call, Moves
<1>3. PICK c \in Requests : /\ c.op = "add" => c.parent <= maxSerial
                            /\ call' = [call EXCEPT ![t] = c]
  BY DEF Call
<1> QED
  BY <1>1, <1>2, <1>3
  DEF Quiet, Call, Moves, IInv, TypeOK, Flushing, Live, KInv, Rooted, Underway

LEMMA OtherIsQuiet ==
  ASSUME IInv, KInv, NEW t \in Tx, UNCHANGED history,
         Close(t) \/ NotFound(t) \/ ExecuteFails(t) \/ BeforeClose(t)
           \/ Notify(t) \/ EndFlush(t)
  PROVE  Quiet
<1>1. UNCHANGED <<root, tasks, maxSerial, parentOf, db, written, history>>
  BY DEF Close, NotFound, ExecuteFails, BeforeClose, Notify, EndFlush, memVars, dbVars
<1>2. /\ \A u \in Tx \ {t} : status'[u] = status[u] /\ call'[u] = call[u]
      /\ todo'[t] = todo[t] \/ todo'[t] = {}
      /\ \A u \in Tx \ {t} : todo'[u] = todo[u]
  BY DEF Close, NotFound, ExecuteFails, BeforeClose, Notify, EndFlush, Moves,
         callVars, IInv, TypeOK
<1>3. /\ status'[t] \notin {"calling", "executing"}
      /\ status[t] \in {"flushing", "closed"} => status'[t] \in {"flushing", "closed"}
      /\ Flushing(t)' => Flushing(t)
      /\ Live(t)' => Live(t)
  BY DEF Close, NotFound, ExecuteFails, BeforeClose, Notify, EndFlush, Moves,
         IInv, TypeOK, Flushing, Live
<1>4. todo'[t] = {}
  <2>1. CASE ExecuteFails(t)
    BY <2>1 DEF ExecuteFails, IInv, TypeOK
  <2>2. CASE ~ ExecuteFails(t)
    <3>1. status[t] # "executing"
      BY <2>2 DEF Close, NotFound, BeforeClose, Notify, EndFlush, Moves
    <3>2. todo[t] = {}
      BY <3>1 DEF KInv, Underway
    <3> QED
      BY <1>2, <3>2
  <2> QED
    BY <2>1, <2>2
<1>5. ASSUME NEW u \in Tx \ {t}
      PROVE  /\ todo'[u] # {} => todo'[u] = todo[u] /\ status'[u] = "executing"
             /\ status'[u] = "calling" /\ call'[u].op = "add" => call'[u].parent <= maxSerial
             /\ Flushing(u)' => Flushing(u)
             /\ Live(u)' => Live(u)
  BY <1>2 DEF KInv, Underway, Rooted, Flushing, Live
<1> QED
  BY <1>1, <1>2, <1>3, <1>4, <1>5 DEF Quiet

LEMMA GetIsQuiet ==
  ASSUME IInv, KInv, UNCHANGED history,
         (\E r \in Reader : Get(r)) \/ AllEnded \/ UNCHANGED vars
  PROVE  Quiet
<1>1. UNCHANGED <<root, tasks, maxSerial, parentOf, db, written, history,
                  status, call, todo>>
  BY DEF Get, BeginGet, BuildNode, EndGet, AllEnded, vars, memVars, dbVars, callVars
<1>2. \A t \in Tx : todo[t] # {} => status[t] = "executing"
  BY DEF KInv, Underway
<1> QED
  BY <1>1, <1>2 DEF Quiet, KInv, Rooted, Flushing, Live

LEMMA QuietKeeps ==
  ASSUME KInv, Quiet
  PROVE  KInv'
<1> USE DEF Quiet
<1>1. HistoryOK'
  BY DEF KInv, HistoryOK
<1>2. Rooted'
  BY DEF KInv, Rooted
<1>3. Underway'
  <2> SUFFICES ASSUME NEW t \in Tx, NEW s \in todo'[t]
               PROVE  /\ status'[t] = "executing" /\ s.id <= maxSerial'
                      /\ IF s.op = "add" THEN todo'[t] = {s} ELSE root'[s.id] # Absent
    BY DEF Underway
  <2> QED
    BY DEF KInv, Underway
<1>4. Fresh'
  <2>1. \A i \in Ids : Adding(i)' => Adding(i)
    BY DEF Adding
  <2>2. \A i \in Ids : Untouched(i) => Untouched(i)'
    BY DEF Untouched
  <2> QED
    BY <2>1, <2>2 DEF KInv, Fresh
<1>5. RowLocks'
  BY DEF KInv, RowLocks
<1>6. Flushes'
  <2>1. \A t \in Tx, i \in Ids : Flushed(t, i)' => Flushed(t, i)
    BY DEF Flushed, Happened
  <2>2. \A t \in Tx : FlushNoted(t) => FlushNoted(t)'
    BY DEF FlushNoted, Happened
  <2> QED
    BY <2>1, <2>2 DEF KInv, Flushes
<1>7. ForeignKey'
  BY DEF KInv, ForeignKey, KeyHolds, Seen
<1> QED
  BY <1>1, <1>2, <1>3, <1>4, <1>5, <1>6, <1>7 DEF KInv

LEMMA QuietCoherent ==
  ASSUME Quiet, NEW j \in Ids, Coherent(j)
  PROVE  Coherent(j)'
<1>1. SameEvents(j) /\ SameTasks(j)
  BY NoEvent, SameTasksStay DEF Quiet
<1>2. SameRow(j)
  BY DEF Quiet, SameRow
<1> QED
  BY <1>1, <1>2, CoherentStays

-----------------------------------------------------------------------------
(* Enter: an operation gets the write lock *)

\* a setting that has a node or a row has been given its id
LEMMA KnownIds ==
  ASSUME KInv, NEW i \in Ids, root[i] # Absent \/ db[i] # Absent
  PROVE  i <= maxSerial \/ ~ (i > maxSerial)
BY DEF KInv, Fresh, Untouched

LEMMA EnterFacts ==
  ASSUME IInv, KInv, NEW t \in Tx, Enter(t)
  PROVE  /\ \A u \in Tx : todo[u] = {}
         /\ todo'[t] = Statements(call[t]) /\ \A u \in Tx \ {t} : todo'[u] = {}
         /\ status'[t] = "executing" /\ \A u \in Tx \ {t} : status'[u] = status[u]
         /\ call[t] \in Requests /\ call' = call
         /\ UNCHANGED <<root, tasks, db, written>>
         /\ maxSerial \in Nat /\ maxSerial' \in {maxSerial, maxSerial + 1}
         /\ call[t].op = "add" =>
              /\ maxSerial' = maxSerial + 1 /\ maxSerial' \in Ids
              /\ call[t].parent \in Ids /\ call[t].parent <= maxSerial
              /\ parentOf'[maxSerial'] = call[t].parent
              /\ \A i \in Ids : i # maxSerial' => parentOf'[i] = parentOf[i]
         /\ call[t].op # "add" => UNCHANGED <<maxSerial, parentOf>>
<1>1. writer = NoTx /\ \A u \in Tx : writer # u
  BY SettingAssumption DEF Enter, WriteLockFree
<1>2. \A u \in Tx : todo[u] = {}
  BY <1>1 DEF IInv, WriterOwns, KInv, Underway
<1>3. /\ todo'[t] = Statements(call[t]) /\ \A u \in Tx \ {t} : todo'[u] = {}
      /\ status'[t] = "executing" /\ \A u \in Tx \ {t} : status'[u] = status[u]
  BY <1>2 DEF Enter, Moves, IInv, TypeOK
<1>4. call[t] \in Requests /\ call' = call /\ status[t] = "calling"
  BY DEF Enter, Moves, IInv, InCall
<1>5. UNCHANGED <<root, tasks, db, written>>
  BY DEF Enter, dbVars
<1>6. maxSerial \in Nat /\ maxSerial' \in {maxSerial, maxSerial + 1}
  BY SettingAssumption DEF Enter, IInv, TypeOK
<1>7. ASSUME call[t].op = "add"
      PROVE  /\ maxSerial' = maxSerial + 1 /\ maxSerial' \in Ids
             /\ call[t].parent \in Ids /\ call[t].parent <= maxSerial
             /\ parentOf'[maxSerial'] = call[t].parent
             /\ \A i \in Ids : i # maxSerial' => parentOf'[i] = parentOf[i]
  <2>1. maxSerial < MaxId
    BY <1>7 DEF Enter, Resolves
  <2>2. maxSerial' = maxSerial + 1 /\ maxSerial' \in Ids
    BY <1>6, <1>7, <2>1, SettingAssumption DEF Enter, Ids
  <2>3. call[t].parent \in Ids
    BY <1>4, <1>7 DEF Requests
  <2>4. call[t].parent <= maxSerial
    BY <1>4, <1>7 DEF KInv, Rooted
  <2>5. parentOf' = [parentOf EXCEPT ![maxSerial'] = call[t].parent]
    BY <1>7, <2>2 DEF Enter
  <2> QED
    BY <2>2, <2>3, <2>4, <2>5 DEF IInv, TypeOK
<1>8. call[t].op # "add" => UNCHANGED <<maxSerial, parentOf>>
  BY DEF Enter
<1> QED
  BY <1>2, <1>3, <1>4, <1>5, <1>6, <1>7, <1>8

\* resolve() finds the nodes an operation has statements for
LEMMA StatementsFound ==
  ASSUME TypeOK, NEW c \in Requests, c.op # "add", NEW s \in Statements(c)
  PROVE  s.op # "add" /\ s.id \in Ids /\ root[s.id] # Absent
<1>1. s.op # "add" /\ s.id \in Ids /\ Reachable(s.id)
  <2>1. CASE c.op = "setValues"
    BY <2>1 DEF Statements, Requests
  <2>2. CASE c.op # "setValues"
    BY <2>2 DEF Statements, Requests
  <2> QED
    BY <2>1, <2>2
<1> QED
  BY <1>1, ReachableUp

LEMMA EnterKeeps ==
  ASSUME IInv, KInv, NEW t \in Tx, Enter(t), UNCHANGED history
  PROVE  KInv'
<1>1. /\ \A u \in Tx : todo[u] = {}
      /\ todo'[t] = Statements(call[t]) /\ \A u \in Tx \ {t} : todo'[u] = {}
      /\ status'[t] = "executing" /\ \A u \in Tx \ {t} : status'[u] = status[u]
      /\ call[t] \in Requests /\ call' = call
      /\ UNCHANGED <<root, tasks, db, written>>
      /\ maxSerial \in Nat /\ maxSerial' \in {maxSerial, maxSerial + 1}
  BY EnterFacts
<1>2. call[t].op = "add" =>
        /\ maxSerial' = maxSerial + 1 /\ maxSerial' \in Ids
        /\ call[t].parent \in Ids /\ call[t].parent <= maxSerial
        /\ parentOf'[maxSerial'] = call[t].parent
        /\ \A i \in Ids : i # maxSerial' => parentOf'[i] = parentOf[i]
  BY EnterFacts
<1>3. call[t].op # "add" => UNCHANGED <<maxSerial, parentOf>>
  BY EnterFacts
<1>4. \A i \in Ids : i \in Nat
  BY DEF Ids
<1>5. HistoryOK'
  BY DEF KInv, HistoryOK
<1>6. Rooted'
  <2>1. ASSUME NEW i \in Ids PROVE parentOf'[i] < i
    <3>1. parentOf[i] < i
      BY DEF KInv, Rooted
    <3> QED
      BY <1>1, <1>2, <1>3, <1>4, <3>1
  <2>2. ASSUME NEW u \in Tx, status'[u] = "calling", call'[u].op = "add"
        PROVE  call'[u].parent <= maxSerial'
    <3>1. u # t /\ status[u] = "calling" /\ call[u].op = "add" /\ call'[u] = call[u]
      BY <1>1, <2>2
    <3>2. call[u] \in Requests
      BY <3>1 DEF IInv, InCall
    <3>3. call[u].parent \in Ids
      BY <3>1, <3>2 DEF Requests
    <3>4. call[u].parent <= maxSerial
      BY <3>1 DEF KInv, Rooted
    <3> QED
      BY <1>1, <1>4, <3>1, <3>3, <3>4
  <2> QED
    BY <2>1, <2>2 DEF Rooted
<1>7. Underway'
  <2> SUFFICES ASSUME NEW s \in todo'[t]
               PROVE  /\ s.id <= maxSerial'
                      /\ IF s.op = "add" THEN todo'[t] = {s} ELSE root'[s.id] # Absent
    BY <1>1 DEF Underway
  <2>1. CASE call[t].op = "add"
    <3>1. todo'[t] = {[op |-> "add", id |-> maxSerial']}
      BY <1>1, <1>2, <2>1 DEF Statements
    <3> QED
      BY <1>1, <3>1
  <2>2. CASE call[t].op # "add"
    <3>1. s.op # "add" /\ s.id \in Ids /\ root[s.id] # Absent
      BY <1>1, <2>2, StatementsFound DEF IInv
    <3>2. s.id <= maxSerial
      BY <1>1, <1>4, <3>1, KnownIds
    <3> QED
      BY <1>1, <1>3, <2>2, <3>1, <3>2
  <2> QED
    BY <2>1, <2>2
<1>8. Fresh'
  <2> SUFFICES ASSUME NEW i \in Ids, i > maxSerial' \/ Adding(i)' PROVE Untouched(i)'
    BY DEF Fresh
  <2>1. i > maxSerial
    <3>1. CASE i > maxSerial'
      BY <1>1, <1>4, <3>1
    <3>2. CASE Adding(i)'
      <4>1. [op |-> "add", id |-> i] \in Statements(call[t])
        BY <1>1, <3>2 DEF Adding
      <4>2. call[t].op = "add"
        BY <1>1, <4>1, StatementsFound DEF IInv
      <4>3. i = maxSerial'
        BY <1>2, <4>1, <4>2 DEF Statements
      <4> QED
        BY <1>1, <1>2, <1>4, <4>2, <4>3
    <3> QED
      BY <3>1, <3>2
  <2>2. Untouched(i)
    BY <2>1 DEF KInv, Fresh
  <2> QED
    BY <1>1, <2>2 DEF Untouched
<1>9. RowLocks'
  BY <1>1 DEF KInv, RowLocks
<1>10. Flushes'
  <2>1. \A u \in Tx, i \in Ids : Flushed(u, i)' => Flushed(u, i)
    BY DEF Flushed, Happened
  <2>2. \A u \in Tx : FlushNoted(u) => FlushNoted(u)'
    BY <1>1 DEF FlushNoted, Happened
  <2>3. status[t] = "calling"
    BY DEF Enter, Moves
  <2> QED
    BY <1>1, <2>1, <2>2, <2>3 DEF KInv, Flushes, Flushing
<1>11. ForeignKey'
  <2> SUFFICES ASSUME NEW i \in Ids, parentOf'[i] # 0
               PROVE  KeyHolds(i, parentOf[i])'
    BY DEF ForeignKey
  <2>1. CASE parentOf'[i] = parentOf[i]
    BY <1>1, <2>1 DEF KInv, ForeignKey, KeyHolds, Seen
  <2>2. CASE parentOf'[i] # parentOf[i]
    <3>1. i > maxSerial
      BY <1>1, <1>2, <1>3, <2>2
    <3>2. Untouched(i)
      BY <3>1 DEF KInv, Fresh
    <3> QED
      BY <1>1, <3>2, SettingAssumption DEF Untouched, KeyHolds, Seen
  <2> QED
    BY <2>1, <2>2
<1> QED
  BY <1>5, <1>6, <1>7, <1>8, <1>9, <1>10, <1>11 DEF KInv

LEMMA EnterCoherent ==
  ASSUME NEW t \in Tx, IInv, Enter(t), UNCHANGED history, NEW j \in Ids, Coherent(j)
  PROVE  Coherent(j)'
<1>1. UNCHANGED <<root, tasks, db, written>>
  BY DEF Enter, dbVars
<1>2. SameEvents(j) /\ SameTasks(j)
  BY <1>1, NoEvent, SameTasksStay
<1>3. SameRow(j)
  BY <1>1 DEF SameRow, Live, Enter, Moves, IInv, TypeOK
<1> QED
  BY <1>2, <1>3, CoherentStays

-----------------------------------------------------------------------------
(* Execute: a statement changes a row and leaves a task *)

\* t executes s
Executes(t, s) ==
  /\ s \in todo[t] /\ s \in Statement /\ status[t] = "executing"
  /\ ~ Blocked(t, s) /\ ~ Refused(t, s)
  /\ written'[t][s.id] = RowChange(t, s)
  /\ \A u \in Tx, i \in Ids : u # t \/ i # s.id => written'[u][i] = written[u][i]
  /\ tasks'[t] = Append(tasks[t], s) /\ \A u \in Tx \ {t} : tasks'[u] = tasks[u]
  /\ todo'[t] = todo[t] \ {s} /\ \A u \in Tx \ {t} : todo'[u] = {} /\ todo[u] = {}
  /\ status'[t] \in {"executing", "open"} /\ (todo'[t] # {} => status'[t] = "executing")
  /\ \A u \in Tx \ {t} : status'[u] = status[u] /\ call'[u] = call[u]
  /\ UNCHANGED <<root, db, maxSerial, parentOf, history>>

LEMMA ExecuteFacts ==
  ASSUME IInv, KInv, NEW t \in Tx, Execute(t), UNCHANGED history
  PROVE  \E s \in Statement : Executes(t, s)
<1>1. PICK s \in NextStatements(t) :
        /\ ~ Blocked(t, s) /\ ~ Refused(t, s)
        /\ written' = [written EXCEPT ![t][s.id] = RowChange(t, s)]
        /\ tasks' = [tasks EXCEPT ![t] = Recorded(t, s)]
        /\ todo' = [todo EXCEPT ![t] = @ \ {s}]
        /\ IF todo[t] = {s}
           THEN /\ status' = [status EXCEPT ![t] = "open"]
                /\ call' = [call EXCEPT ![t] = NoCall]
                /\ writer' = NoTx
           ELSE UNCHANGED <<status, call, writer>>
  BY DEF Execute
<1>2. s \in todo[t] /\ s \in Statement /\ status[t] = "executing"
  BY DEF NextStatements, IInv, TypeOK, Execute
<1>3. s.id \in Ids
  BY <1>2 DEF Statement
<1>4. /\ written'[t][s.id] = RowChange(t, s)
      /\ \A u \in Tx, i \in Ids : u # t \/ i # s.id => written'[u][i] = written[u][i]
  BY <1>1, <1>3 DEF IInv, TypeOK
<1>5. tasks'[t] = Append(tasks[t], s) /\ \A u \in Tx \ {t} : tasks'[u] = tasks[u]
  BY <1>1 DEF IInv, TypeOK, Recorded
<1>6. \A u \in Tx \ {t} : todo[u] = {}
  BY <1>2 DEF IInv, WriterOwns, KInv, Underway
<1>7. todo'[t] = todo[t] \ {s} /\ \A u \in Tx \ {t} : todo'[u] = {}
  BY <1>1, <1>6 DEF IInv, TypeOK
<1>8. /\ status'[t] \in {"executing", "open"}
      /\ todo'[t] # {} => status'[t] = "executing"
      /\ \A u \in Tx \ {t} : status'[u] = status[u] /\ call'[u] = call[u]
  <2>1. CASE todo[t] = {s}
    BY <1>1, <1>7, <2>1 DEF IInv, TypeOK
  <2>2. CASE todo[t] # {s}
    BY <1>1, <1>2, <2>2
  <2> QED
    BY <2>1, <2>2
<1>9. UNCHANGED <<root, db, maxSerial, parentOf, history>>
  BY DEF Execute
<1> QED
  BY <1>1, <1>2, <1>4, <1>5, <1>6, <1>7, <1>8, <1>9 DEF Executes

\* What the statement means for the list of tasks of t
LEMMA ExecuteTasks ==
  ASSUME TypeOK, NEW t \in Tx, NEW s \in Statement, Executes(t, s), NEW i \in Ids
  PROVE  /\ Names(tasks'[t], i) <=> Names(tasks[t], i) \/ s.id = i
         /\ \A o : Has(tasks'[t], o, i) <=> Has(tasks[t], o, i) \/ s = [op |-> o, id |-> i]
         /\ Once(tasks[t], i) /\ (s.id = i => ~ Names(tasks[t], i)) => Once(tasks'[t], i)
         /\ \A u \in Tx \ {t} : tasks'[u] = tasks[u]
<1>1. tasks[t] \in Seq(Statement) /\ tasks'[t] = Append(tasks[t], s)
  BY DEF TypeOK, Executes
<1>2. \A u \in Tx \ {t} : tasks'[u] = tasks[u]
  BY DEF Executes
<1>3. /\ Names(Append(tasks[t], s), i) <=> Names(tasks[t], i) \/ s.id = i
      /\ \A o : Has(Append(tasks[t], s), o, i)
                  <=> Has(tasks[t], o, i) \/ s = [op |-> o, id |-> i]
      /\ Once(tasks[t], i) /\ (s.id = i => ~ Names(tasks[t], i))
           => Once(Append(tasks[t], s), i)
  BY <1>1, AppendTask
<1> QED
  BY <1>1, <1>2, <1>3

\* What the statement means for the row: t is its only writer, and has the task
LEMMA ExecuteRow ==
  ASSUME IInv, KInv, NEW t \in Tx, NEW s \in Statement, Executes(t, s)
  PROVE  /\ s.id \in Ids
         /\ s.op = "add" => /\ Untouched(s.id)
                            /\ written'[t][s.id] = t
         /\ s.op # "add" =>
              /\ root[s.id] # Absent
              /\ \A u \in Tx \ {t} : written[u][s.id] = Unset
              /\ \/ Seen(t, s.id) = Absent /\ written'[t][s.id] = written[t][s.id]
                 \/ Seen(t, s.id) # Absent /\ s.op = "set" /\ written'[t][s.id] = t
                 \/ Seen(t, s.id) # Absent /\ s.op = "del" /\ written'[t][s.id] = Absent
<1>1. s.id \in Ids /\ s.op \in {"set", "add", "del"}
  BY DEF Statement
<1>2. ASSUME s.op = "add"
      PROVE  Untouched(s.id) /\ written'[t][s.id] = t
  <2>1. s = [op |-> "add", id |-> s.id]
    BY <1>2 DEF Statement
  <2>2. Adding(s.id)
    BY <2>1 DEF Adding, Executes
  <2> QED
    BY <1>1, <1>2, <2>2 DEF KInv, Fresh, Executes, RowChange
<1>3. ASSUME s.op # "add"
      PROVE  /\ root[s.id] # Absent
             /\ \A u \in Tx \ {t} : written[u][s.id] = Unset
             /\ \/ Seen(t, s.id) = Absent /\ written'[t][s.id] = written[t][s.id]
                \/ Seen(t, s.id) # Absent /\ s.op = "set" /\ written'[t][s.id] = t
                \/ Seen(t, s.id) # Absent /\ s.op = "del" /\ written'[t][s.id] = Absent
  <2>1. root[s.id] # Absent
    BY <1>3 DEF Executes, KInv, Underway
  <2>2. \A u \in Tx \ {t} : written[u][s.id] = Unset
    BY <1>1, <1>3 DEF Executes, Blocked, LockedByOther
  <2>3. written'[t][s.id] = RowChange(t, s)
    BY DEF Executes
  <2> QED
    BY <1>1, <1>3, <2>1, <2>2, <2>3 DEF RowChange
<1> QED
  BY <1>1, <1>2, <1>3

\* The foreign key refuses, or waits for, what would leave a row without parent
LEMMA ExecuteForeignKey ==
  ASSUME IInv, KInv, NEW t \in Tx, NEW s \in Statement, Executes(t, s),
         NEW i \in Ids, parentOf[i] # 0
  PROVE  KeyHolds(i, parentOf[i])'
<1> DEFINE p == parentOf[i]
           k == s.id
<1>1. /\ k \in Ids
      /\ s.op = "add" => Untouched(k) /\ written'[t][k] = t
      /\ s.op # "add" =>
              /\ \A u \in Tx \ {t} : written[u][k] = Unset
              /\ \/ Seen(t, k) = Absent /\ written'[t][k] = written[t][k]
                 \/ Seen(t, k) # Absent /\ s.op = "set" /\ written'[t][k] = t
                 \/ Seen(t, k) # Absent /\ s.op = "del" /\ written'[t][k] = Absent
  BY ExecuteRow
<1>2. p \in Ids /\ p # i /\ i \in Children(p)
  <2>1. p \in Ids
    BY DEF IInv, TypeOK
  <2>2. p < i /\ i \in Nat
    BY DEF KInv, Rooted, Ids
  <2>3. i \in Children(p)
    BY DEF Children
  <2> QED
    BY <2>1, <2>2, <2>3
<1>3. KeyHolds(i, p)
  BY DEF KInv, ForeignKey
<1>4. /\ \A u \in Tx, j \in Ids : u # t \/ j # k => written'[u][j] = written[u][j]
      /\ db' = db /\ parentOf' = parentOf
  BY DEF Executes
<1>5. /\ \A u \in Tx, j \in Ids : written[u][j] \in {u, Absent, Unset}
      /\ \A u \in Tx, j \in Ids : written[u][j] # Unset =>
           \A v \in Tx \ {u} : written[v][j] = Unset
      /\ Unset # Absent /\ \A u \in Tx : u # Absent /\ u # Unset
  BY SettingAssumption DEF KInv, RowLocks
<1> DEFINE Sn(u, j) == IF written'[u][j] # Unset THEN written'[u][j] ELSE db[j]
           Holds == /\ db[i] # Absent => db[p] # Absent
                    /\ \A u \in Tx : written'[u][i] = u =>
                         /\ Sn(u, p) # Absent
                         /\ \A v \in Tx \ {u} : written'[v][p] # Absent
                    /\ \A u \in Tx : written'[u][p] = Absent =>
                         /\ Sn(u, i) = Absent
                         /\ \A v \in Tx \ {u} : written'[v][i] = Unset
<1>6. SUFFICES Holds
  BY <1>4 DEF KeyHolds, Seen
<1> HIDE DEF p, k
<1>7. CASE k # i /\ k # p
  BY <1>2, <1>3, <1>4, <1>7 DEF KeyHolds, Seen
<1>8. CASE written'[t][k] = written[t][k]
  <2>1. \A u \in Tx, j \in Ids : written'[u][j] = written[u][j]
    BY <1>4, <1>8
  <2> QED
    BY <1>2, <1>3, <2>1 DEF KeyHolds, Seen
<1>9. CASE s.op = "add" /\ k = i
  <2>1. /\ \A u \in Tx \ {t} : written[u][p] # Absent
        /\ Seen(t, p) # Absent
    BY <1>9 DEF Executes, Blocked, Refused, p, k
  <2>2. written'[t][i] = t /\ \A u \in Tx \ {t} : written'[u][i] = Unset
    BY <1>1, <1>2, <1>4, <1>9 DEF Untouched
  <2>3. \A u \in Tx : written'[u][p] = written[u][p]
    BY <1>2, <1>4, <1>9
  <2>4. written[t][p] # Absent
    BY <1>5, <2>1 DEF Seen
  <2> QED
    BY <1>3, <1>5, <2>1, <2>2, <2>3, <2>4 DEF KeyHolds, Seen
<1>10. CASE s.op = "add" /\ k = p
  <2>1. db[p] = Absent /\ \A u \in Tx : written[u][p] = Unset
    BY <1>1, <1>10 DEF Untouched
  <2>2. \A u \in Tx : Seen(u, p) = Absent
    BY <2>1 DEF Seen
  <2>3. \A u \in Tx : written[u][i] # u
    BY <1>3, <2>2 DEF KeyHolds
  <2>4. written'[t][p] = t /\ \A u \in Tx \ {t} : written'[u][p] = Unset
    BY <1>1, <1>2, <1>4, <1>10, <2>1
  <2>5. \A u \in Tx : written'[u][i] = written[u][i]
    BY <1>2, <1>4, <1>10
  <2> QED
    BY <1>3, <1>5, <2>3, <2>4, <2>5 DEF KeyHolds
<1>11. CASE s.op = "set" /\ Seen(t, k) # Absent /\ written'[t][k] = t /\ k = i
  <2>1. \A u \in Tx : written'[u][p] = written[u][p]
    BY <1>2, <1>4, <1>11
  <2>2. \A u \in Tx \ {t} : written[u][i] = Unset /\ written'[u][i] = Unset
    BY <1>1, <1>2, <1>4, <1>11
  <2>3. written[t][i] = t \/ (written[t][i] = Unset /\ db[i] # Absent)
    BY <1>2, <1>5, <1>11 DEF Seen
  <2>4. Seen(t, p) # Absent /\ \A u \in Tx \ {t} : written[u][p] # Absent
    BY <1>2, <1>3, <1>5, <2>2, <2>3 DEF KeyHolds, Seen
  <2>5. written[t][p] # Absent
    BY <1>5, <2>4 DEF Seen
  <2> QED
    BY <1>3, <1>5, <1>11, <2>1, <2>2, <2>4, <2>5 DEF KeyHolds, Seen
<1>12. CASE s.op = "set" /\ Seen(t, k) # Absent /\ written'[t][k] = t /\ k = p
  <2>1. \A u \in Tx : written'[u][i] = written[u][i]
    BY <1>2, <1>4, <1>12
  <2>2. \A u \in Tx \ {t} : written'[u][p] = written[u][p]
    BY <1>2, <1>4, <1>12
  <2> QED
    BY <1>3, <1>5, <1>12, <2>1, <2>2 DEF KeyHolds, Seen
<1>13. CASE s.op = "del" /\ Seen(t, k) # Absent /\ written'[t][k] = Absent /\ k = i
  <2>1. \A u \in Tx : written'[u][p] = written[u][p]
    BY <1>2, <1>4, <1>13
  <2>2. \A u \in Tx \ {t} : written[u][i] = Unset /\ written'[u][i] = Unset
    BY <1>1, <1>2, <1>4, <1>13
  <2>3. written[t][i] = t \/ (written[t][i] = Unset /\ db[i] # Absent)
    BY <1>2, <1>5, <1>13 DEF Seen
  <2>4. \A u \in Tx \ {t} : written[u][p] # Absent
    BY <1>2, <1>3, <1>5, <2>2, <2>3 DEF KeyHolds, Seen
  <2> QED
    BY <1>3, <1>5, <1>13, <2>1, <2>2, <2>4 DEF KeyHolds, Seen
<1>14. CASE s.op = "del" /\ Seen(t, k) # Absent /\ written'[t][k] = Absent /\ k = p
  <2>1. \A u \in Tx : written'[u][i] = written[u][i]
    BY <1>2, <1>4, <1>14
  <2>2. \A u \in Tx \ {t} : written'[u][p] = written[u][p] /\ written[u][p] = Unset
    BY <1>1, <1>2, <1>4, <1>14
  <2>3. Seen(t, i) = Absent /\ \A u \in Tx \ {t} : written[u][i] = Unset
    BY <1>2, <1>14 DEF Executes, Blocked, Refused, LockedByOther, k
  <2> QED
    BY <1>3, <1>5, <1>14, <2>1, <2>2, <2>3 DEF KeyHolds, Seen
<1> HIDE DEF Holds
<1> QED
  BY <1>1, <1>7, <1>8, <1>9, <1>10, <1>11, <1>12, <1>13, <1>14

LEMMA ExecuteKeeps ==
  ASSUME IInv, KInv, NEW t \in Tx, NEW s \in Statement, Executes(t, s)
  PROVE  KInv'
<1> DEFINE k == s.id
<1>1. /\ k \in Ids
      /\ s.op = "add" => Untouched(k) /\ written'[t][k] = t
      /\ s.op # "add" =>
              /\ root[k] # Absent
              /\ \A u \in Tx \ {t} : written[u][k] = Unset
              /\ \/ Seen(t, k) = Absent /\ written'[t][k] = written[t][k]
                 \/ Seen(t, k) # Absent /\ s.op = "set" /\ written'[t][k] = t
                 \/ Seen(t, k) # Absent /\ s.op = "del" /\ written'[t][k] = Absent
  BY ExecuteRow
<1>2. /\ \A u \in Tx, i \in Ids : u # t \/ i # k => written'[u][i] = written[u][i]
      /\ todo'[t] = todo[t] \ {s} /\ \A u \in Tx \ {t} : todo'[u] = {} /\ todo[u] = {}
      /\ status'[t] \in {"executing", "open"} /\ (todo'[t] # {} => status'[t] = "executing")
      /\ \A u \in Tx \ {t} : status'[u] = status[u] /\ call'[u] = call[u]
      /\ UNCHANGED <<root, db, maxSerial, parentOf, history>>
      /\ s \in todo[t] /\ status[t] = "executing"
  BY DEF Executes
<1>3. \A i \in Ids :
        /\ Names(tasks'[t], i) <=> Names(tasks[t], i) \/ k = i
        /\ \A o : Has(tasks[t], o, i) => Has(tasks'[t], o, i)
        /\ \A u \in Tx \ {t} : tasks'[u] = tasks[u]
  BY ExecuteTasks DEF IInv
<1>4. Has(tasks'[t], s.op, k)
  <2>1. s = [op |-> s.op, id |-> k]
    BY DEF Statement
  <2> HIDE DEF k
  <2> QED
    BY <1>1, <2>1, ExecuteTasks DEF IInv
<1>5. /\ s.op \in {"set", "add", "del"}
      /\ Unset # Absent /\ \A u \in Tx : u # Absent /\ u # Unset
  BY SettingAssumption DEF Statement
<1> HIDE DEF k
<1>6. HistoryOK'
  BY <1>2 DEF KInv, HistoryOK
<1>7. Rooted'
  BY <1>2 DEF KInv, Rooted
<1>8. Underway'
  BY <1>2 DEF KInv, Underway
<1>9. Fresh'
  <2> SUFFICES ASSUME NEW i \in Ids, i > maxSerial' \/ Adding(i)' PROVE Untouched(i)'
    BY DEF Fresh
  <2>1. ~ Adding(i)'
    BY <1>2 DEF Adding, KInv, Underway
  <2>2. Untouched(i)
    BY <1>2, <2>1 DEF KInv, Fresh
  <2>3. i # k
    <3>1. k <= maxSerial
      BY <1>2 DEF KInv, Underway, k
    <3>2. maxSerial \in Nat /\ k \in Nat
      BY <1>1, SettingAssumption DEF IInv, TypeOK, Ids
    <3> QED
      BY <1>2, <2>1, <3>1, <3>2
  <2>4. \A u \in Tx : Names(tasks'[u], i) => Names(tasks[u], i)
    BY <1>3, <2>3
  <2> QED
    BY <1>2, <2>2, <2>3, <2>4, UntouchedStays
<1>10. RowLocks'
  <2> SUFFICES ASSUME NEW u \in Tx, NEW i \in Ids
               PROVE  /\ written'[u][i] \in {u, Absent, Unset}
                      /\ written'[u][i] # Unset => \A v \in Tx \ {u} : written'[v][i] = Unset
                      /\ written'[u][i] = Absent => Has(tasks'[u], "del", i)
                      /\ written'[u][i] = u /\ db'[i] = Absent => Has(tasks'[u], "add", i)
    BY DEF RowLocks
  <2>1. /\ \A v \in Tx : /\ written[v][i] \in {v, Absent, Unset}
                         /\ written[v][i] # Unset =>
                              \A w \in Tx \ {v} : written[w][i] = Unset
                         /\ written[v][i] = Absent => Has(tasks[v], "del", i)
                         /\ written[v][i] = v /\ db[i] = Absent => Has(tasks[v], "add", i)
    BY DEF KInv, RowLocks
  <2>2. CASE i # k
    BY <1>2, <1>3, <2>1, <2>2
  <2>3. CASE s.op = "add" /\ i = k
    <3>1. \A v \in Tx : written[v][i] = Unset
      BY <1>1, <2>3 DEF Untouched
    <3> QED
      BY <1>1, <1>2, <1>4, <1>5, <2>3, <3>1
  <2>4. CASE s.op # "add" /\ i = k
    <3>1. \A v \in Tx \ {t} : written[v][i] = Unset /\ written'[v][i] = Unset
      BY <1>1, <1>2, <2>4
    <3>2. CASE u # t
      BY <1>5, <3>1, <3>2
    <3>3. CASE u = t
      <4>1. CASE written'[t][k] = written[t][k]
        BY <1>2, <1>3, <2>1, <2>4, <3>1, <3>3, <4>1
      <4>2. CASE Seen(t, k) # Absent /\ s.op = "set" /\ written'[t][k] = t
        <5>1. db[i] = Absent => written[t][i] = t
          BY <2>1, <2>4, <4>2 DEF Seen
        <5> QED
          BY <1>2, <1>3, <1>5, <2>1, <2>4, <3>1, <3>3, <4>2, <5>1
      <4>3. CASE s.op = "del" /\ written'[t][k] = Absent
        BY <1>4, <1>5, <2>4, <3>1, <3>3, <4>3
      <4> QED
        BY <1>1, <2>4, <4>1, <4>2, <4>3
    <3> QED
      BY <3>2, <3>3
  <2> QED
    BY <2>2, <2>3, <2>4
<1>11. Flushes'
  <2>1. \A u \in Tx, i \in Ids : Flushed(u, i)' => Flushed(u, i)
    BY <1>2 DEF Flushed, Happened
  <2>2. ASSUME NEW u \in Tx, Flushing(u)' PROVE FlushNoted(u)'
    <3>1. u # t /\ Flushing(u)
      BY <1>2, <2>2 DEF Flushing
    <3>2. FlushNoted(u)
      BY <3>1 DEF KInv, Flushes
    <3>3. tasks'[u] = tasks[u]
      BY <3>1 DEF Executes
    <3> QED
      BY <1>2, <3>2, <3>3 DEF FlushNoted, Happened
  <2> QED
    BY <1>2, <2>1, <2>2 DEF KInv, Flushes
<1>12. ForeignKey'
  <2>1. \A i \in Ids : parentOf[i] # 0 => KeyHolds(i, parentOf[i])'
    BY ExecuteForeignKey
  <2> QED
    BY <1>2, <2>1 DEF ForeignKey
<1> QED
  BY <1>6, <1>7, <1>8, <1>9, <1>10, <1>11, <1>12 DEF KInv

\* The setting the statement is about
LEMMA ExecuteThere ==
  ASSUME IInv, KInv, NEW t \in Tx, NEW s \in Statement, Executes(t, s),
         NEW j \in Ids, j = s.id, Coherent(j)
  PROVE  Coherent(j)'
<1>1. /\ s.op = "add" => Untouched(j) /\ written'[t][j] = t
      /\ s.op # "add" =>
              /\ root[j] # Absent
              /\ \A u \in Tx \ {t} : written[u][j] = Unset
              /\ \/ Seen(t, j) = Absent /\ written'[t][j] = written[t][j]
                 \/ Seen(t, j) # Absent /\ s.op = "set" /\ written'[t][j] = t
                 \/ Seen(t, j) # Absent /\ s.op = "del" /\ written'[t][j] = Absent
  BY ExecuteRow
<1>2. /\ \A u \in Tx \ {t} : written'[u][j] = written[u][j]
      /\ \A u \in Tx : Live(u)' => Live(u)
      /\ UNCHANGED <<root, db, history>>
  BY DEF Executes, Live
<1>3. /\ \A u \in Tx \ {t} : tasks'[u] = tasks[u]
      /\ Names(tasks'[t], j)
      /\ \A o : Has(tasks'[t], o, j) <=> Has(tasks[t], o, j) \/ s = [op |-> o, id |-> j]
      /\ Once(tasks[t], j) /\ ~ Names(tasks[t], j) => Once(tasks'[t], j)
  BY ExecuteTasks DEF IInv
<1>4. \A u \in Tx : \A o : Has(tasks[u], o, j) => Has(tasks'[u], o, j) /\ Names(tasks[u], j)
  BY <1>3, HasNames
<1>5. \A u \in Tx : Names(tasks[u], j) => Names(tasks'[u], j)
  BY <1>3
<1>6. \A u \in Tx : /\ Committed(u, j)' <=> Committed(u, j)
                    /\ Flushed(u, j)' <=> Flushed(u, j)
  BY <1>2 DEF Committed, Flushed, Happened
<1>7. /\ s.op \in {"set", "add", "del"}
      /\ \A o : s = [op |-> o, id |-> j] => s.op = o
      /\ Unset # Absent /\ \A u \in Tx : u # Absent /\ u # Unset
  BY SettingAssumption DEF Statement
<1>8. s.op = "add" => /\ root[j] = Absent /\ db[j] = Absent
                      /\ \A u \in Tx : /\ written[u][j] = Unset /\ ~ Names(tasks[u], j)
                                       /\ ~ Committed(u, j) /\ ~ Flushed(u, j)
  BY <1>1 DEF Untouched, Committed, Flushed, Happened
<1>9. s.op # "add" => \A u \in Tx : ~ Has(tasks'[u], "add", j)
  BY <1>1, <1>3, <1>7 DEF Coherent, AddsAlone
<1>10. ChangesCarried(j)'
  BY <1>5, <1>6 DEF Coherent, ChangesCarried
<1>11. LastCommit(j)'
  BY <1>2, <1>6 DEF Coherent, LastCommit, Happened
<1>12. LastFlush(j)'
  BY <1>2, <1>5, <1>6 DEF Coherent, LastFlush, Happened
<1>13. AddsAlone(j)'
  <2>1. CASE s.op = "add"
    <3>1. \A u \in Tx \ {t} : ~ Names(tasks'[u], j) /\ ~ Has(tasks'[u], "add", j)
      BY <1>3, <1>4, <1>8, <2>1
    <3>2. Once(tasks'[t], j)
      BY <1>3, <1>8, <2>1 DEF Once, Names
    <3> QED
      BY <1>1, <1>2, <1>6, <1>8, <2>1, <3>1, <3>2 DEF AddsAlone
  <2>2. CASE s.op # "add"
    BY <1>9, <2>2 DEF AddsAlone
  <2> QED
    BY <2>1, <2>2
<1>14. RowAwaitsNode(j)'
  BY <1>2, <1>4, <1>6 DEF Coherent, RowAwaitsNode
<1>15. NodeAwaitsRemoval(j)'
  BY <1>2, <1>4, <1>6 DEF Coherent, NodeAwaitsRemoval
<1>16. RemovalsHold(j)'
  <2>1. CASE s.op = "add"
    BY <1>2, <1>8, <2>1 DEF RemovalsHold
  <2>2. CASE s.op # "add"
    <3>1. ASSUME Has(tasks'[t], "del", j), Live(t)'
          PROVE  written'[t][j] = Absent \/ db[j] = Absent
      <4>1. CASE Seen(t, j) = Absent /\ written'[t][j] = written[t][j]
        BY <4>1 DEF Seen
      <4>2. CASE s.op = "set"
        BY <1>1, <1>2, <1>3, <1>7, <2>2, <3>1, <4>1, <4>2
        DEF Coherent, RemovalsHold, Seen
      <4> QED
        BY <1>1, <2>2, <4>1, <4>2
    <3>2. \A u \in Tx \ {t} : Has(tasks'[u], "del", j) /\ Live(u)' =>
             written'[u][j] = Absent \/ db[j] = Absent
      BY <1>2, <1>3 DEF Coherent, RemovalsHold
    <3> QED
      BY <1>2, <3>1, <3>2 DEF RemovalsHold
  <2> QED
    BY <2>1, <2>2
<1>17. IdleTasks(j)'
  <2>1. CASE s.op = "add"
    BY <1>2, <1>8, <2>1 DEF IdleTasks
  <2>2. CASE s.op # "add"
    <3>1. written'[t][j] = Unset => db[j] = Absent
      BY <1>1, <1>7, <2>2 DEF Seen
    <3> QED
      BY <1>2, <1>3, <1>6, <3>1 DEF Coherent, IdleTasks
  <2> QED
    BY <2>1, <2>2
<1> QED
  BY <1>10, <1>11, <1>12, <1>13, <1>14, <1>15, <1>16, <1>17 DEF Coherent

LEMMA ExecuteCoherent ==
  ASSUME IInv, KInv, NEW t \in Tx, NEW s \in Statement, Executes(t, s),
         NEW j \in Ids, Coherent(j)
  PROVE  Coherent(j)'
<1>1. CASE j = s.id
  BY <1>1, ExecuteThere
<1>2. CASE j # s.id
  <2>1. SameEvents(j)
    BY NoEvent DEF Executes
  <2>2. SameTasks(j)
    <3>1. /\ Names(tasks'[t], j) <=> Names(tasks[t], j) \/ s.id = j
          /\ \A o : Has(tasks'[t], o, j) <=> Has(tasks[t], o, j) \/ s = [op |-> o, id |-> j]
          /\ Once(tasks[t], j) /\ (s.id = j => ~ Names(tasks[t], j)) => Once(tasks'[t], j)
          /\ \A u \in Tx \ {t} : tasks'[u] = tasks[u]
      BY ExecuteTasks DEF IInv
    <3>2. \A o : s # [op |-> o, id |-> j]
      BY <1>2
    <3> QED
      BY <1>2, <3>1, <3>2 DEF SameTasks
  <2>3. SameRow(j)
    BY <1>2 DEF Executes, SameRow, Live
  <2> QED
    BY <2>1, <2>2, <2>3, CoherentStays
<1> QED
  BY <1>1, <1>2

-----------------------------------------------------------------------------
(* Commit, ExplicitCommit, CommitFails, Abort: the end of a row lock *)

\* t commits its rows
Commits(t) ==
  /\ status[t] \in {"open", "committing"} /\ status'[t] \in {"open", "committed"}
  /\ Note("commit", t, Rows(t))
  /\ \A i \in Ids : db'[i] = Seen(t, i) /\ written'[t][i] = Unset
  /\ \A u \in Tx \ {t} : written'[u] = written[u] /\ status'[u] = status[u]
  /\ UNCHANGED <<root, tasks, maxSerial, parentOf, call, todo>>

\* t loses its rows: a commit that failed, or a rollback
Loses(t) ==
  /\ status[t] \in {"committing", "open", "failed"}
  /\ \/ status'[t] = "committed" /\ Note("lost", t, Rows(t))
     \/ status'[t] = "rolledback" /\ UNCHANGED history
  /\ \A i \in Ids : written'[t][i] = Unset
  /\ \A u \in Tx \ {t} : written'[u] = written[u] /\ status'[u] = status[u]
  /\ UNCHANGED <<db, root, tasks, maxSerial, parentOf, call, todo>>

LEMMA CommitFacts ==
  ASSUME IInv, NEW t \in Tx, Commit(t) \/ ExplicitCommit(t), Note("commit", t, Rows(t))
  PROVE  Commits(t)
<1>1. CommitRows(t) /\ UNCHANGED <<root, tasks, maxSerial, parentOf, call, todo>>
  BY DEF Commit, ExplicitCommit, memVars, callVars
<1>2. /\ status[t] \in {"open", "committing"} /\ status'[t] \in {"open", "committed"}
      /\ \A u \in Tx \ {t} : status'[u] = status[u]
  BY DEF Commit, ExplicitCommit, Moves, IInv, TypeOK
<1>3. /\ \A i \in Ids : db'[i] = Seen(t, i) /\ written'[t][i] = Unset
      /\ \A u \in Tx \ {t} : written'[u] = written[u]
  BY <1>1 DEF CommitRows, Nothing, IInv, TypeOK
<1> QED
  BY <1>1, <1>2, <1>3 DEF Commits

LEMMA LoseFacts ==
  ASSUME IInv, NEW t \in Tx,
         \/ CommitFails(t) /\ Note("lost", t, Rows(t))
         \/ Abort(t) /\ UNCHANGED history
  PROVE  Loses(t)
<1>1. /\ UNCHANGED <<db, root, tasks, maxSerial, parentOf, call, todo>>
      /\ written' = [written EXCEPT ![t] = Nothing]
  BY DEF CommitFails, Abort, memVars, callVars
<1>2. /\ \A i \in Ids : written'[t][i] = Unset
      /\ \A u \in Tx \ {t} : written'[u] = written[u]
  BY <1>1 DEF Nothing, IInv, TypeOK
<1>3. /\ status[t] \in {"committing", "open", "failed"}
      /\ \/ status'[t] = "committed" /\ Note("lost", t, Rows(t))
         \/ status'[t] = "rolledback" /\ UNCHANGED history
      /\ \A u \in Tx \ {t} : status'[u] = status[u]
  BY DEF CommitFails, Abort, Moves, IInv, TypeOK
<1> QED
  BY <1>1, <1>2, <1>3 DEF Loses

\* An event that is no flush leaves what was flushed, and by whom
LEMMA NoFlushEvent ==
  ASSUME HistoryOK, UNCHANGED tasks,
         \/ UNCHANGED history
         \/ \E k \in {"commit", "lost", "drop"}, t \in Tx : \E ids \in SUBSET Ids : Note(k, t, ids)
  PROVE  \A u \in Tx : /\ \A i \in Ids : Flushed(u, i)' <=> Flushed(u, i)
                       /\ FlushNoted(u) => FlushNoted(u)'
<1>1. CASE UNCHANGED history
  BY <1>1 DEF Flushed, FlushNoted, Happened
<1>2. CASE \E k \in {"commit", "lost", "drop"}, t \in Tx : \E ids \in SUBSET Ids : Note(k, t, ids)
  <2>1. PICK k \in {"commit", "lost", "drop"}, t \in Tx : \E ids \in SUBSET Ids : Note(k, t, ids)
    BY <1>2
  <2>2. PICK ids \in SUBSET Ids : Note(k, t, ids)
    BY <2>1
  <2>3. /\ Len(history) \in Nat /\ DOMAIN history = 1 .. Len(history)
        /\ DOMAIN history' = 1 .. Len(history) + 1
        /\ \A n \in DOMAIN history : n \in DOMAIN history' /\ history'[n] = history[n]
        /\ history'[Len(history) + 1] = [kind |-> k, tx |-> t, ids |-> ids]
    BY <2>2, Noting
  <2>4. \A n \in DOMAIN history' :
          \/ n \in DOMAIN history /\ history'[n] = history[n]
          \/ history'[n].kind # "flush"
    BY <2>3
  <2>5. \A u \in Tx, i \in Ids : Flushed(u, i)' <=> Flushed(u, i)
    BY <2>3, <2>4 DEF Flushed, Happened
  <2>6. ASSUME NEW u \in Tx, FlushNoted(u) PROVE FlushNoted(u)'
    <3>1. PICK p \in DOMAIN history :
            /\ \A i \in Ids : Names(tasks[u], i) => Happened(p, "flush", u, i)
            /\ \A q \in DOMAIN history : q > p => history[q].kind # "flush"
      BY <2>6 DEF FlushNoted
    <3>2. p \in DOMAIN history' /\ history'[p] = history[p]
      BY <2>3
    <3>3. \A i \in Ids : Names(tasks'[u], i) => Happened(p, "flush", u, i)'
      BY <3>1, <3>2 DEF Happened
    <3>4. \A q \in DOMAIN history' : q > p => history'[q].kind # "flush"
      BY <2>4, <3>1
    <3> QED
      BY <3>2, <3>3, <3>4 DEF FlushNoted
  <2> QED
    BY <2>5, <2>6
<1> QED
  BY <1>1, <1>2

LEMMA UntouchedByNote ==
  ASSUME HistoryOK, NEW i \in Ids, NEW k, NEW t, NEW ids, Note(k, t, ids), i \notin ids
  PROVE  \A n \in DOMAIN history' :
           \/ n \in DOMAIN history /\ history'[n].ids = history[n].ids
           \/ i \notin history'[n].ids
<1>1. /\ Len(history) \in Nat /\ DOMAIN history = 1 .. Len(history)
      /\ DOMAIN history' = 1 .. Len(history) + 1
      /\ \A n \in DOMAIN history : n \in DOMAIN history' /\ history'[n] = history[n]
      /\ history'[Len(history) + 1] = [kind |-> k, tx |-> t, ids |-> ids]
  BY Noting
<1> QED
  BY <1>1

\* A transaction whose operation is over has no statement left
LEMMA EndKeeps ==
  ASSUME IInv, KInv, NEW t \in Tx, status[t] # "executing",
         \A u \in Tx \ {t} : status'[u] = status[u],
         status'[t] # "calling", UNCHANGED <<root, maxSerial, parentOf, call, todo>>
  PROVE  Rooted' /\ Underway' /\ \A i \in Ids : Adding(i)' <=> Adding(i)
<1>1. todo[t] = {}
  BY DEF KInv, Underway
<1>2. Rooted'
  BY DEF KInv, Rooted
<1>3. Underway'
  <2> SUFFICES ASSUME NEW u \in Tx, NEW s \in todo[u]
               PROVE  /\ status'[u] = "executing" /\ s.id <= maxSerial
                      /\ IF s.op = "add" THEN todo[u] = {s} ELSE root[s.id] # Absent
    BY DEF Underway
  <2> QED
    BY <1>1 DEF KInv, Underway
<1> QED
  BY <1>2, <1>3 DEF Adding

LEMMA CommitForeignKey ==
  ASSUME IInv, KInv, NEW t \in Tx, Commits(t), NEW i \in Ids, NEW p \in Ids, KeyHolds(i, p)
  PROVE  KeyHolds(i, p)'
<1>1. /\ \A j \in Ids : db'[j] = Seen(t, j) /\ written'[t][j] = Unset
      /\ \A u \in Tx \ {t} : written'[u] = written[u]
  BY DEF Commits
<1>2. /\ \A u \in Tx, j \in Ids : written[u][j] \in {u, Absent, Unset}
      /\ Unset # Absent /\ \A u \in Tx : u # Absent /\ u # Unset
  BY SettingAssumption DEF KInv, RowLocks
<1>3. /\ db[i] # Absent => db[p] # Absent
      /\ \A u \in Tx : written[u][i] = u =>
           /\ Seen(u, p) # Absent
           /\ \A v \in Tx \ {u} : written[v][p] # Absent
      /\ \A u \in Tx : written[u][p] = Absent =>
           /\ Seen(u, i) = Absent
           /\ \A v \in Tx \ {u} : written[v][i] = Unset
  BY DEF KeyHolds
<1>4. db'[i] # Absent => db'[p] # Absent
  BY <1>1, <1>2, <1>3 DEF Seen
<1>5. ASSUME NEW u \in Tx, written'[u][i] = u
      PROVE  /\ Seen(u, p)' # Absent
             /\ \A v \in Tx \ {u} : written'[v][p] # Absent
  <2>1. u # t /\ written[u][i] = u
    BY <1>1, <1>2, <1>5
  <2>2. Seen(u, p) # Absent /\ \A v \in Tx \ {u} : written[v][p] # Absent
    BY <1>3, <2>1
  <2>3. \A v \in Tx \ {u} : written'[v][p] # Absent
    BY <1>1, <1>2, <2>2
  <2>4. Seen(u, p)' # Absent
    BY <1>1, <1>2, <2>1, <2>2 DEF Seen
  <2> QED
    BY <2>3, <2>4
<1>6. ASSUME NEW u \in Tx, written'[u][p] = Absent
      PROVE  /\ Seen(u, i)' = Absent
             /\ \A v \in Tx \ {u} : written'[v][i] = Unset
  <2>1. u # t /\ written[u][p] = Absent
    BY <1>1, <1>2, <1>6
  <2>2. Seen(u, i) = Absent /\ \A v \in Tx \ {u} : written[v][i] = Unset
    BY <1>3, <2>1
  <2>3. Seen(u, i)' = Absent
    BY <1>1, <1>2, <2>1, <2>2 DEF Seen
  <2> QED
    BY <1>1, <2>2, <2>3
<1> QED
  BY <1>4, <1>5, <1>6 DEF KeyHolds

LEMMA CommitKeeps ==
  ASSUME IInv, KInv, NEW t \in Tx, Commits(t)
  PROVE  KInv'
<1>1. /\ status[t] \in {"open", "committing"} /\ status'[t] \in {"open", "committed"}
      /\ Note("commit", t, Rows(t))
      /\ \A i \in Ids : db'[i] = Seen(t, i) /\ written'[t][i] = Unset
      /\ \A u \in Tx \ {t} : written'[u] = written[u] /\ status'[u] = status[u]
      /\ UNCHANGED <<root, tasks, maxSerial, parentOf, call, todo>>
  BY DEF Commits
<1>2. HistoryOK /\ Rows(t) \in SUBSET Ids
  BY RowsTasksAreIds DEF IInv, KInv
<1>3. HistoryOK'
  BY <1>1, <1>2, NotedGrows
<1>4. Rooted' /\ Underway' /\ \A i \in Ids : Adding(i)' <=> Adding(i)
  BY <1>1, EndKeeps
<1>5. Fresh'
  <2> SUFFICES ASSUME NEW i \in Ids, i > maxSerial' \/ Adding(i)' PROVE Untouched(i)'
    BY DEF Fresh
  <2>1. Untouched(i)
    BY <1>1, <1>4 DEF KInv, Fresh
  <2>2. written[t][i] = Unset /\ i \notin Rows(t)
    BY <2>1 DEF Untouched, Rows
  <2>3. db'[i] = db[i]
    BY <1>1, <2>2 DEF Seen
  <2>4. \A n \in DOMAIN history' :
          \/ n \in DOMAIN history /\ history'[n].ids = history[n].ids
          \/ i \notin history'[n].ids
    BY <1>1, <1>2, <2>2, UntouchedByNote
  <2>5. \A u \in Tx : written'[u][i] \in {written[u][i], Unset}
    BY <1>1
  <2> QED
    BY <1>1, <2>1, <2>3, <2>4, <2>5, UntouchedStays
<1>6. RowLocks'
  <2> SUFFICES ASSUME NEW u \in Tx, NEW i \in Ids
               PROVE  /\ written'[u][i] \in {u, Absent, Unset}
                      /\ written'[u][i] # Unset => \A v \in Tx \ {u} : written'[v][i] = Unset
                      /\ written'[u][i] = Absent => Has(tasks'[u], "del", i)
                      /\ written'[u][i] = u /\ db'[i] = Absent => Has(tasks'[u], "add", i)
    BY DEF RowLocks
  <2>1. CASE u = t
    BY <1>1, <2>1, SettingAssumption
  <2>2. CASE u # t
    <3>1. written[u][i] # Unset => db'[i] = db[i]
      BY <1>1, <2>2 DEF KInv, RowLocks, Seen
    <3> QED
      BY <1>1, <2>2, <3>1, SettingAssumption DEF KInv, RowLocks
  <2> QED
    BY <2>1, <2>2
<1>7. Flushes'
  <2>1. \A u \in Tx : /\ \A i \in Ids : Flushed(u, i)' <=> Flushed(u, i)
                      /\ FlushNoted(u) => FlushNoted(u)'
    BY <1>1, <1>2, NoFlushEvent
  <2>2. \A i \in Ids : ~ Flushed(t, i)
    BY <1>1 DEF KInv, Flushes
  <2>3. \A u \in Tx : Flushing(u)' => Flushing(u)
    BY <1>1 DEF Flushing
  <2> QED
    BY <1>1, <2>1, <2>2, <2>3 DEF KInv, Flushes
<1>8. ForeignKey'
  <2>1. ASSUME NEW i \in Ids, parentOf[i] # 0
        PROVE  KeyHolds(i, parentOf[i])'
    <3>1. parentOf[i] \in Ids /\ KeyHolds(i, parentOf[i])
      BY <2>1 DEF IInv, TypeOK, KInv, ForeignKey
    <3>2. \A p \in Ids : KeyHolds(i, p) => KeyHolds(i, p)'
      BY CommitForeignKey
    <3>3. parentOf' = parentOf
      BY <1>1
    <3> QED
      BY <3>1, <3>2, <3>3 DEF KeyHolds, Seen
  <2> QED
    BY <1>1, <2>1 DEF ForeignKey
<1> QED
  BY <1>3, <1>4, <1>5, <1>6, <1>7, <1>8 DEF KInv

LEMMA LoseKeeps ==
  ASSUME IInv, KInv, NEW t \in Tx, Loses(t)
  PROVE  KInv'
<1>1. /\ status[t] \in {"committing", "open", "failed"}
      /\ \/ status'[t] = "committed" /\ Note("lost", t, Rows(t))
         \/ status'[t] = "rolledback" /\ UNCHANGED history
      /\ \A i \in Ids : written'[t][i] = Unset
      /\ \A u \in Tx \ {t} : written'[u] = written[u] /\ status'[u] = status[u]
      /\ UNCHANGED <<db, root, tasks, maxSerial, parentOf, call, todo>>
  BY DEF Loses
<1>2. HistoryOK /\ Rows(t) \in SUBSET Ids
  BY RowsTasksAreIds DEF IInv, KInv
<1>3. HistoryOK'
  <2>1. CASE Note("lost", t, Rows(t))
    BY <1>2, <2>1, NotedGrows
  <2>2. CASE UNCHANGED history
    BY <1>2, <2>2 DEF HistoryOK
  <2> QED
    BY <1>1, <2>1, <2>2
<1>4. Rooted' /\ Underway' /\ \A i \in Ids : Adding(i)' <=> Adding(i)
  BY <1>1, EndKeeps
<1>5. Fresh'
  <2> SUFFICES ASSUME NEW i \in Ids, i > maxSerial' \/ Adding(i)' PROVE Untouched(i)'
    BY DEF Fresh
  <2>1. Untouched(i)
    BY <1>1, <1>4 DEF KInv, Fresh
  <2>2. written[t][i] = Unset /\ i \notin Rows(t)
    BY <2>1 DEF Untouched, Rows
  <2>3. \A n \in DOMAIN history' :
          \/ n \in DOMAIN history /\ history'[n].ids = history[n].ids
          \/ i \notin history'[n].ids
    <3>1. CASE Note("lost", t, Rows(t))
      BY <1>2, <2>2, <3>1, UntouchedByNote
    <3>2. CASE UNCHANGED history
      BY <3>2
    <3> QED
      BY <1>1, <3>1, <3>2
  <2>4. \A u \in Tx : written'[u][i] \in {written[u][i], Unset}
    BY <1>1
  <2> QED
    BY <1>1, <2>1, <2>3, <2>4, UntouchedStays
<1>6. RowLocks'
  BY <1>1, SettingAssumption DEF KInv, RowLocks
<1>7. Flushes'
  <2>1. \A u \in Tx : /\ \A i \in Ids : Flushed(u, i)' <=> Flushed(u, i)
                      /\ FlushNoted(u) => FlushNoted(u)'
    BY <1>1, <1>2, NoFlushEvent
  <2>2. \A i \in Ids : ~ Flushed(t, i)
    BY <1>1 DEF KInv, Flushes
  <2>3. \A u \in Tx : Flushing(u)' => Flushing(u)
    BY <1>1 DEF Flushing
  <2> QED
    BY <1>1, <2>1, <2>2, <2>3 DEF KInv, Flushes
<1>8. ForeignKey'
  <2> SUFFICES ASSUME NEW i \in Ids, parentOf[i] # 0
               PROVE  KeyHolds(i, parentOf[i])'
    BY <1>1 DEF ForeignKey
  <2>1. parentOf[i] \in Ids /\ KeyHolds(i, parentOf[i])
    BY DEF IInv, TypeOK, KInv, ForeignKey
  <2>2. Unset # Absent /\ \A u \in Tx : u # Unset
    BY SettingAssumption
  <2> QED
    BY <1>1, <2>1, <2>2 DEF KeyHolds, Seen
<1> QED
  BY <1>3, <1>4, <1>5, <1>6, <1>7, <1>8 DEF KInv

\* A setting whose row is committed
LEMMA CommitThere ==
  ASSUME IInv, KInv, NEW t \in Tx, Commits(t),
         NEW j \in Ids, j \in Rows(t), Coherent(j)
  PROVE  Coherent(j)'
<1> DEFINE w == written[t][j]
<1>1. /\ status[t] \in {"open", "committing"} /\ status'[t] \in {"open", "committed"}
      /\ Note("commit", t, Rows(t))
      /\ db'[j] = Seen(t, j) /\ written'[t][j] = Unset
      /\ \A u \in Tx \ {t} : written'[u] = written[u] /\ status'[u] = status[u]
      /\ UNCHANGED <<root, tasks>>
  BY DEF Commits
<1>2. /\ Unset # Absent /\ Original # Absent
      /\ \A u \in Tx : u # Absent /\ u # Unset /\ u # Original
  BY SettingAssumption
<1>3. /\ w # Unset /\ w \in {t, Absent} /\ db'[j] = w
      /\ \A u \in Tx \ {t} : written[u][j] = Unset
      /\ w = Absent => Has(tasks[t], "del", j)
      /\ w = t /\ db[j] = Absent => Has(tasks[t], "add", j)
  BY <1>1 DEF KInv, RowLocks, Rows, Seen
<1>4. Names(tasks[t], j)
  BY <1>3 DEF IInv, RowChangeHasTask, Names
<1>5. /\ Live(t) /\ \A u \in Tx : Live(u)' => Live(u)
  BY <1>1 DEF Live
<1>6. PICK e \in Nat :
        /\ DOMAIN history = 1 .. e - 1 /\ DOMAIN history' = 1 .. e
        /\ \A n \in DOMAIN history : n \in DOMAIN history' /\ history'[n] = history[n]
        /\ history'[e] = [kind |-> "commit", tx |-> t, ids |-> Rows(t)] /\ e > 0
  <2>1. /\ Len(history) \in Nat /\ DOMAIN history = 1 .. Len(history)
        /\ DOMAIN history' = 1 .. Len(history) + 1
        /\ \A n \in DOMAIN history : n \in DOMAIN history' /\ history'[n] = history[n]
        /\ history'[Len(history) + 1] = [kind |-> "commit", tx |-> t, ids |-> Rows(t)]
    BY <1>1, Noting DEF KInv
  <2> QED
    BY <2>1
<1>7. /\ e \in DOMAIN history' /\ \A n \in DOMAIN history' : ~ (n > e)
      /\ \A n \in DOMAIN history' : n = e \/ (n \in DOMAIN history /\ history'[n] = history[n])
  BY <1>6
<1> HIDE DEF w
<1>8. /\ Committed(t, j)'
      /\ \A u \in Tx : Committed(u, j) => Committed(u, j)'
      /\ \A u \in Tx : Flushed(u, j)' <=> Flushed(u, j)
  BY <1>6, <1>7 DEF Committed, Flushed, Happened
<1>9. \A u \in Tx \ {t} : Committed(u, j)' => Committed(u, j)
  BY <1>6, <1>7 DEF Committed, Happened
<1>10. \A u \in Tx : Has(tasks[u], "add", j) =>
         /\ root[j] = Absent /\ Once(tasks[u], j) /\ u = t
         /\ \A v \in Tx : Names(tasks[v], j) \/ Flushed(v, j) => v = u
         /\ ~ Has(tasks[u], "del", j)
  BY <1>4, OnceHas DEF Coherent, AddsAlone
<1>11. ChangesCarried(j)'
  BY <1>1, <1>4, <1>8, <1>9 DEF Coherent, ChangesCarried
<1>12. LastCommit(j)'
  <2>1. Happened(e, "commit", t, j)'
    BY <1>6 DEF Happened
  <2> QED
    BY <1>2, <1>3, <1>7, <2>1 DEF LastCommit, Happened
<1>13. LastFlush(j)'
  BY <1>1, <1>6, <1>7, <1>8 DEF Coherent, LastFlush, Happened
<1>14. AddsAlone(j)'
  <2>1. ASSUME NEW u \in Tx, Has(tasks[u], "add", j)
        PROVE  db'[j] = u
    BY <1>3, <1>10, <2>1
  <2> QED
    BY <1>1, <1>8, <1>10, <2>1 DEF AddsAlone
<1>15. RowAwaitsNode(j)'
  BY <1>1, <1>2, <1>3, <1>8 DEF Coherent, RowAwaitsNode
<1>16. NodeAwaitsRemoval(j)'
  BY <1>1, <1>2, <1>3, <1>8 DEF Coherent, NodeAwaitsRemoval
<1>17. RemovalsHold(j)'
  <2> SUFFICES ASSUME NEW u \in Tx, Has(tasks[u], "del", j), Live(u)
               PROVE  db'[j] = Absent
    BY <1>1, <1>5 DEF RemovalsHold
  <2>1. written[u][j] = Absent \/ db[j] = Absent
    BY DEF Coherent, RemovalsHold
  <2>2. Names(tasks[u], j)
    BY HasNames
  <2> QED
    BY <1>2, <1>3, <1>10, <2>1, <2>2 DEF w
<1>18. IdleTasks(j)'
  <2>1. ASSUME NEW u \in Tx, ~ Committed(u, j)', Flushed(u, j) \/ Names(tasks[u], j),
               db[j] = Absent
        PROVE  db'[j] = Absent
    <3>1. u # t
      BY <1>8, <2>1
    <3>2. ~ Has(tasks[t], "add", j)
      BY <1>10, <2>1, <3>1
    <3> QED
      BY <1>3, <2>1, <3>2
  <2>2. ASSUME NEW u \in Tx, ~ Committed(u, j)'
        PROVE  /\ u # t /\ ~ Committed(u, j) /\ written'[u][j] = written[u][j]
    BY <1>1, <1>8, <2>2
  <2> QED
    BY <1>1, <1>5, <1>8, <2>1, <2>2 DEF Coherent, IdleTasks
<1> QED
  BY <1>11, <1>12, <1>13, <1>14, <1>15, <1>16, <1>17, <1>18 DEF Coherent

LEMMA CommitCoherent ==
  ASSUME IInv, KInv, NEW t \in Tx, Commits(t), NEW j \in Ids, Coherent(j)
  PROVE  Coherent(j)'
<1>1. CASE j \in Rows(t)
  BY <1>1, CommitThere
<1>2. CASE j \notin Rows(t)
  <2>1. SameEvents(j)
    BY <1>2, OtherEvent DEF Commits, KInv
  <2>2. SameTasks(j)
    BY SameTasksStay DEF Commits
  <2>3. written[t][j] = Unset
    BY <1>2 DEF Rows
  <2>4. SameRow(j)
    BY <2>3 DEF SameRow, Commits, Seen, Live
  <2> QED
    BY <2>1, <2>2, <2>4, CoherentStays
<1> QED
  BY <1>1, <1>2

\* Rows lost by a failed commit are explained; those of an abort do not matter
LEMMA LoseCoherent ==
  ASSUME IInv, KInv, NEW t \in Tx, Loses(t), NEW j \in Ids, Coherent(j)
  PROVE  Coherent(j)' \/ Explained(j)'
<1>1. SameTasks(j)
  BY SameTasksStay DEF Loses
<1>2. CASE j \in Rows(t) /\ Note("lost", t, Rows(t))
  <2>1. /\ Len(history) + 1 \in DOMAIN history'
        /\ history'[Len(history) + 1] = [kind |-> "lost", tx |-> t, ids |-> Rows(t)]
    BY <1>2, Noting DEF KInv
  <2>2. CommitLost(j)'
    BY <1>2, <2>1 DEF CommitLost
  <2> QED
    BY <2>2 DEF Explained
<1>3. CASE j \notin Rows(t) /\ Note("lost", t, Rows(t))
  <2>1. SameEvents(j)
    BY <1>3, OtherEvent DEF KInv
  <2>2. written[t][j] = Unset
    BY <1>3 DEF Rows
  <2>3. SameRow(j)
    BY <1>3, <2>2 DEF SameRow, Loses, Live
  <2> QED
    BY <1>1, <2>1, <2>3, CoherentStays
<1>4. CASE status'[t] = "rolledback" /\ UNCHANGED history
  <2>1. SameEvents(j)
    BY <1>4, NoEvent
  <2>2. SameRow(j)
    BY <1>4 DEF SameRow, Loses, Live
  <2> QED
    BY <1>1, <2>1, <2>2, CoherentStays
<1> QED
  BY <1>2, <1>3, <1>4 DEF Loses

-----------------------------------------------------------------------------
(* BeginFlush: the write lock for a flush *)

LEMMA TaskIdsNamed ==
  ASSUME NEW t \in Tx, NEW i
  PROVE  i \in TaskIds(t) <=> Names(tasks[t], i)
BY DEF TaskIds, Names

BeginsFlush(t) ==
  /\ status[t] = "notifyClose" /\ status'[t] = "flushing"
  /\ Note("flush", t, TaskIds(t))
  /\ \A i \in Ids : written[t][i] = Unset
  /\ \A u \in Tx : ~ Flushing(u)
  /\ \A u \in Tx \ {t} : status'[u] = status[u]
  /\ UNCHANGED <<root, tasks, maxSerial, parentOf, db, written, call, todo>>

LEMMA BeginFacts ==
  ASSUME IInv, NEW t \in Tx, BeginFlush(t), Note("flush", t, TaskIds(t))
  PROVE  BeginsFlush(t)
<1>1. /\ status[t] = "notifyClose" /\ status'[t] = "flushing"
      /\ \A u \in Tx \ {t} : status'[u] = status[u]
      /\ UNCHANGED <<root, tasks, maxSerial, parentOf, db, written, call, todo>>
  BY DEF BeginFlush, Moves, memVars, dbVars, callVars, IInv, TypeOK
<1>2. \A i \in Ids : written[t][i] = Unset
  BY <1>1 DEF IInv, RowsSettled, Nothing
<1>3. writer = NoTx
  BY DEF BeginFlush, WriteLockFree
<1>4. \A u \in Tx : ~ Flushing(u)
  BY <1>3, SettingAssumption DEF IInv, WriterOwns, Flushing
<1> QED
  BY <1>1, <1>2, <1>4 DEF BeginsFlush

LEMMA BeginKeeps ==
  ASSUME IInv, KInv, NEW t \in Tx, BeginsFlush(t)
  PROVE  KInv'
<1>1. /\ status[t] = "notifyClose" /\ status'[t] = "flushing"
      /\ Note("flush", t, TaskIds(t))
      /\ \A u \in Tx : ~ Flushing(u)
      /\ \A u \in Tx \ {t} : status'[u] = status[u]
      /\ UNCHANGED <<root, tasks, maxSerial, parentOf, db, written, call, todo>>
  BY DEF BeginsFlush
<1>2. HistoryOK /\ TaskIds(t) \in SUBSET Ids
  BY RowsTasksAreIds DEF IInv, KInv
<1>3. HistoryOK'
  BY <1>1, <1>2, NotedGrows
<1>4. Rooted' /\ Underway' /\ \A i \in Ids : Adding(i)' <=> Adding(i)
  BY <1>1, EndKeeps
<1>5. Fresh'
  <2> SUFFICES ASSUME NEW i \in Ids, i > maxSerial' \/ Adding(i)' PROVE Untouched(i)'
    BY DEF Fresh
  <2>1. Untouched(i)
    BY <1>1, <1>4 DEF KInv, Fresh
  <2>2. i \notin TaskIds(t)
    BY <2>1, TaskIdsNamed DEF Untouched
  <2>3. \A n \in DOMAIN history' :
          \/ n \in DOMAIN history /\ history'[n].ids = history[n].ids
          \/ i \notin history'[n].ids
    BY <1>1, <1>2, <2>2, UntouchedByNote
  <2> QED
    BY <1>1, <2>1, <2>3, UntouchedStays
<1>6. RowLocks' /\ ForeignKey'
  BY <1>1 DEF KInv, RowLocks, ForeignKey, KeyHolds, Seen
<1>7. Flushes'
  <2>1. PICK e \in Nat :
          /\ DOMAIN history = 1 .. e - 1 /\ DOMAIN history' = 1 .. e /\ e > 0
          /\ \A n \in DOMAIN history : n \in DOMAIN history' /\ history'[n] = history[n]
          /\ history'[e] = [kind |-> "flush", tx |-> t, ids |-> TaskIds(t)]
    <3>1. /\ Len(history) \in Nat /\ DOMAIN history = 1 .. Len(history)
          /\ DOMAIN history' = 1 .. Len(history) + 1
          /\ \A n \in DOMAIN history : n \in DOMAIN history' /\ history'[n] = history[n]
          /\ history'[Len(history) + 1] = [kind |-> "flush", tx |-> t, ids |-> TaskIds(t)]
      BY <1>1, <1>2, Noting
    <3> QED
      BY <3>1
  <2>2. /\ e \in DOMAIN history' /\ \A n \in DOMAIN history' : ~ (n > e)
        /\ \A n \in DOMAIN history' : n = e \/ (n \in DOMAIN history /\ history'[n] = history[n])
    BY <2>1
  <2>3. \A u \in Tx, i \in Ids : Flushed(u, i)' => Flushed(u, i) \/ u = t
    BY <2>1, <2>2 DEF Flushed, Happened
  <2>4. \A i \in Ids : Names(tasks'[t], i) => i \in TaskIds(t)
    BY <1>1, TaskIdsNamed
  <2>5. FlushNoted(t)'
    BY <2>1, <2>2, <2>4 DEF FlushNoted, Happened
  <2>6. \A u \in Tx : Flushing(u)' => u = t
    BY <1>1 DEF Flushing
  <2> QED
    BY <1>1, <2>3, <2>5, <2>6 DEF KInv, Flushes
<1> QED
  BY <1>3, <1>4, <1>5, <1>6, <1>7 DEF KInv

\* A setting the flush is about to apply a task on
LEMMA BeginThere ==
  ASSUME IInv, KInv, NEW t \in Tx, BeginsFlush(t),
         NEW j \in Ids, j \in TaskIds(t), Coherent(j)
  PROVE  Coherent(j)'
<1>1. /\ status[t] = "notifyClose" /\ status'[t] = "flushing"
      /\ written[t][j] = Unset
      /\ Note("flush", t, TaskIds(t))
      /\ \A u \in Tx \ {t} : status'[u] = status[u]
      /\ UNCHANGED <<root, tasks, db, written>>
  BY DEF BeginsFlush
<1>2. Names(tasks[t], j)
  BY TaskIdsNamed
<1>3. Live(t) /\ \A u \in Tx : Live(u)' => Live(u)
  BY <1>1 DEF Live
<1>4. /\ Len(history) \in Nat /\ DOMAIN history = 1 .. Len(history)
      /\ DOMAIN history' = 1 .. Len(history) + 1
      /\ \A n \in DOMAIN history : n \in DOMAIN history' /\ history'[n] = history[n]
      /\ history'[Len(history) + 1] = [kind |-> "flush", tx |-> t, ids |-> TaskIds(t)]
  BY <1>1, Noting DEF KInv
<1>5. \A n \in DOMAIN history' :
        \/ n \in DOMAIN history /\ history'[n] = history[n]
        \/ history'[n].kind = "flush" /\ history'[n].tx = t
  BY <1>4
<1>6. \A n \in DOMAIN history, k \in {"commit", "flush"}, u \in Tx :
        n \in DOMAIN history' /\ (Happened(n, k, u, j)' <=> Happened(n, k, u, j))
  BY <1>4 DEF Happened
<1>7. \A n \in DOMAIN history', u \in Tx :
        /\ Happened(n, "commit", u, j)' => n \in DOMAIN history /\ Happened(n, "commit", u, j)
        /\ Happened(n, "flush", u, j)' =>
             u = t \/ (n \in DOMAIN history /\ Happened(n, "flush", u, j))
  BY <1>5 DEF Happened
<1>8. \A u \in Tx : /\ Committed(u, j)' <=> Committed(u, j)
                    /\ Flushed(u, j) => Flushed(u, j)'
                    /\ Flushed(u, j)' => Flushed(u, j) \/ u = t
  BY <1>6, <1>7 DEF Committed, Flushed
<1>9. ChangesCarried(j)'
  BY <1>1, <1>8 DEF Coherent, ChangesCarried
<1>10. LastCommit(j)'
  <2>1. ASSUME NEW u \in Tx, db[j] = u
        PROVE  \E n \in DOMAIN history' :
                 /\ Happened(n, "commit", u, j)'
                 /\ \A m \in DOMAIN history', v \in Tx :
                      m > n => ~ Happened(m, "commit", v, j)'
    BY <1>6, <1>7, <2>1 DEF Coherent, LastCommit
  <2> QED
    BY <1>1, <1>8, <2>1 DEF Coherent, LastCommit, Happened
<1>11. LastFlush(j)'
  <2>1. ASSUME NEW u \in Tx, root[j] = u
        PROVE  \E p \in DOMAIN history' :
                 /\ Happened(p, "flush", u, j)'
                 /\ \A q \in DOMAIN history', v \in Tx :
                      q > p /\ Happened(q, "flush", v, j)' => Names(tasks[v], j)
    BY <1>2, <1>6, <1>7, <2>1 DEF Coherent, LastFlush
  <2> QED
    BY <1>1, <1>2, <1>8, <2>1 DEF Coherent, LastFlush, Happened
<1>12. AddsAlone(j)'
  BY <1>1, <1>2, <1>3, <1>8 DEF Coherent, AddsAlone
<1>13. RowAwaitsNode(j)' /\ NodeAwaitsRemoval(j)' /\ RemovalsHold(j)'
  BY <1>1, <1>3, <1>8 DEF Coherent, RowAwaitsNode, NodeAwaitsRemoval, RemovalsHold
<1>14. IdleTasks(j)'
  BY <1>1, <1>2, <1>3, <1>8 DEF Coherent, IdleTasks
<1> QED
  BY <1>9, <1>10, <1>11, <1>12, <1>13, <1>14 DEF Coherent

LEMMA BeginCoherent ==
  ASSUME IInv, KInv, NEW t \in Tx, BeginsFlush(t), NEW j \in Ids, Coherent(j)
  PROVE  Coherent(j)'
<1>1. CASE j \in TaskIds(t)
  BY <1>1, BeginThere
<1>2. CASE j \notin TaskIds(t)
  <2>1. SameEvents(j)
    BY <1>2, OtherEvent DEF BeginsFlush, KInv
  <2>2. SameTasks(j)
    BY SameTasksStay DEF BeginsFlush
  <2>3. SameRow(j)
    BY DEF SameRow, BeginsFlush, Live
  <2> QED
    BY <2>1, <2>2, <2>3, CoherentStays
<1> QED
  BY <1>1, <1>2

-----------------------------------------------------------------------------
(* FlushTask: a task is applied on its node *)

\* t, which holds the write lock, applies k
Applies(t, k) ==
  /\ status[t] = "flushing" /\ tasks[t] # <<>> /\ k = Head(tasks[t])
  /\ root'[k.id] = IF k.op = "del" \/ (k.op = "set" /\ root[k.id] = Absent)
                   THEN Absent ELSE t
  /\ \A i \in Ids : i # k.id => root'[i] = root[i]
  /\ tasks'[t] = Tail(tasks[t]) /\ \A u \in Tx \ {t} : tasks'[u] = tasks[u]
  /\ \A i \in Ids : written[t][i] = Unset
  /\ \A u \in Tx : todo[u] = {} /\ (Flushing(u) => u = t)
  /\ UNCHANGED <<maxSerial, parentOf, db, written, status, call, todo, history>>

LEMMA ApplyFacts ==
  ASSUME IInv, KInv, NEW t \in Tx, FlushTask(t), UNCHANGED history
  PROVE  \E k \in Statement : Applies(t, k)
<1> DEFINE k == Head(tasks[t])
<1>1. /\ status[t] = "flushing" /\ tasks[t] # <<>> /\ tasks[t] \in Seq(Statement)
      /\ root' = Applied(root, t, k)
      /\ tasks' = [tasks EXCEPT ![t] = Tail(@)]
      /\ UNCHANGED <<maxSerial, parentOf, db, written, status, call, todo>>
  BY DEF FlushTask, lockVars, dbVars, callVars, IInv, TypeOK
<1>2. k \in Statement /\ k.id \in Ids
  <2>1. k \in Statement
    BY <1>1
  <2> QED
    BY <2>1 DEF Statement
<1>3. tasks'[t] = Tail(tasks[t]) /\ \A u \in Tx \ {t} : tasks'[u] = tasks[u]
  BY <1>1 DEF IInv, TypeOK
<1>4. \A i \in Ids : written[t][i] = Unset
  BY <1>1 DEF IInv, RowsSettled, Nothing
<1>5. writer = t
  BY <1>1 DEF IInv, WriterOwns
<1>6. \A u \in Tx : status[u] \in {"executing", "flushing"} => u = t
  BY <1>5 DEF IInv, WriterOwns
<1>7. \A u \in Tx : todo[u] = {} /\ (Flushing(u) => u = t)
  BY <1>1, <1>6 DEF KInv, Underway, Flushing
<1> HIDE DEF k
<1>8. root' = [root EXCEPT ![k.id] = IF k.op = "del" \/ (k.op = "set" /\ @ = Absent)
                                     THEN Absent ELSE t]
  BY <1>1 DEF Applied
<1>9. /\ root'[k.id] = IF k.op = "del" \/ (k.op = "set" /\ root[k.id] = Absent)
                       THEN Absent ELSE t
      /\ \A i \in Ids : i # k.id => root'[i] = root[i]
  BY <1>2, <1>8 DEF IInv, TypeOK
<1> QED
  BY <1>1, <1>2, <1>3, <1>4, <1>7, <1>9 DEF Applies, k

\* What is left of the tasks of t
LEMMA ApplyTasks ==
  ASSUME TypeOK, NEW t \in Tx, NEW k \in Statement, Applies(t, k), NEW i \in Ids
  PROVE  /\ Names(tasks[t], i) <=> Names(tasks'[t], i) \/ k.id = i
         /\ \A o : Has(tasks[t], o, i) <=> Has(tasks'[t], o, i) \/ k = [op |-> o, id |-> i]
         /\ Once(tasks[t], i) => /\ Once(tasks'[t], i)
                                 /\ k.id = i => ~ Names(tasks'[t], i)
         /\ \A u \in Tx \ {t} : tasks'[u] = tasks[u]
<1> DEFINE q == tasks[t]
<1>1. /\ q \in Seq(Statement) /\ q # <<>> /\ tasks'[t] = Tail(q) /\ k = Head(q)
      /\ \A u \in Tx \ {t} : tasks'[u] = tasks[u]
  BY DEF TypeOK, Applies
<1> HIDE DEF q
<1>2. /\ Names(q, i) <=> Names(Tail(q), i) \/ Head(q).id = i
      /\ \A o : Has(q, o, i) <=> Has(Tail(q), o, i) \/ Head(q) = [op |-> o, id |-> i]
      /\ Once(q, i) => /\ Once(Tail(q), i)
                       /\ Head(q).id = i => ~ Names(Tail(q), i)
  BY <1>1, TailTask
<1> QED
  BY <1>1, <1>2 DEF q

LEMMA ApplyKeeps ==
  ASSUME IInv, KInv, NEW t \in Tx, NEW k \in Statement, Applies(t, k)
  PROVE  KInv'
<1>1. /\ status[t] = "flushing"
      /\ \A i \in Ids : i # k.id => root'[i] = root[i]
      /\ \A i \in Ids : written[t][i] = Unset
      /\ \A u \in Tx : todo[u] = {} /\ (Flushing(u) => u = t)
      /\ UNCHANGED <<maxSerial, parentOf, db, written, status, call, todo, history>>
  BY DEF Applies
<1>2. \A i \in Ids : /\ Names(tasks[t], i) <=> Names(tasks'[t], i) \/ k.id = i
                     /\ \A u \in Tx \ {t} : tasks'[u] = tasks[u]
  BY ApplyTasks DEF IInv
<1>3. HistoryOK' /\ Rooted' /\ Underway'
  BY <1>1 DEF KInv, HistoryOK, Rooted, Underway
<1>4. Fresh'
  <2> SUFFICES ASSUME NEW i \in Ids, i > maxSerial PROVE Untouched(i)'
    BY <1>1 DEF Fresh, Adding
  <2>1. Untouched(i)
    BY DEF KInv, Fresh
  <2>2. i # k.id
    BY <1>2, <2>1 DEF Untouched
  <2> QED
    BY <1>1, <1>2, <2>1, <2>2, UntouchedStays
<1>5. RowLocks'
  <2> SUFFICES ASSUME NEW u \in Tx, NEW i \in Ids
               PROVE  /\ written[u][i] \in {u, Absent, Unset}
                      /\ written[u][i] # Unset => \A v \in Tx \ {u} : written[v][i] = Unset
                      /\ written[u][i] = Absent => Has(tasks'[u], "del", i)
                      /\ written[u][i] = u /\ db[i] = Absent => Has(tasks'[u], "add", i)
    BY <1>1 DEF RowLocks
  <2>1. CASE u = t
    BY <1>1, <2>1, SettingAssumption
  <2>2. CASE u # t
    BY <1>2, <2>2 DEF KInv, RowLocks
  <2> QED
    BY <2>1, <2>2
<1>6. Flushes'
  <2>1. \A u \in Tx, i \in Ids : Flushed(u, i)' => Flushed(u, i)
    BY <1>1 DEF Flushed, Happened
  <2>2. FlushNoted(t)'
    <3>1. FlushNoted(t)
      BY <1>1 DEF KInv, Flushes, Flushing
    <3> QED
      BY <1>1, <1>2, <3>1 DEF FlushNoted, Happened
  <2>3. \A u \in Tx : Flushing(u)' => u = t
    BY <1>1 DEF Flushing
  <2> QED
    BY <1>1, <2>1, <2>2, <2>3 DEF KInv, Flushes
<1>7. ForeignKey'
  BY <1>1 DEF KInv, ForeignKey, KeyHolds, Seen
<1> QED
  BY <1>3, <1>4, <1>5, <1>6, <1>7 DEF KInv

\* The setting the task is about
LEMMA ApplyThere ==
  ASSUME IInv, KInv, NEW t \in Tx, NEW k \in Statement, Applies(t, k),
         NEW j \in Ids, j = k.id, Coherent(j)
  PROVE  Coherent(j)'
<1>1. /\ status[t] = "flushing" /\ written[t][j] = Unset
      /\ root'[j] = IF k.op = "del" \/ (k.op = "set" /\ root[j] = Absent) THEN Absent ELSE t
      /\ \A u \in Tx : written'[u][j] = written[u][j]
      /\ UNCHANGED <<db, status, history>>
  BY DEF Applies
<1>2. /\ Names(tasks[t], j)
      /\ \A o : Has(tasks[t], o, j) <=> Has(tasks'[t], o, j) \/ k = [op |-> o, id |-> j]
      /\ Once(tasks[t], j) => ~ Names(tasks'[t], j)
      /\ Names(tasks'[t], j) => Names(tasks[t], j)
      /\ \A u \in Tx \ {t} : tasks'[u] = tasks[u]
  BY ApplyTasks DEF IInv
<1>3. /\ k.op \in {"set", "add", "del"} /\ k = [op |-> k.op, id |-> j]
      /\ \A o : k = [op |-> o, id |-> j] <=> k.op = o
  BY DEF Statement
<1>4. /\ Unset # Absent /\ Original # Absent
      /\ \A u \in Tx : u # Absent /\ u # Unset /\ u # Original
  BY SettingAssumption
<1>5. Live(t) /\ \A u \in Tx : Live(u)' <=> Live(u)
  BY <1>1 DEF Live
<1>6. \A u \in Tx : /\ Committed(u, j)' <=> Committed(u, j)
                    /\ Flushed(u, j)' <=> Flushed(u, j)
  BY <1>1 DEF Committed, Flushed, Happened
<1>7. PICK p \in DOMAIN history :
        /\ Happened(p, "flush", t, j)
        /\ \A q \in DOMAIN history : q > p => history[q].kind # "flush"
  <2>1. FlushNoted(t)
    BY <1>1 DEF KInv, Flushes, Flushing
  <2> QED
    BY <1>2, <2>1 DEF FlushNoted
<1>8. Flushed(t, j)
  BY <1>7 DEF Flushed
\* a task that adds the node is the only one; any other task finds none
<1>9. \A u \in Tx : Has(tasks[u], "add", j) =>
        /\ u = t /\ k.op = "add" /\ db[j] = t
        /\ \A v \in Tx : ~ Names(tasks'[v], j)
  <2> SUFFICES ASSUME NEW u \in Tx, Has(tasks[u], "add", j)
               PROVE  /\ u = t /\ k.op = "add" /\ db[j] = t
                      /\ \A v \in Tx : ~ Names(tasks'[v], j)
    OBVIOUS
  <2>1. /\ Once(tasks[u], j)
        /\ \A v \in Tx : Names(tasks[v], j) => v = u
        /\ Live(u) => written[u][j] = u \/ db[j] = u
    BY DEF Coherent, AddsAlone
  <2>2. u = t
    BY <1>2, <2>1
  <2>3. Has(tasks[t], k.op, j)
    BY <1>2, <1>3
  <2>4. k.op = "add"
    BY <2>1, <2>2, <2>3, OnceHas
  <2>5. db[j] = t
    BY <1>1, <1>4, <1>5, <2>1, <2>2
  <2> QED
    BY <1>2, <2>1, <2>2, <2>4, <2>5
<1>10. \A u \in Tx : ~ Has(tasks'[u], "add", j)
  BY <1>2, <1>9, HasNames
<1>11. ChangesCarried(j)'
  BY <1>2, <1>6, <1>8 DEF Coherent, ChangesCarried
<1>12. LastCommit(j)'
  BY <1>1, <1>6 DEF Coherent, LastCommit, Happened
<1>13. LastFlush(j)'
  <2>1. root'[j] \in {Absent, t}
    BY <1>1
  <2>2. \A q \in DOMAIN history, u \in Tx : q > p => ~ Happened(q, "flush", u, j)
    BY <1>7 DEF Happened
  <2> QED
    BY <1>1, <1>4, <1>7, <2>1, <2>2 DEF LastFlush, Happened
<1>14. AddsAlone(j)'
  BY <1>10 DEF AddsAlone
<1>15. RowAwaitsNode(j)'
  <2>1. CASE k.op = "add"
    BY <1>1, <1>4, <2>1 DEF RowAwaitsNode
  <2>2. CASE k.op = "set"
    BY <1>1, <1>4, <1>9, <2>2 DEF Coherent, RowAwaitsNode
  <2>3. CASE k.op = "del"
    <3>1. Has(tasks[t], "del", j)
      BY <1>2, <1>3, <2>3
    <3>2. db[j] = Absent
      BY <1>1, <1>4, <1>5, <3>1 DEF Coherent, RemovalsHold
    <3> QED
      BY <1>1, <3>2 DEF RowAwaitsNode
  <2> QED
    BY <1>3, <2>1, <2>2, <2>3
<1>16. NodeAwaitsRemoval(j)'
  <2>1. CASE k.op = "add"
    <3>1. db[j] = t
      BY <1>2, <1>3, <1>9, <2>1
    <3> QED
      BY <1>1, <1>4, <3>1 DEF NodeAwaitsRemoval
  <2>2. CASE k.op = "set"
    <3>1. \A u \in Tx : Has(tasks[u], "del", j) => Has(tasks'[u], "del", j)
      BY <1>2, <1>3, <2>2
    <3> QED
      BY <1>1, <1>6, <2>2, <3>1 DEF Coherent, NodeAwaitsRemoval
  <2>3. CASE k.op = "del"
    BY <1>1, <2>3 DEF NodeAwaitsRemoval
  <2> QED
    BY <1>3, <2>1, <2>2, <2>3
<1>17. RemovalsHold(j)'
  BY <1>1, <1>2, <1>5 DEF Coherent, RemovalsHold
<1>18. IdleTasks(j)'
  BY <1>1, <1>2, <1>5, <1>6 DEF Coherent, IdleTasks
<1> QED
  BY <1>11, <1>12, <1>13, <1>14, <1>15, <1>16, <1>17, <1>18 DEF Coherent

LEMMA ApplyCoherent ==
  ASSUME IInv, KInv, NEW t \in Tx, NEW k \in Statement, Applies(t, k),
         NEW j \in Ids, Coherent(j)
  PROVE  Coherent(j)'
<1>1. CASE j = k.id
  BY <1>1, ApplyThere
<1>2. CASE j # k.id
  <2>1. SameEvents(j)
    BY NoEvent DEF Applies
  <2>2. SameTasks(j)
    <3>1. /\ Names(tasks[t], j) <=> Names(tasks'[t], j) \/ k.id = j
          /\ \A o : Has(tasks[t], o, j) <=> Has(tasks'[t], o, j) \/ k = [op |-> o, id |-> j]
          /\ Once(tasks[t], j) => Once(tasks'[t], j)
          /\ \A u \in Tx \ {t} : tasks'[u] = tasks[u]
      BY ApplyTasks DEF IInv
    <3>2. \A o : k # [op |-> o, id |-> j]
      BY <1>2
    <3> QED
      BY <1>2, <3>1, <3>2 DEF SameTasks
  <2>3. SameRow(j)
    BY <1>2 DEF Applies, SameRow, Live
  <2> QED
    BY <2>1, <2>2, <2>3, CoherentStays
<1> QED
  BY <1>1, <1>2

-----------------------------------------------------------------------------
(* DropTasks: the listener of an aborted transaction *)

Drops(t) ==
  /\ status[t] = "notifyAbort" /\ status'[t] = "aborted"
  /\ Note("drop", t, TaskIds(t))
  /\ tasks'[t] = <<>> /\ \A u \in Tx \ {t} : tasks'[u] = tasks[u] /\ status'[u] = status[u]
  /\ \A i \in Ids : written[t][i] = Unset
  /\ \A u \in Tx : ~ Flushing(u)
  /\ UNCHANGED <<root, maxSerial, parentOf, db, written, call, todo>>

LEMMA DropFacts ==
  ASSUME IInv, NEW t \in Tx, DropTasks(t), Note("drop", t, TaskIds(t))
  PROVE  Drops(t)
<1>1. /\ status[t] = "notifyAbort" /\ status'[t] = "aborted" /\ tasks'[t] = <<>>
      /\ \A u \in Tx \ {t} : tasks'[u] = tasks[u] /\ status'[u] = status[u]
      /\ UNCHANGED <<root, maxSerial, parentOf, db, written, call, todo>>
  BY DEF DropTasks, Moves, dbVars, callVars, IInv, TypeOK
<1>2. \A i \in Ids : written[t][i] = Unset
  BY <1>1 DEF IInv, RowsSettled, Nothing
<1>3. writer = NoTx
  BY DEF DropTasks, WriteLockFree
<1>4. \A u \in Tx : ~ Flushing(u)
  BY <1>3, SettingAssumption DEF IInv, WriterOwns, Flushing
<1> QED
  BY <1>1, <1>2, <1>4 DEF Drops

LEMMA NoTasks == \A i : ~ Names(<<>>, i) /\ \A o : ~ Has(<<>>, o, i)
BY DEF Names, Has

LEMMA DropKeeps ==
  ASSUME IInv, KInv, NEW t \in Tx, Drops(t)
  PROVE  KInv'
<1>1. /\ status[t] = "notifyAbort" /\ status'[t] = "aborted"
      /\ Note("drop", t, TaskIds(t))
      /\ tasks'[t] = <<>>
      /\ \A u \in Tx \ {t} : tasks'[u] = tasks[u] /\ status'[u] = status[u]
      /\ \A i \in Ids : written[t][i] = Unset
      /\ \A u \in Tx : ~ Flushing(u)
      /\ UNCHANGED <<root, maxSerial, parentOf, db, written, call, todo>>
  BY DEF Drops
<1>2. HistoryOK /\ TaskIds(t) \in SUBSET Ids
  BY RowsTasksAreIds DEF IInv, KInv
<1>3. HistoryOK'
  BY <1>1, <1>2, NotedGrows
<1>4. Rooted' /\ Underway' /\ \A i \in Ids : Adding(i)' <=> Adding(i)
  BY <1>1, EndKeeps
<1>5. Fresh'
  <2> SUFFICES ASSUME NEW i \in Ids, i > maxSerial' \/ Adding(i)' PROVE Untouched(i)'
    BY DEF Fresh
  <2>1. Untouched(i)
    BY <1>1, <1>4 DEF KInv, Fresh
  <2>2. i \notin TaskIds(t)
    BY <2>1, TaskIdsNamed DEF Untouched
  <2>3. \A n \in DOMAIN history' :
          \/ n \in DOMAIN history /\ history'[n].ids = history[n].ids
          \/ i \notin history'[n].ids
    BY <1>1, <1>2, <2>2, UntouchedByNote
  <2>4. \A u \in Tx : Names(tasks'[u], i) => Names(tasks[u], i)
    BY <1>1, NoTasks
  <2> QED
    BY <1>1, <2>1, <2>3, <2>4, UntouchedStays
<1>6. RowLocks'
  <2> SUFFICES ASSUME NEW u \in Tx, NEW i \in Ids
               PROVE  /\ written[u][i] \in {u, Absent, Unset}
                      /\ written[u][i] # Unset => \A v \in Tx \ {u} : written[v][i] = Unset
                      /\ written[u][i] = Absent => Has(tasks'[u], "del", i)
                      /\ written[u][i] = u /\ db[i] = Absent => Has(tasks'[u], "add", i)
    BY <1>1 DEF RowLocks
  <2>1. CASE u = t
    BY <1>1, <2>1, SettingAssumption
  <2>2. CASE u # t
    BY <1>1, <2>2 DEF KInv, RowLocks
  <2> QED
    BY <2>1, <2>2
<1>7. Flushes'
  <2>1. \A u \in Tx : ~ Flushing(u)'
    BY <1>1 DEF Flushing
  <2>2. \A u \in Tx, i \in Ids : Flushed(u, i)' => Flushed(u, i)
    <3>1. /\ Len(history) \in Nat /\ DOMAIN history = 1 .. Len(history)
          /\ DOMAIN history' = 1 .. Len(history) + 1
          /\ \A n \in DOMAIN history : n \in DOMAIN history' /\ history'[n] = history[n]
          /\ history'[Len(history) + 1] = [kind |-> "drop", tx |-> t, ids |-> TaskIds(t)]
      BY <1>1, <1>2, Noting
    <3>2. \A n \in DOMAIN history' :
            \/ n \in DOMAIN history /\ history'[n] = history[n]
            \/ history'[n].kind # "flush"
      BY <3>1
    <3> QED
      BY <3>2 DEF Flushed, Happened
  <2>3. \A i \in Ids : ~ Flushed(t, i)
    BY <1>1 DEF KInv, Flushes
  <2> QED
    BY <1>1, <2>1, <2>2, <2>3 DEF KInv, Flushes
<1>8. ForeignKey'
  BY <1>1 DEF KInv, ForeignKey, KeyHolds, Seen
<1> QED
  BY <1>3, <1>4, <1>5, <1>6, <1>7, <1>8 DEF KInv

\* A task that stood for a committed change explains the difference; the
\* others stood for nothing
LEMMA DropCoherent ==
  ASSUME IInv, KInv, NEW t \in Tx, Drops(t), NEW j \in Ids, Coherent(j)
  PROVE  Coherent(j)' \/ Explained(j)'
<1>1. /\ status[t] = "notifyAbort" /\ status'[t] = "aborted"
      /\ Note("drop", t, TaskIds(t))
      /\ tasks'[t] = <<>>
      /\ \A u \in Tx \ {t} : tasks'[u] = tasks[u] /\ status'[u] = status[u]
      /\ UNCHANGED <<root, db, written>>
  BY DEF Drops
<1>2. /\ Len(history) \in Nat /\ DOMAIN history = 1 .. Len(history)
      /\ DOMAIN history' = 1 .. Len(history) + 1
      /\ \A n \in DOMAIN history : n \in DOMAIN history' /\ history'[n] = history[n]
      /\ history'[Len(history) + 1] = [kind |-> "drop", tx |-> t, ids |-> TaskIds(t)]
  BY <1>1, Noting DEF KInv
<1>3. CASE Names(tasks[t], j) /\ Committed(t, j)
  <2>1. PICK m \in DOMAIN history : Happened(m, "commit", t, j)
    BY <1>3 DEF Committed
  <2>2. PICK e \in DOMAIN history' : m < e /\ Happened(e, "drop", t, j)'
    <3>1. j \in TaskIds(t)
      BY <1>3, TaskIdsNamed
    <3>2. \E e \in DOMAIN history' :
            m < e /\ history'[e] = [kind |-> "drop", tx |-> t, ids |-> TaskIds(t)]
      BY <1>2
    <3> QED
      BY <3>1, <3>2 DEF Happened
  <2>3. m \in DOMAIN history' /\ Happened(m, "commit", t, j)'
    BY <1>2, <2>1 DEF Happened
  <2>4. TasksDropped(j)'
    BY <2>2, <2>3 DEF TasksDropped
  <2> QED
    BY <2>4 DEF Explained
<1>4. CASE ~ Names(tasks[t], j)
  <2>1. j \notin TaskIds(t)
    BY <1>4, TaskIdsNamed
  <2>2. SameEvents(j)
    BY <1>1, <2>1, OtherEvent DEF KInv
  <2>3. SameTasks(j)
    <3>1. \A o : ~ Has(tasks[t], o, j)
      BY <1>4, HasNames
    <3>2. Once(<<>>, j)
      BY DEF Once
    <3> QED
      BY <1>1, <1>4, <3>1, <3>2, NoTasks DEF SameTasks
  <2>4. SameRow(j)
    BY <1>1 DEF SameRow, Live
  <2> QED
    BY <2>2, <2>3, <2>4, CoherentStays
<1>5. CASE ~ Committed(t, j)
  <2>1. \A n \in DOMAIN history' :
          \/ n \in DOMAIN history /\ history'[n] = history[n]
          \/ history'[n].kind \notin {"commit", "flush"}
    BY <1>2
  <2>2. \A n \in DOMAIN history', k \in {"commit", "flush"}, u \in Tx :
          Happened(n, k, u, j)' <=> n \in DOMAIN history /\ Happened(n, k, u, j)
    BY <1>2, <2>1 DEF Happened
  <2>3. DOMAIN history \subseteq DOMAIN history'
    BY <1>2
  <2>4. \A u \in Tx : /\ Committed(u, j)' <=> Committed(u, j)
                      /\ Flushed(u, j)' <=> Flushed(u, j)
    BY <2>2, <2>3 DEF Committed, Flushed
  <2>5. ~ Flushed(t, j)
    BY <1>1 DEF KInv, Flushes
  <2>6. \A q \in DOMAIN history : ~ Happened(q, "flush", t, j)
    BY <2>5 DEF Flushed
  <2>7. /\ ~ Names(tasks'[t], j) /\ \A o : ~ Has(tasks'[t], o, j)
        /\ \A u \in Tx \ {t} : tasks'[u] = tasks[u]
    BY <1>1, NoTasks
  <2>8. \A u \in Tx : Live(u)' => Live(u) /\ u # t
    BY <1>1 DEF Live
  <2>9. ChangesCarried(j)'
    BY <1>5, <2>4, <2>7 DEF Coherent, ChangesCarried
  <2>10. LastCommit(j)'
    <3>1. ASSUME NEW u \in Tx, db[j] = u
          PROVE  \E n \in DOMAIN history' :
                   /\ Happened(n, "commit", u, j)'
                   /\ \A m \in DOMAIN history', v \in Tx :
                        m > n => ~ Happened(m, "commit", v, j)'
      BY <2>2, <2>3, <3>1 DEF Coherent, LastCommit
    <3> QED
      BY <1>1, <2>4, <3>1 DEF Coherent, LastCommit, Happened
  <2>11. LastFlush(j)'
    <3>1. ASSUME NEW u \in Tx, root[j] = u
          PROVE  \E p \in DOMAIN history' :
                   /\ Happened(p, "flush", u, j)'
                   /\ \A q \in DOMAIN history', v \in Tx :
                        q > p /\ Happened(q, "flush", v, j)' => Names(tasks'[v], j)
      BY <2>2, <2>3, <2>6, <2>7, <3>1 DEF Coherent, LastFlush
    <3> QED
      BY <1>1, <2>4, <2>5, <2>7, <3>1 DEF Coherent, LastFlush, Happened
  <2>12. AddsAlone(j)'
    BY <1>1, <2>4, <2>7, <2>8 DEF Coherent, AddsAlone
  <2>13. RowAwaitsNode(j)' /\ NodeAwaitsRemoval(j)'
    BY <1>1, <1>5, <2>4, <2>7 DEF Coherent, RowAwaitsNode, NodeAwaitsRemoval
  <2>14. RemovalsHold(j)'
    BY <1>1, <2>7, <2>8 DEF Coherent, RemovalsHold
  <2>15. IdleTasks(j)'
    BY <1>1, <2>4, <2>7, <2>8 DEF Coherent, IdleTasks
  <2>16. Coherent(j)'
    BY <2>9, <2>10, <2>11, <2>12, <2>13, <2>14, <2>15 DEF Coherent
  <2> QED
    BY <2>16
<1> QED
  BY <1>3, <1>4, <1>5

-----------------------------------------------------------------------------
(* From the invariant to what readers see *)

\* A setting nobody is changing holds in memory what its row holds, unless a
\* flush overtook another
LEMMA NodeIsRow ==
  ASSUME TypeOK, HistoryOK, NEW j \in Ids, Coherent(j), Settled(j), ~ Overtaken(j)
  PROVE  root[j] = db[j]
<1>1. \A t \in Tx : /\ written[t][j] = Unset
                    /\ ~ Names(tasks[t], j) /\ \A o : ~ Has(tasks[t], o, j)
  <2>1. \A t \in Tx : written[t][j] = Unset /\ ~ Names(tasks[t], j)
    BY TaskIdsNamed DEF Settled
  <2> QED
    BY <2>1, HasNames
<1>2. db[j] = Absent <=> root[j] = Absent
  BY <1>1 DEF Coherent, RowAwaitsNode, NodeAwaitsRemoval
<1>3. /\ root[j] \in Tx \cup {Original, Absent} /\ db[j] \in Tx \cup {Original, Absent}
      /\ Original # Absent /\ \A u \in Tx : u # Absent /\ u # Original
  BY SettingAssumption DEF TypeOK, Value
<1>4. ASSUME NEW y \in Tx, root[j] = y
      PROVE  /\ Committed(y, j)
             /\ \E p \in DOMAIN history :
                  /\ Happened(p, "flush", y, j)
                  /\ \A q \in DOMAIN history, t \in Tx :
                       q > p => ~ Happened(q, "flush", t, j)
  <2>1. PICK p \in DOMAIN history :
          /\ Happened(p, "flush", y, j)
          /\ \A q \in DOMAIN history, t \in Tx :
               q > p /\ Happened(q, "flush", t, j) => Names(tasks[t], j)
    BY <1>4 DEF Coherent, LastFlush
  <2>2. Flushed(y, j)
    BY <2>1 DEF Flushed
  <2>3. db[j] # Absent
    BY <1>2, <1>3, <1>4
  <2>4. Committed(y, j)
    BY <2>2, <2>3 DEF Coherent, IdleTasks
  <2> QED
    BY <1>1, <2>1, <2>4
<1>5. CASE db[j] = Absent
  BY <1>2, <1>5
<1>6. CASE db[j] = Original
  <2>1. \A t \in Tx : ~ Committed(t, j)
    BY <1>6 DEF Coherent, LastCommit
  <2> QED
    BY <1>2, <1>3, <1>4, <1>6, <2>1
<1>7. ASSUME NEW x \in Tx, db[j] = x PROVE root[j] = db[j]
  <2>1. PICK n \in DOMAIN history :
          /\ Happened(n, "commit", x, j)
          /\ \A m \in DOMAIN history, t \in Tx : m > n => ~ Happened(m, "commit", t, j)
    BY <1>7 DEF Coherent, LastCommit
  <2>2. Committed(x, j)
    BY <2>1 DEF Committed
  <2>3. PICK q \in DOMAIN history : Happened(q, "flush", x, j)
    BY <1>1, <2>2 DEF Coherent, ChangesCarried, Flushed
  <2>4. root[j] # Original
    BY <1>1, <2>3 DEF Coherent, LastFlush, Flushed
  <2>5. root[j] \in Tx
    BY <1>2, <1>3, <1>7, <2>4
  <2>6. ASSUME NEW y \in Tx, root[j] = y, y # x PROVE FALSE
    <3>1. PICK p \in DOMAIN history :
            /\ Happened(p, "flush", y, j)
            /\ \A r \in DOMAIN history, t \in Tx : r > p => ~ Happened(r, "flush", t, j)
      BY <1>4, <2>6
    <3>2. PICK m \in DOMAIN history : Happened(m, "commit", y, j)
      BY <1>4, <2>6 DEF Committed
    <3>3. DOMAIN history \subseteq Nat
      BY DEF HistoryOK
    <3>4. m # n /\ p # q
      BY <2>1, <2>3, <2>6, <3>1, <3>2 DEF Happened
    <3>5. ~ (m > n) /\ ~ (q > p)
      BY <2>1, <2>3, <3>1, <3>2
    <3>6. m < n /\ q < p
      BY <3>3, <3>4, <3>5
    <3>7. Overtaken(j)
      BY <2>1, <2>3, <3>1, <3>2, <3>6 DEF Overtaken
    <3> QED
      BY <3>7
  <2> QED
    BY <1>7, <2>5, <2>6
<1> QED
  BY <1>3, <1>5, <1>6, <1>7

\* If the nodes above a setting hold what their rows hold, readers see its row:
\* the foreign key keeps the rows above it, so resolve() gets down to it
LEMMA TreeIsTable ==
  ASSUME TypeOK, KInv, NEW i \in Ids, \A j \in Ids : Below(j, i) => root[j] = db[j]
  PROVE  Agrees(i)
<1>1. Below(i, i)
  BY BelowUp
<1>2. root[i] = db[i]
  BY <1>1
<1>3. ASSUME ~ Reachable(i), db[i] # Absent
      PROVE  FALSE
  <2> DEFINE S == {k \in Ids : Below(k, i) /\ db[k] # Absent /\ ~ Reachable(k)}
  <2>1. i \in S /\ S \in SUBSET Nat
    BY <1>1, <1>3 DEF Ids
  <2>2. PICK k \in S : \A l \in S : k <= l
    <3> HIDE DEF S
    <3> QED
      BY <2>1, LeastNatural
  <2>3. k \in Ids /\ Below(k, i) /\ db[k] # Absent /\ ~ Reachable(k)
    BY <2>2
  <2>4. root[k] # Absent
    BY <2>3
  <2>5. parentOf[k] # 0 /\ ~ Reachable(parentOf[k])
    BY <2>3, <2>4, ReachableUp
  <2>6. parentOf[k] \in Ids /\ parentOf[k] < k
    BY <2>3, <2>5 DEF TypeOK, KInv, Rooted
  <2>7. Below(parentOf[k], i)
    BY <2>3, <2>5, BelowParent DEF KInv
  <2>8. db[parentOf[k]] # Absent
    BY <2>3, <2>5 DEF KInv, ForeignKey, KeyHolds
  <2>9. parentOf[k] \in S
    BY <2>5, <2>6, <2>7, <2>8
  <2> QED
    BY <2>2, <2>3, <2>6, <2>9, SettingAssumption DEF Ids
<1>4. Visible[i] = IF Reachable(i) THEN root[i] ELSE Absent
  BY DEF Visible
<1> QED
  BY <1>2, <1>3, <1>4 DEF Agrees

LEMMA InvExplains == HInv => OnlyExplainedDifferences
<1> SUFFICES ASSUME HInv, NEW i \in Ids,
                    \A j \in Ids : Below(j, i) => Settled(j),
                    \A j \in Ids : Below(j, i) => ~ Explained(j)
             PROVE  Agrees(i)
  BY DEF OnlyExplainedDifferences
<1>1. TypeOK /\ KInv /\ HistoryOK
  BY DEF HInv, IInv, KInv
<1>2. ASSUME NEW j \in Ids, Below(j, i) PROVE root[j] = db[j]
  <2>1. Settled(j) /\ ~ Overtaken(j) /\ Coherent(j)
    BY <1>2 DEF HInv, Explained
  <2> QED
    BY <1>1, <2>1, NodeIsRow
<1> QED
  BY <1>1, <1>2, TreeIsTable

-----------------------------------------------------------------------------
(* The theorems *)

LEMMA InitCoherent == HInit => HInv
<1> SUFFICES ASSUME HInit PROVE HInv
  OBVIOUS
<1>1. IInv
  BY InitInv DEF HInit
<1>2. /\ \A i \in Ids : root[i] = IF i \in Boot THEN Original ELSE Absent
      /\ db = root /\ maxSerial = LastId /\ history = <<>>
      /\ \A i \in Ids : parentOf[i] = IF i \in Boot THEN BootParent[i] ELSE 0
      /\ \A t \in Tx : /\ tasks[t] = <<>> /\ status[t] = "open" /\ todo[t] = {}
                        /\ \A i \in Ids : written[t][i] = Unset
  BY DEF HInit, Init, Nothing
<1>3. /\ Original # Absent /\ Unset # Absent /\ \A u \in Tx : u \notin {Original, Absent, Unset}
      /\ \A i \in Boot : /\ i \in Ids /\ BootParent[i] \in Boot \cup {0}
                         /\ BootParent[i] < i
  BY SettingAssumption
<1>4. DOMAIN history = {}
  BY <1>2
<1>5. \A t \in Tx, i \in Ids : /\ ~ Names(tasks[t], i) /\ \A o : ~ Has(tasks[t], o, i)
                              /\ ~ Committed(t, i) /\ ~ Flushed(t, i)
  BY <1>2, <1>4, NoTasks DEF Committed, Flushed
<1>6. HistoryOK
  BY <1>2 DEF HistoryOK
<1>7. Rooted
  <2>1. \A i \in Ids : 0 < i
    BY DEF Ids
  <2> QED
    BY <1>2, <1>3, <2>1 DEF Rooted
<1>8. Underway /\ RowLocks /\ Flushes
  BY <1>2, <1>3, <1>5 DEF Underway, RowLocks, Flushes, Flushing
<1>9. Fresh
  <2> SUFFICES ASSUME NEW i \in Ids, i > LastId PROVE Untouched(i)
    BY <1>2 DEF Fresh, Adding
  <2>1. i \notin Boot
    BY BootIds, SettingAssumption DEF Ids
  <2> QED
    BY <1>2, <1>4, <1>5, <2>1 DEF Untouched
<1>10. ForeignKey
  BY <1>2, <1>3 DEF ForeignKey, KeyHolds
<1>11. \A j \in Ids : Coherent(j)
  BY <1>2, <1>3, <1>5
  DEF Coherent, ChangesCarried, LastCommit, LastFlush, AddsAlone, RowAwaitsNode,
      NodeAwaitsRemoval, RemovalsHold, IdleTasks
<1> QED
  BY <1>1, <1>6, <1>7, <1>8, <1>9, <1>10, <1>11 DEF HInv, KInv

LEMMA StepOfManager == [HNext]_<<vars, history>> => [Next]_vars
<1>1. \A t \in Tx : Noted(t) \/ Unnoted(t) => Service(t) \/ Operation(t) \/ End(t)
  BY DEF Noted, Unnoted, Service, End
<1> QED
  BY <1>1 DEF HNext, Next

LEMMA StepCoherent == HInv /\ [HNext]_<<vars, history>> => HInv'
<1> SUFFICES ASSUME HInv, [HNext]_<<vars, history>> PROVE HInv'
  OBVIOUS
<1>1. IInv /\ KInv /\ TypeOK /\ HistoryOK
  BY DEF HInv, IInv, KInv
<1>2. IInv'
  BY <1>1, NextInv, StepOfManager
<1>3. Grows
  BY <1>1, HistoryStep
<1> DEFINE Kept == KInv' /\ \A j \in Ids : Coherent(j) => Coherent(j)' \/ Explained(j)'
<1>4. ASSUME NEW t \in Tx, Noted(t) PROVE Kept
  <2>1. CASE (Commit(t) \/ ExplicitCommit(t)) /\ Note("commit", t, Rows(t))
    <3>1. Commits(t)
      BY <1>1, <2>1, CommitFacts
    <3> QED
      BY <1>1, <3>1, CommitKeeps, CommitCoherent
  <2>2. CASE CommitFails(t) /\ Note("lost", t, Rows(t))
    <3>1. Loses(t)
      BY <1>1, <2>2, LoseFacts
    <3> QED
      BY <1>1, <3>1, LoseKeeps, LoseCoherent
  <2>3. CASE BeginFlush(t) /\ Note("flush", t, TaskIds(t))
    <3>1. BeginsFlush(t)
      BY <1>1, <2>3, BeginFacts
    <3> QED
      BY <1>1, <3>1, BeginKeeps, BeginCoherent
  <2>4. CASE DropTasks(t) /\ Note("drop", t, TaskIds(t))
    <3>1. Drops(t)
      BY <1>1, <2>4, DropFacts
    <3> QED
      BY <1>1, <3>1, DropKeeps, DropCoherent
  <2> QED
    BY <1>4, <2>1, <2>2, <2>3, <2>4 DEF Noted
<1>5. ASSUME NEW t \in Tx, Unnoted(t), UNCHANGED history PROVE Kept
  <2>1. CASE Call(t)
    <3>1. Quiet
      BY <1>1, <1>5, <2>1, CallIsQuiet
    <3> QED
      BY <1>1, <3>1, QuietKeeps, QuietCoherent
  <2>2. CASE \/ Close(t) \/ NotFound(t) \/ ExecuteFails(t) \/ BeforeClose(t)
             \/ Notify(t) \/ EndFlush(t)
    <3>1. Quiet
      BY <1>1, <1>5, <2>2, OtherIsQuiet
    <3> QED
      BY <1>1, <3>1, QuietKeeps, QuietCoherent
  <2>3. CASE Abort(t)
    <3>1. Loses(t)
      BY <1>1, <1>5, <2>3, LoseFacts
    <3> QED
      BY <1>1, <3>1, LoseKeeps, LoseCoherent
  <2>4. CASE Enter(t)
    BY <1>1, <1>5, <2>4, EnterKeeps, EnterCoherent
  <2>5. CASE Execute(t)
    <3>1. PICK s \in Statement : Executes(t, s)
      BY <1>1, <1>5, <2>5, ExecuteFacts
    <3> QED
      BY <1>1, <3>1, ExecuteKeeps, ExecuteCoherent
  <2>6. CASE FlushTask(t)
    <3>1. PICK k \in Statement : Applies(t, k)
      BY <1>1, <1>5, <2>6, ApplyFacts
    <3> QED
      BY <1>1, <3>1, ApplyKeeps, ApplyCoherent
  <2> QED
    BY <1>5, <2>1, <2>2, <2>3, <2>4, <2>5, <2>6 DEF Unnoted, Operation
<1>6. ASSUME (\E r \in Reader : Get(r)) \/ AllEnded \/ UNCHANGED vars, UNCHANGED history
      PROVE  Kept
  <2>1. Quiet
    BY <1>1, <1>6, GetIsQuiet
  <2> QED
    BY <1>1, <2>1, QuietKeeps, QuietCoherent
<1> HIDE DEF Kept
<1>7. Kept
  BY <1>4, <1>5, <1>6 DEF HNext
<1>8. \A j \in Ids : Explained(j)' \/ Coherent(j)'
  BY <1>3, <1>7, ExplainedStays DEF HInv, Kept
<1> QED
  BY <1>2, <1>7, <1>8 DEF HInv, Kept

\* The inductive invariant holds in every reachable state.
THEOREM AlwaysCoherent == HSpec => []HInv
BY InitCoherent, StepCoherent, PTL DEF HSpec

\* Whenever nobody is changing a setting or one above it, readers see its
\* committed row, unless one flush overtook another, a commit failed or a
\* service committed and then aborted: no other interleaving of operations,
\* commits, flushes and aborts lets the tree and the table part.
THEOREM DifferencesExplained == HSpec => []OnlyExplainedDifferences
BY AlwaysCoherent, InvExplains, PTL
=============================================================================
