------------------------ MODULE TransactionalSettings ------------------------
(***************************************************************************)
(* What SettingManager promises its callers (class comment, lines 51-63):  *)
(* a transaction's changes stay invisible, to itself too, until it is      *)
(* closed; then all of them appear together, in the order they were made;  *)
(* an aborted transaction leaves no trace.                                 *)
(***************************************************************************)
EXTENDS Naturals, Sequences

CONSTANTS Tx, Ids, Initial, Absent

VARIABLES
  visible,  (* what every reader of the settings sees                      *)
  pending   (* the changes each transaction has made                       *)

Change == [op : {"set", "add", "del"}, id : Ids]

Changed(v, t, c) ==
  [v EXCEPT ![c.id] = IF c.op = "del" \/ (c.op = "set" /\ @ = Absent)
                      THEN Absent ELSE t]

\* the changes of a sequence, one after the other
AllChanged(v, t, changes) ==
  LET after[n \in 0 .. Len(changes)] ==
        IF n = 0 THEN v ELSE Changed(after[n - 1], t, changes[n])
  IN  after[Len(changes)]

Init == visible = Initial /\ pending = [t \in Tx |-> <<>>]

Record(t) ==
  /\ \E c \in Change : pending' = [pending EXCEPT ![t] = Append(@, c)]
  /\ UNCHANGED visible

Publish(t) ==
  /\ visible' = AllChanged(visible, t, pending[t])
  /\ pending' = [pending EXCEPT ![t] = <<>>]

Discard(t) ==
  /\ pending' = [pending EXCEPT ![t] = <<>>]
  /\ UNCHANGED visible

Next == \E t \in Tx : Record(t) \/ Publish(t) \/ Discard(t)

Spec == Init /\ [][Next]_<<visible, pending>>
=============================================================================
