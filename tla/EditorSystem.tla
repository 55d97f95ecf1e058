---------------------------- MODULE EditorSystem -----------------------------
(***************************************************************************)
(* The editors of several browser windows and the editing services of the  *)
(* server, composed over the requests in flight.                           *)
(***************************************************************************)
EXTENDS Naturals, FiniteSets

CONSTANTS Window, NoWindow, Slot, Session, Edit, Element, MaxRequests, NoRequest

VARIABLES panel, req, sent, typed,
          sessionOf, record, version, doc, copy, rowLock,
          disturbed,   \* history: sessions that had two requests at once, or one the
                       \* client did not listen to any more
          raced        \* history: versions handed out while a save was past its
                       \* check, or after the record they were read from changed

ASSUME NoRequestAssumption == NoRequest \notin Slot
ASSUME SlotAssumption == IsFiniteSet(Slot)
ASSUME RequestsAssumption == MaxRequests \in Nat

vars == <<panel, req, sent, typed, sessionOf, record, version, doc, copy,
          rowLock, disturbed, raced>>

serverVars == <<record, version, doc, copy, rowLock>>

Client == INSTANCE EditorPanel
Server == INSTANCE MetadataEditing

-----------------------------------------------------------------------------
Busy(s) == req[s].stage # "idle"
Of(u) == {s \in Slot : Busy(s) /\ sessionOf[req[s].window] = u}

Disturbs(u) == Cardinality(Of(u)) > 1 \/ \E s \in Of(u) : ~req[s].listening

\* A save that was let through and has not been written
PastCheck == \E s \in Slot : req[s].stage \in {"checked", "applied"}

\* The request that is given its version in this step
Opener(s) == /\ req[s].stage = "read"
             /\ req'[s].stage = "bumped"

History ==
    /\ disturbed' = disturbed \cup {u \in Session : Disturbs(u)'}
    /\ raced' = raced \cup
         {v \in {version'} : \E s \in Slot :
             Opener(s) /\ (PastCheck \/ req[s].md # record)}

Init == /\ Client!ClientInit /\ Server!ServerInit
        /\ disturbed = {} /\ raced = {}

ByClient == Client!ClientNext /\ UNCHANGED serverVars
ByServer == Server!ServerNext /\ UNCHANGED <<panel, sent, typed>>

Next == UNCHANGED sessionOf /\ (ByClient \/ ByServer) /\ History

Spec == Init /\ [][Next]_vars

-----------------------------------------------------------------------------
TypeOK == /\ Client!ClientTypeOK /\ Server!ServerTypeOK
          /\ disturbed \subseteq Session
          /\ raced \subseteq Server!Version

\* As long as the requests of a session come one at a time, a save that passed the
\* version check writes every field of its form: it is never applied to a copy
\* that has already lost its references, where the fields that are not found are
\* only logged (AjaxEditUtils, "Element not found at ref") and the user is told
\* that they were saved.
AppliedIsComplete ==
    \A s \in Slot :
       req[s].stage = "applied" =>
          req[s].fields \subseteq req[s].md.values \/ sessionOf[req[s].window] \in disturbed

\* A save that writes all the fields of its form drops a value that another save
\* committed only when that form was given its version while the other save was
\* between its check and its commit, or after it had read the record and before
\* it was given the version: the version check catches every other concurrent
\* change.  A save that does not write all its fields is the matter of
\* AppliedIsComplete.
LossNeedsRace ==
    [][record.values \subseteq record'.values
         \/ \E s \in Slot : /\ req[s].stage = "applied"
                            /\ req'[s].stage # "applied"
                            /\ \/ req[s].version \in raced
                               \/ ~(req[s].fields \subseteq req[s].md.values)]_vars

\* As long as a session shows the record in one window and its requests come one
\* at a time, a form that could still be saved is the picture of the copy the
\* session holds: the copy has that version, its references, its info element
\* and the elements the form shows.  Other sessions do not disturb it.
QuietSessionAgrees ==
    \A w \in Window :
       LET u == sessionOf[w]
           v == panel[w].version
       IN
       /\ panel[w].form /\ v = version
       /\ u \notin disturbed
       /\ \A o \in Window \ {w} : sessionOf[o] # u
       /\ Of(u) = {}
       => /\ copy[u] # Server!NoCopy
          /\ LET held == doc[copy[u]] IN
             /\ held.version = v /\ held.refs /\ held.info
             /\ held.content.elems = panel[w].shows.elems
=============================================================================
