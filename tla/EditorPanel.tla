----------------------------- MODULE EditorPanel -----------------------------
(***************************************************************************)
(* The editor of the web client (GeoNetwork.editor.EditorPanel, its tool   *)
(* bar and EditorTools): one panel per browser window, the form of the one *)
(* record that is edited, and the asynchronous requests it sends.          *)
(*                                                                         *)
(* Everything that reloads the editor goes through loadUrl, which hands    *)
(* the request to the Ext.Updater of the panel.  The updater replaces the  *)
(* content by a loading indicator before it sends the request and renders  *)
(* the answer when it comes, whatever was sent or rendered in the          *)
(* meantime; after 30 seconds it gives up listening, while the server goes *)
(* on.  Adding and deleting elements are requests of their own beside it.  *)
(***************************************************************************)
EXTENDS Naturals

CONSTANTS
    Window,       \* browser windows that show the editor
    NoWindow,     \* the window of no request
    Slot,         \* requests that may be in flight at once, of all windows
    Edit,         \* values that may be typed into the form, each typed once
    Element,      \* elements that may be added to the record and deleted
    MaxRequests   \* bound on the requests of a behaviour

VARIABLES
    panel,        \* panel[w]: what the editor of window w shows
    req,          \* req[s]: the request in flight in slot s
    sent,         \* how many requests were sent
    typed         \* the values that were typed so far

clientVars == <<panel, req, sent, typed>>

-----------------------------------------------------------------------------
Content == [values : SUBSET Edit, elems : SUBSET Element]
NoContent == [values |-> {}, elems |-> {}]

\* No version: a request that was sent without the fields of the form
NoVersion == 0
Version == 0 .. (MaxRequests + 1)

Reloads == {"edit", "save", "forget"}       \* answered with a form
Closes  == {"finish", "cancel"}             \* answered with closeCallback
ElementCalls == {"add", "attribute", "delete"}

Panel == [form : BOOLEAN, version : Version, shows : Content,
          open : BOOLEAN, toolbar : BOOLEAN]

\* version is that of the form the request was made from, md the content it
\* works on at the server, opened the version it was given and holds the copy
\* it made or took
Request == [stage : {"idle", "sent", "locked", "checked", "applied", "reading",
                     "read", "bumped", "taken", "ok", "error"},
            window : Window \cup {NoWindow},
            kind : Reloads \cup Closes \cup ElementCalls,
            version : Version, fields : SUBSET Edit, elem : SUBSET Element,
            md : Content, opened : Version, holds : 0 .. MaxRequests,
            listening : BOOLEAN]

IdleRequest == [stage |-> "idle", window |-> NoWindow, kind |-> "edit",
                version |-> NoVersion, fields |-> {}, elem |-> {},
                md |-> NoContent, opened |-> NoVersion, holds |-> 0,
                listening |-> TRUE]

ClientInit ==
    /\ panel = [w \in Window |-> [form |-> FALSE, version |-> NoVersion,
                                  shows |-> NoContent, open |-> FALSE,
                                  toolbar |-> TRUE]]
    /\ req = [s \in Slot |-> IdleRequest]
    /\ sent = 0
    /\ typed = {}

-----------------------------------------------------------------------------
(* Sending *)

\* A mutant: the form stays until the answer comes
Wiped_Later(p) == [p EXCEPT !.toolbar = FALSE]

\* The panel after showLoading: the form is no longer in the document
Wiped(p) == [p EXCEPT !.form = FALSE, !.version = NoVersion,
                      !.shows = NoContent, !.toolbar = FALSE]

\* The request loadUrl builds: the serialized form when there is one
FormRequest(w, kind) ==
    [IdleRequest EXCEPT !.stage = "sent", !.window = w, !.kind = kind,
                        !.version = panel[w].version,
                        !.fields = panel[w].shows.values]

Free(s) == /\ sent < MaxRequests
           /\ req[s].stage = "idle"

\* The request takes slot s; the panel p of the window loses its form
LoadUrl(w, s, kind, p) ==
    /\ Free(s)
    /\ req' = [req EXCEPT ![s] = FormRequest(w, kind)]
    /\ panel' = [panel EXCEPT ![w] = Wiped(p)]
    /\ sent' = sent + 1
    /\ UNCHANGED typed

\* init(): the editor is opened, or opened again, on the record
Open(w, s) == LoadUrl(w, s, "edit", [panel[w] EXCEPT !.open = TRUE])

\* save(): from the tool bar, or from a tab or a selection panel of the form,
\* which loadUrl does not disable
Save(w, s) == /\ panel[w].open
              /\ panel[w].toolbar \/ panel[w].form
              /\ LoadUrl(w, s, "save", panel[w])

\* finish(), reset() and cancel() of the tool bar
FromToolbar(w, s, kind) == /\ panel[w].open
                           /\ panel[w].toolbar
                           /\ LoadUrl(w, s, kind, panel[w])

Finish(w, s) == FromToolbar(w, s, "finish")
Reset(w, s)  == FromToolbar(w, s, "forget")
Cancel(w, s) == FromToolbar(w, s, "cancel")

\* doNewElementAjax and doRemoveElementAction: no version is sent
ElementRequest(w, s, kind, elem) ==
    /\ panel[w].open /\ panel[w].form
    /\ Free(s)
    /\ req' = [req EXCEPT ![s] =
                 [IdleRequest EXCEPT !.stage = "sent", !.window = w,
                                     !.kind = kind, !.elem = elem,
                                     !.version = panel[w].version]]
    /\ sent' = sent + 1
    /\ UNCHANGED <<panel, typed>>

AddElement(w, s) ==
    \E x \in Element \ panel[w].shows.elems : ElementRequest(w, s, "add", {x})

AddAttribute(w, s) == ElementRequest(w, s, "attribute", {})

RemoveElement(w, s) ==
    \E x \in panel[w].shows.elems : ElementRequest(w, s, "delete", {x})

\* The user fills in a field.  Closing the window with its own tool only hides it:
\* nothing happens but that its user sends nothing, as he may anyway.
Type(w) ==
    \E e \in Edit \ typed :
       /\ panel[w].open /\ panel[w].form
       /\ panel' = [panel EXCEPT ![w].shows.values = @ \cup {e}]
       /\ typed' = typed \cup {e}
       /\ UNCHANGED <<req, sent>>

-----------------------------------------------------------------------------
(* Receiving *)

Clear(s) == req' = [req EXCEPT ![s] = IdleRequest]

\* loadCallback with success: the answer is rendered, metadataLoaded reads the
\* version from the new form
Loaded(s) ==
    LET q == req[s]
        w == q.window
    IN
    /\ q.kind \in Reloads /\ q.stage = "ok" /\ q.listening
    /\ panel' = [panel EXCEPT ![w] = [@ EXCEPT !.form = TRUE,
                                               !.version = q.opened,
                                               !.shows = q.md,
                                               !.toolbar = TRUE]]
    /\ Clear(s)
    /\ UNCHANGED <<sent, typed>>

\* loadCallback without success: the indicator stays where the form was; the
\* alert of getError hides the window
LoadFailed(s) ==
    LET q == req[s]
        w == q.window
    IN
    /\ q.kind \in Reloads /\ q.stage = "error" /\ q.listening
    /\ \E stays \in {panel[w].open, FALSE} :
          panel' = [panel EXCEPT ![w] = [@ EXCEPT !.open = stays,
                                                  !.toolbar = TRUE]]
    /\ Clear(s)
    /\ UNCHANGED <<sent, typed>>

\* closeCallback, which does not look at the success of the request
Closed(s) ==
    LET q == req[s]
        w == q.window
        left == IF q.stage = "ok" THEN Wiped(panel[w]) ELSE panel[w]
    IN
    /\ q.kind \in Closes /\ q.stage \in {"ok", "error"} /\ q.listening
    /\ panel' = [panel EXCEPT ![w] = [left EXCEPT !.open = FALSE, !.toolbar = TRUE]]
    /\ Clear(s)
    /\ UNCHANGED <<sent, typed>>

\* The element the request was made for is still in the document
StillThere(w, q) == panel[w].form /\ panel[w].version = q.version

\* The answer of an element request is inserted next to, or replaces, the
\* element it was made for
ElementAnswered(s) ==
    LET q == req[s]
        w == q.window
        elems == panel[w].shows.elems
    IN
    /\ q.kind \in {"add", "delete"} /\ q.stage \in {"ok", "error"}
    /\ q.listening
    /\ panel' = IF q.stage = "ok" /\ StillThere(w, q)
                THEN [panel EXCEPT ![w].shows.elems =
                         IF q.kind = "add" THEN elems \cup q.elem
                                           ELSE elems \ q.elem]
                ELSE panel
    /\ Clear(s)
    /\ UNCHANGED <<sent, typed>>

\* A new attribute is shown by saving the form
AttributeAnswered(s) ==
    LET q == req[s]
        w == q.window
    IN
    /\ q.kind = "attribute" /\ q.stage \in {"ok", "error"} /\ q.listening
    /\ IF q.stage = "ok" /\ sent < MaxRequests
       THEN /\ req' = [req EXCEPT ![s] = FormRequest(w, "save")]
            /\ panel' = [panel EXCEPT ![w] = Wiped(@)]
            /\ sent' = sent + 1
            /\ UNCHANGED typed
       ELSE /\ Clear(s)
            /\ UNCHANGED <<panel, sent, typed>>

\* The client gives up after 30 seconds: the callback reports a failure
Timeout(s) ==
    LET q == req[s]
        w == q.window
    IN
    /\ q.stage \notin {"idle", "ok", "error"} /\ q.listening
    /\ panel' = CASE q.kind \in Reloads -> [panel EXCEPT ![w].toolbar = TRUE]
                  [] q.kind \in Closes  -> [panel EXCEPT ![w].toolbar = TRUE,
                                                         ![w].open = FALSE]
                  [] OTHER              -> panel
    /\ req' = [req EXCEPT ![s].listening = FALSE]
    /\ UNCHANGED <<sent, typed>>

\* The answer nobody listens to any more
Dropped(s) ==
    /\ req[s].stage \in {"ok", "error"} /\ ~req[s].listening
    /\ Clear(s)
    /\ UNCHANGED <<panel, sent, typed>>

-----------------------------------------------------------------------------
Receive(s) == \/ Loaded(s) \/ LoadFailed(s) \/ Closed(s)
              \/ ElementAnswered(s) \/ AttributeAnswered(s) \/ Dropped(s)

Send(w, s) == \/ Open(w, s) \/ Save(w, s) \/ Finish(w, s)
              \/ Reset(w, s) \/ Cancel(w, s)
              \/ AddElement(w, s) \/ AddAttribute(w, s) \/ RemoveElement(w, s)

ClientNext == \/ \E w \in Window : \/ Type(w)
                                  \/ \E s \in Slot : Send(w, s)
              \/ \E s \in Slot : Receive(s) \/ Timeout(s)

ClientTypeOK == /\ panel \in [Window -> Panel]
                /\ req \in [Slot -> Request]
                /\ sent \in 0 .. MaxRequests
                /\ typed \subseteq Edit
=============================================================================
