----------------------------- MODULE Documents -----------------------------
(***************************************************************************)
(* A browser tab that reads, edits and deletes a document, or creates new  *)
(* materials, over the API of Materials.  The tab may give up on a call    *)
(* that the API goes on serving, and send the same request again; answers  *)
(* and refetched documents arrive in any order.  What other tabs send      *)
(* meanwhile is Elsewhere.                                                 *)
(***************************************************************************)
EXTENDS Materials

CONSTANTS
    Reader,   \* tabs that may show the document
    Library,  \* tabs that may show the library with its form for new materials
    Typed,    \* bodies that users type
    MaxCalls  \* bound on the calls the tabs send

ASSUME DocumentsAssumption ==
    /\ Reader \cap Library = {}
    /\ Typed \subseteq Draft
    /\ \A body \in Draft : Prepare(body) \in Draft
    /\ Material # {} /\ Revision # {} /\ Key # {} /\ Typed # {}
    /\ MaxCalls \in Nat

VARIABLES
    tabs,   \* what each tab shows and what its open form holds
    drawn,  \* keys drawn with crypto.randomUUID()
    based,  \* for each call, the revision its user was looking at; no code has it
    sent    \* number of calls sent

tabVars == <<tabs, drawn, based, sent>>
documentsVars == <<materialsVars, tabVars>>

Tab == Reader \cup Library

\* The document that is open everywhere was created before.
Document == CHOOSE m \in Material : TRUE
FirstRevision == CHOOSE r \in Revision : TRUE
FirstKey == CHOOSE k \in Key : TRUE
FirstDraft == CHOOSE body \in Typed : TRUE

-----------------------------------------------------------------------------

(* What an attempt asks for: a new text, or none, for a revision, or none. *)
Wanted == [draft: Draft \cup {None}, expected: Revision \cup {None}]

FormStates == {"editing", "sending", "closing", "failed", "conflict"}

(* An open form: the editor, the dialog that confirms a deletion, or the   *)
(* form for a new material.  base is the revision its fields were filled   *)
(* from; request and key are what the last attempt was sent with; series,  *)
(* which no code has, the keys of the attempts that asked for the same.    *)
Form ==
    [kind: {"create", "update", "delete"}, base: Revision \cup {None},
     expected: Revision \cup {None}, draft: Draft \cup {None}, request: Wanted \cup {None},
     key: Key \cup {None}, state: FormStates, call: Call \cup {None}, series: SUBSET Key]

ASSUME NoneIsNoForm == None \notin Form \cup Wanted

NewForm(kind, base, draft) ==
    [kind |-> kind, base |-> base, expected |-> base, draft |-> draft,
     request |-> None, key |-> None, state |-> "editing", call |-> None, series |-> {}]

(* shown is the cached document, failed its query's error; fetch is a read *)
(* of the API that has not arrived yet.                                    *)
Screen ==
    [gone: BOOLEAN, shown: Revision \cup {None}, failed: BOOLEAN,
     fetch: Revision \cup {None, "missing"}, form: Form \cup {None},
     saved: Revision \cup {None}]

DocumentsInit ==
    /\ materials = [m \in Material |->
           IF m = Document THEN [current |-> FirstRevision, deleted |-> FALSE] ELSE None]
    /\ revisions = [r \in Revision |->
           IF r = FirstRevision
           THEN [material |-> Document, number |-> 1, content |-> Prepare(FirstDraft)]
           ELSE None]
    /\ chunks = [r \in Revision |->
           IF r = FirstRevision THEN ChunkBody(Prepare(FirstDraft)) ELSE None]
    /\ receipts = [k \in Key |->
           IF k = FirstKey
           THEN [fingerprint |-> [op |-> "create", material |-> None, expected |-> None,
                                  content |-> Prepare(FirstDraft)],
                 material |-> Document, revision |-> FirstRevision]
           ELSE None]
    /\ calls = [c \in Call |-> None]
    /\ \E open \in Tab :
           tabs = [t \in Tab |->
               [gone |-> t # open, shown |-> IF t \in Reader THEN FirstRevision ELSE None,
                failed |-> FALSE, fetch |-> None,
                form |-> IF t = open /\ t \in Library
                         THEN NewForm("create", None, FirstDraft) ELSE None,
                saved |-> None]]
    /\ drawn = {FirstKey}
    /\ based = [c \in Call |-> None]
    /\ sent = 0

-----------------------------------------------------------------------------

FormOf(t) == tabs[t].form
Open(t) == ~tabs[t].gone /\ FormOf(t) # None
Resting(t) == Open(t) /\ FormOf(t).state \in {"editing", "failed", "conflict"}

OnlyTab(t, screen) ==
    /\ tabs' = [tabs EXCEPT ![t] = screen]
    /\ UNCHANGED <<materialsVars, drawn, based, sent>>

(* "Edit": the editor freezes the revision its fields are filled from.     *)
OpenEditor(t) ==
    /\ t \in Reader /\ ~tabs[t].gone /\ FormOf(t) = None
    /\ OnlyTab(t, [tabs[t] EXCEPT !.form =
                       NewForm("update", tabs[t].shown, revisions[tabs[t].shown].content)])

(* "Delete": the dialog forgets an earlier request.                        *)
OpenDialog(t) ==
    /\ t \in Reader /\ ~tabs[t].gone /\ FormOf(t) = None
    /\ OnlyTab(t, [tabs[t] EXCEPT !.form = NewForm("delete", None, None)])

\* The fields stay enabled while a call is under way.
TypeAnytime(t, body) ==
    /\ Open(t) /\ FormOf(t).kind # "delete"
    /\ body # FormOf(t).draft
    /\ OnlyTab(t, [tabs[t] EXCEPT !.form.draft = body])

(* The user changes the body; the fields are disabled during a call.       *)
Type(t, body) ==
    /\ Resting(t) /\ FormOf(t).kind # "delete"
    /\ body # FormOf(t).draft
    /\ OnlyTab(t, [tabs[t] EXCEPT !.form.draft = body])

(* Cancelling closes the editor or dialog and loses its request.  Hiding   *)
(* the form for a new material loses nothing.                              *)
Cancel(t) ==
    /\ Resting(t) /\ FormOf(t).kind # "create"
    /\ OnlyTab(t, [tabs[t] EXCEPT !.form = None])

-----------------------------------------------------------------------------

DrawKey == CHOOSE k \in Key \ drawn : TRUE

\* A new key for every attempt.
KeyPerAttempt(t, wanted) == DrawKey

(* An attempt that asks for the same as the last one is sent under its     *)
(* key, any other under a new one.                                         *)
KeyFor(t, wanted) ==
    IF FormOf(t).request = wanted THEN FormOf(t).key ELSE DrawKey

Send(t, c, request, base) ==
    LET wanted == [draft |-> request.draft, expected |-> request.expected]
        key == KeyFor(t, wanted)
    IN  /\ sent < MaxCalls
        /\ FormOf(t).request = wanted \/ drawn # Key
        /\ Arrive(c, [request EXCEPT !.key = key])
        /\ tabs' = [tabs EXCEPT ![t].form.request = wanted, ![t].form.key = key,
                                ![t].form.state = "sending", ![t].form.call = c,
                                ![t].form.series =
                                    IF FormOf(t).request = wanted THEN @ \cup {key} ELSE {key}]
        /\ drawn' = drawn \cup {key}
        /\ based' = [based EXCEPT ![c] = base]
        /\ sent' = sent + 1
        /\ UNCHANGED rows

Save(t, c) ==
    /\ Resting(t) /\ FormOf(t).kind \in {"create", "update"}
    /\ Send(t, c,
            [op |-> FormOf(t).kind,
             material |-> IF FormOf(t).kind = "create" THEN None ELSE Document,
             expected |-> FormOf(t).expected, draft |-> FormOf(t).draft, key |-> None],
            FormOf(t).base)

(* The revision shown at the first confirmation stays for every repetition *)
(* of it.                                                                  *)
Confirmed(t) ==
    IF FormOf(t).request = None THEN tabs[t].shown ELSE FormOf(t).request.expected

ConfirmDelete(t, c) ==
    /\ Resting(t) /\ FormOf(t).kind = "delete"
    /\ tabs[t].fetch = None
    /\ Send(t, c, [op |-> "delete", material |-> Document, expected |-> Confirmed(t),
                   draft |-> None, key |-> None], Confirmed(t))

(* A tab elsewhere saves or deletes what it was showing, an earlier         *)
(* revision perhaps.                                                       *)
Elsewhere(c) ==
    \E base \in Revision, op \in {"update", "delete"}, body \in Typed :
        /\ sent < MaxCalls /\ drawn # Key
        /\ revisions[base] # None /\ revisions[base].material = Document
        /\ Arrive(c, [op |-> op, material |-> Document, expected |-> base,
                      draft |-> IF op = "delete" THEN None ELSE body, key |-> DrawKey])
        /\ drawn' = drawn \cup {DrawKey}
        /\ based' = [based EXCEPT ![c] = base]
        /\ sent' = sent + 1
        /\ UNCHANGED <<rows, tabs>>

(* The browser reports a failed connection while the API may still be      *)
(* serving the call, or its answer is lost.                                *)
LoseConnection(t) ==
    /\ Open(t) /\ FormOf(t).state = "sending"
    /\ OnlyTab(t, [tabs[t] EXCEPT !.form.state = "failed", !.form.call = None])

-----------------------------------------------------------------------------

(* What the API answers to a read of the document now.                     *)
ReadDocument == IF Live(Document) THEN Current(Document) ELSE "missing"

\* Invalidation joins a read that is already under way.
RefetchJoined(screen) ==
    [screen EXCEPT !.fetch = IF @ = None THEN ReadDocument ELSE @]

(* Invalidation cancels a read under way and starts another.               *)
RefetchFrom(screen) == [screen EXCEPT !.fetch = ReadDocument]

Failed(screen, kind) ==
    [screen EXCEPT !.form.call = None,
                   !.form.state = IF kind \in {"conflict", "revision_conflict"}
                                  THEN "conflict" ELSE "failed"]

(* A form's own call has been answered.  A saved edit keeps the editor     *)
(* busy until the document has been read again; a deletion leaves the      *)
(* screen and drops the cached document; a created material empties the    *)
(* form.                                                                   *)
Answered(screen, reply) ==
    LET form == screen.form
    IN  CASE reply.kind # "saved" -> Failed(screen, reply.kind)
          [] reply.kind = "saved" /\ form.kind = "update" ->
                 [RefetchFrom(screen) EXCEPT !.form.state = "closing", !.form.call = None,
                                             !.saved = reply.revision]
          [] reply.kind = "saved" /\ form.kind = "delete" ->
                 [screen EXCEPT !.gone = TRUE, !.form = None, !.shown = None, !.fetch = None]
          [] reply.kind = "saved" /\ form.kind = "create" ->
                 [screen EXCEPT !.form = NewForm("create", None, FirstDraft),
                                !.saved = reply.revision]

(* The answer arrives at the form that waits for it, or at nobody.         *)
Deliver(c) ==
    /\ Leave(c)
    /\ tabs' = [t \in Tab |->
           IF FormOf(t) # None /\ FormOf(t).call = c
           THEN Answered(tabs[t], calls[c].reply)
           ELSE tabs[t]]
    /\ based' = [based EXCEPT ![c] = None]
    /\ UNCHANGED <<rows, drawn, sent>>

(* "Discard and load the latest", offered after a 409: the draft and the   *)
(* expected revision are replaced together.                                *)
Reload(t) ==
    /\ Resting(t) /\ FormOf(t).kind = "update" /\ FormOf(t).state = "conflict"
    /\ Live(Document)
    /\ OnlyTab(t, [tabs[t] EXCEPT !.form =
                       NewForm("update", Current(Document), revisions[Current(Document)].content)])

(* "Cancel and look at the latest", offered after a 409 of a deletion.     *)
RecoverDelete(t) ==
    /\ Resting(t) /\ FormOf(t).kind = "delete" /\ FormOf(t).state = "conflict"
    /\ tabs[t].fetch = None
    /\ OnlyTab(t, IF Live(Document)
                  THEN [tabs[t] EXCEPT !.shown = Current(Document), !.failed = FALSE,
                                       !.form = None]
                  ELSE [tabs[t] EXCEPT !.gone = TRUE, !.form = None])

(* The tab gains focus, or the user asks for the document again.           *)
Refetch(t) ==
    /\ t \in Reader /\ ~tabs[t].gone /\ tabs[t].fetch = None
    /\ OnlyTab(t, [tabs[t] EXCEPT !.fetch = ReadDocument])

Closed(form) == IF form # None /\ form.state = "closing" THEN None ELSE form

\* The open editor takes over the revision that has arrived.
FollowDocument(t) ==
    /\ tabs[t].fetch # None
    /\ OnlyTab(t, IF tabs[t].fetch = "missing"
                  THEN [tabs[t] EXCEPT !.fetch = None, !.gone = TRUE, !.form = None]
                  ELSE [tabs[t] EXCEPT !.shown = tabs[t].fetch, !.failed = FALSE, !.fetch = None,
                           !.form = IF @ # None /\ @.kind = "update" /\ @.state # "closing"
                                    THEN [@ EXCEPT !.expected = tabs[t].fetch] ELSE Closed(@)])

(* The document arrives.  An open editor keeps the revision it was opened  *)
(* with; a deleted document takes the screen with everything on it.        *)
FetchArrives(t) ==
    /\ tabs[t].fetch # None
    /\ OnlyTab(t, IF tabs[t].fetch = "missing"
                  THEN [tabs[t] EXCEPT !.fetch = None, !.gone = TRUE, !.form = None]
                  ELSE [tabs[t] EXCEPT !.shown = tabs[t].fetch, !.failed = FALSE, !.fetch = None,
                                       !.form = Closed(@)])

(* The read fails: the cached document stays, marked as such.              *)
FetchFails(t) ==
    /\ tabs[t].fetch # None
    /\ OnlyTab(t, [tabs[t] EXCEPT !.fetch = None, !.failed = TRUE, !.form = Closed(@)])

-----------------------------------------------------------------------------

Use(t) ==
    \/ OpenEditor(t) \/ OpenDialog(t) \/ Cancel(t)
    \/ \E body \in Typed : Type(t, body)
    \/ \E c \in Call : Save(t, c) \/ ConfirmDelete(t, c)
    \/ LoseConnection(t)
    \/ Reload(t) \/ RecoverDelete(t)
    \/ Refetch(t) \/ FetchArrives(t) \/ FetchFails(t)

DocumentsNext ==
    \/ \E t \in Tab : Use(t)
    \/ \E c \in Call : Elsewhere(c) \/ Deliver(c) \/ (Serve(c) /\ UNCHANGED tabVars)

DocumentsSpec == DocumentsInit /\ [][DocumentsNext]_documentsVars

-----------------------------------------------------------------------------

(* Screens hold what their components can hold, and keys in use have been  *)
(* drawn.                                                                  *)
DocumentsTypeOK ==
    /\ tabs \in [Tab -> Screen]
    /\ drawn \subseteq Key
    /\ based \in [Call -> Revision \cup {None}]
    /\ sent \in 0..MaxCalls
    /\ \A c \in Call : calls[c] # None => RequestOf(c).key \in drawn

(* No two different requests of the browser share a key, so the API never  *)
(* answers one with "used for another request".                            *)
KeysNameOneRequest ==
    \A c \in Call : At(c, "answered") => calls[c].reply.kind # "conflict"

(* After an edit of its own was reported as saved, a tab without an open   *)
(* form shows that revision or a later one, or says that it could not be   *)
(* read, whatever reads of the document were under way.                    *)
OwnSaveIsShown ==
    \A t \in Reader :
        ~tabs[t].gone /\ FormOf(t) = None /\ ~tabs[t].failed /\ tabs[t].saved # None
        => revisions[tabs[t].shown].number >= revisions[tabs[t].saved].number

(* What is submitted again and again until an answer comes is carried out  *)
(* once, and is not refused because an attempt nobody heard of had         *)
(* succeeded.                                                              *)
RepeatingCountsOnce ==
    \A t \in Tab : Open(t) =>
        LET done == {k \in FormOf(t).series : receipts[k] # None}
            c == FormOf(t).call
        IN  /\ Cardinality(done) <= 1
            /\ done # {} /\ c # None /\ At(c, "answered")
                => calls[c].reply.kind \in {"saved", "unavailable"}

(* Forms may be submitted again after any failure.                         *)
FormsRepeatSafely == DocumentsTypeOK /\ KeysNameOneRequest /\ RepeatingCountsOnce

(* A document changes only under a call whose user had the replaced        *)
(* revision before them: an edit was typed into its text, a deletion was   *)
(* confirmed while it was shown.  Neither a refetch that arrives during    *)
(* editing nor another tab's save can slip under a draft.                  *)
NobodyOverwritesUnseen ==
    [][\A m \in Material : materials[m] # None /\ materials'[m] # materials[m] =>
          \E c \in Call :
              /\ At(c, "writing") /\ calls'[c].step = "answered"
              /\ based[c] = Current(m)
      ]_documentsVars

(* When a form is told that its text was saved, the text in its fields is  *)
(* the text of the revision it is told about, also when the answer comes   *)
(* to a repetition of the request and the document has moved on.           *)
ReportedTextIsStored ==
    [][\A t \in Tab, c \in Call :
          /\ Open(t) /\ FormOf(t).kind # "delete" /\ FormOf(t).call = c
          /\ At(c, "answered") /\ calls'[c] = None /\ calls[c].reply.kind = "saved"
          => revisions[calls[c].reply.revision].content = Prepare(FormOf(t).draft)
      ]_documentsVars
=============================================================================
