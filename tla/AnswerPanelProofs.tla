------------------------- MODULE AnswerPanelProofs -------------------------
(***************************************************************************)
(* What AnswerPanel keeps true, for any number of requests, policies and   *)
(* reads: consent comes first and is honoured to the end, a question is    *)
(* admitted once, and there is always a control that leads on.             *)
(***************************************************************************)
EXTENDS AnswerPanel, FiniteSetTheorems, SequenceTheorems, TLAPS

-----------------------------------------------------------------------------
(* The invariant.  p is a panel, told the newest epoch it was told, rows   *)
(* what is admitted and epoch the epoch of the owner's consent.            *)

Types ==
    /\ consent \in [granted: BOOLEAN, epoch: Epoch, policy: Policy \cup {None}]
    /\ policy \in Policy
    /\ admitted \in [Request -> Row \cup {None}]
    /\ page \in Page
    /\ adrift \subseteq Call /\ IsFiniteSet(adrift)
    /\ learned \in Epoch /\ questions \in Nat /\ acts \in 0..MaxActs /\ losses \in 0..MaxLosses

\* The epoch rises once for an act, and for nothing else.
Unspent(calls) == {c \in calls : c.kind \in {"grant", "revoke"}}
Owed(p) ==
    (IF p.submit.state = "granting" /\ p.submit.call = Unserved THEN 1 ELSE 0)
    + (IF p.revoke.state = "pending" /\ p.revoke.call = Unserved THEN 1 ELSE 0)
ActsCover == consent.epoch + Owed(page) + Cardinality(Unspent(adrift)) <= acts

\* A question that is asked draws one id, and nothing else draws one.
Drawing(rows, p, calls) == {id \in Request :
    \/ rows[id] # None
    \/ id \in Ids(p)
    \/ p.submit.request # None /\ p.submit.request.id = id
    \/ \E c \in calls : c.request # None /\ c.request.id = id}
QuestionsCover == IsFiniteSet(Drawn) /\ Cardinality(Drawn) <= questions

\* A call on the far side of an approval.
Sends(c) == c.kind \in {"granted", "generate"}

ConsentOK ==
    /\ consent.granted => consent.epoch > 0
    /\ \A c \in adrift : Sends(c) => consent.epoch > 0

Told(config, epoch) ==
    config \in Configuration =>
        /\ config.epoch <= epoch
        /\ config.consented => config.epoch > 0

ConfigOK(p, told, epoch) ==
    /\ p.config.data = None => p.config.failed \/ p.config.fetch # None
    /\ Told(p.config.data, epoch) /\ Told(p.config.fetch, epoch)
    /\ told <= epoch
    /\ p.config.fetch \in Configuration => p.config.fetch.epoch >= told
    /\ p.config.data # None /\ ~p.config.failed =>
           \/ p.config.data.epoch >= told
           \/ p.submit.state = "checking"
           \/ p.turns = <<>> /\ p.config.fetch # None

SubmitOK(p, rows, epoch) ==
    /\ p.submit.state # "idle" => p.submit.request # None
    /\ p.submit.state = "granting" =>
           /\ p.submit.wanted # None /\ p.submit.call # None
           /\ p.submit.call \in Epoch => epoch > 0 /\ p.submit.call <= epoch
    /\ p.submit.state = "checking" =>
           p.config.fetch # None /\ p.approval = None /\ epoch > 0 /\ p.submit.call = None
    /\ p.submit.state = "generating" =>
           /\ p.approval = None /\ epoch > 0 /\ p.submit.call # None
           /\ p.submit.call \in Epoch => rows[p.submit.request.id] # None

RevokeOK(p, epoch) ==
    p.revoke.state = "pending" =>
        /\ p.revoke.epoch # None /\ p.revoke.call # None
        /\ p.revoke.call \in Epoch => p.revoke.call <= epoch

TurnsOK(p, rows) ==
    \A i \in DOMAIN p.turns :
        /\ i < Len(p.turns) => p.turns[i].accepted
        /\ p.turns[i].accepted => rows[p.turns[i].request.id] # None

Known(result) == result.data # None \/ result.failed \/ result.fetch # None
Fits(id, p, rows) == p.config.data # None => rows[id].epoch >= p.config.data.epoch

RowsOK(p, rows) == \A id \in Request : Known(p.results[id]) => rows[id] # None
FitsOK(p, rows) ==
    \A id \in Request :
        p.results[id].data = "PUBLISHED" \/ p.results[id].fetch = "PUBLISHED" => Fits(id, p, rows)
ReadsOK(p) == \A id \in Request : Reads(p, id) => Known(p.results[id])

StreamOK(p, rows) ==
    /\ p.stream # None =>
           /\ Following(p)
           /\ p.stream.event = "PUBLISHED" => Fits(Latest(p).request.id, p, rows)
    /\ Following(p) /\ p.stream = None => p.lost = Latest(p).request.id

PageOK(p, told, rows, epoch) ==
    /\ ConfigOK(p, told, epoch) /\ SubmitOK(p, rows, epoch) /\ RevokeOK(p, epoch)
    /\ TurnsOK(p, rows) /\ RowsOK(p, rows) /\ FitsOK(p, rows) /\ ReadsOK(p) /\ StreamOK(p, rows)

PanelInv ==
    /\ Types /\ ActsCover /\ QuestionsCover /\ ConsentOK
    /\ PageOK(page, learned, admitted, consent.epoch)

-----------------------------------------------------------------------------
(* Types *)

LEMMA Apart ==
  /\ None # Unserved /\ None # Refused /\ Unserved # Refused
  /\ \A x \in {None, Unserved, Refused} :
         /\ x \notin Nat /\ x \notin Epoch /\ x \notin Reports /\ x \notin Request
         /\ x \notin Policy /\ x \notin Row /\ x \notin Configuration
         /\ x \notin Question /\ x \notin Approval /\ x \notin Stream
  /\ MaxActs \in Nat /\ MaxLosses \in Nat /\ StreamReads \in Nat \ {0}
  /\ Epoch \subseteq Nat /\ 0 \in Epoch
  <1>1. Epoch \subseteq Nat /\ 0 \in Epoch
    BY AnswerPanelAssumption DEF Epoch
  <1>2. ASSUME NEW x \in {None, Unserved, Refused}
        PROVE  /\ x \notin Nat /\ x \notin Request /\ x \notin Policy
               /\ x \notin Reports /\ x \notin Row /\ x \notin Configuration
               /\ x \notin Question /\ x \notin Approval /\ x \notin Stream
    BY AnswerPanelAssumption, NoneIsNoRecord
  <1>3. QED
    BY <1>1, <1>2, AnswerPanelAssumption

LEMMA PageFields ==
  ASSUME NEW p \in Page
  PROVE  /\ p.config \in ConfigurationQuery /\ p.turns \in Seq(Turn)
         /\ p.results \in [Request -> Result] /\ p.submit \in Submission
         /\ p.approval \in Approval \cup {None} /\ p.revoke \in Revocation
         /\ p.seen \in Epoch \cup {None} /\ p.stream \in Stream \cup {None}
         /\ p.lost \in Request \cup {None}
  BY DEF Page

LEMMA TurnFields ==
  ASSUME NEW p \in Page, NEW i \in DOMAIN p.turns
  PROVE  /\ p.turns[i] \in Turn /\ p.turns[i].request \in Question
         /\ p.turns[i].request.id \in Request /\ p.turns[i].accepted \in BOOLEAN
         /\ i \in 1..Len(p.turns) /\ Len(p.turns) \in Nat
  <1>1. p.turns \in Seq(Turn)
    BY PageFields
  <1>2. DOMAIN p.turns = 1..Len(p.turns) /\ Len(p.turns) \in Nat
    BY <1>1, LenProperties
  <1>3. p.turns[i] \in Turn
    BY <1>1, <1>2
  <1>4. QED
    BY <1>2, <1>3 DEF Turn, Question

LEMMA LatestFields ==
  ASSUME NEW p \in Page, p.turns # <<>>
  PROVE  /\ Len(p.turns) \in DOMAIN p.turns /\ Latest(p) = p.turns[Len(p.turns)]
         /\ Latest(p) \in Turn /\ Latest(p).request \in Question
         /\ Latest(p).request.id \in Request /\ Latest(p).request.id \in Ids(p)
  <1>1. p.turns \in Seq(Turn)
    BY PageFields
  <1>2. DOMAIN p.turns = 1..Len(p.turns) /\ Len(p.turns) \in Nat \ {0}
    BY <1>1, LenProperties, EmptySeq
  <1>3. Len(p.turns) \in DOMAIN p.turns
    BY <1>2
  <1>4. QED
    BY <1>3, TurnFields DEF Latest, Ids

LEMMA IdsAreRequests ==
  ASSUME NEW p \in Page
  PROVE  Ids(p) \subseteq Request
  BY TurnFields DEF Ids

LEMMA ResultFields ==
  ASSUME NEW p \in Page, NEW id \in Request
  PROVE  /\ p.results[id] \in Result
         /\ p.results[id].data \in Reports \cup {None} /\ p.results[id].failed \in BOOLEAN
         /\ p.results[id].fetch \in Reports \cup {None, Unserved}
         /\ p.results[id].reconnect \in BOOLEAN
  <1>1. p.results[id] \in Result
    BY PageFields
  <1>2. QED
    BY <1>1 DEF Result

LEMMA ResultWith ==
  ASSUME NEW result \in Result, NEW report \in Reports
  PROVE  LET new == [result EXCEPT !.data = report, !.failed = FALSE]
         IN  /\ new \in Result /\ new.data = report /\ new.failed = FALSE
             /\ new.fetch = result.fetch
  BY DEF Result

LEMMA ConfigFields ==
  ASSUME NEW p \in Page
  PROVE  /\ p.config.data \in Configuration \cup {None} /\ p.config.failed \in BOOLEAN
         /\ p.config.fetch \in Configuration \cup {None, Unserved}
  BY PageFields DEF ConfigurationQuery

-----------------------------------------------------------------------------
(* Rendering.  p is the panel after an update, when page was before it.    *)

Rendered(p, again) == Follow(FetchEnabled(EndConversation(p)), again)

LEMMA RenderIs ==
  ASSUME NEW p, NEW again, RenderAfter(p, again)
  PROVE  page' = Rendered(p, again)
  BY DEF RenderAfter, Rendered

Ready(p, told, rows, epoch) ==
    /\ ConfigOK(p, told, epoch) /\ SubmitOK(p, rows, epoch) /\ RevokeOK(p, epoch)
    /\ TurnsOK(p, rows) /\ RowsOK(p, rows)
    /\ SameEpoch(p) =>
           /\ FitsOK(p, rows)
           /\ \A id \in Request : Reads(p, id) /\ Reads(page, id) => Known(p.results[id])
           /\ Following(p) /\ Following(page)
                  /\ Latest(page).request.id = Latest(p).request.id =>
                  /\ p.stream # None /\ p.stream.event = "PUBLISHED" =>
                         Fits(Latest(p).request.id, p, rows)
                  /\ p.stream = None => p.lost = Latest(p).request.id

LEMMA EndingFacts ==
  ASSUME NEW p \in Page
  PROVE  /\ EndConversation(p) \in Page
         /\ EndConversation(p).config = p.config /\ EndConversation(p).results = p.results
         /\ EndConversation(p).submit = p.submit /\ EndConversation(p).approval = p.approval
         /\ EndConversation(p).revoke = p.revoke /\ EndConversation(p).stream = p.stream
         /\ EndConversation(p).lost = p.lost
         /\ EndConversation(p).turns = p.turns \/ EndConversation(p).turns = <<>>
  <1>1. CASE p.config.data = None \/ p.config.failed
    BY <1>1 DEF EndConversation
  <1>2. CASE ~(p.config.data = None \/ p.config.failed)
    <2>1. p.config.data.epoch \in Epoch
      BY <1>2, ConfigFields DEF Configuration
    <2>2. <<>> \in Seq(Turn)
      BY EmptySeq
    <2>3. CASE p.seen \notin {None, p.config.data.epoch} /\ ~p.config.data.consented
      <3>1. EndConversation(p) = [p EXCEPT !.turns = <<>>, !.seen = p.config.data.epoch]
        BY <1>2, <2>3 DEF EndConversation
      <3>2. QED
        BY <2>1, <2>2, <3>1 DEF Page
    <2>4. CASE ~(p.seen \notin {None, p.config.data.epoch} /\ ~p.config.data.consented)
      <3>1. EndConversation(p) = [p EXCEPT !.seen = p.config.data.epoch]
        BY <1>2, <2>4 DEF EndConversation
      <3>2. QED
        BY <2>1, <3>1 DEF Page
    <2>5. QED
      BY <2>3, <2>4
  <1>3. QED
    BY <1>1, <1>2

LEMMA FetchingFacts ==
  ASSUME NEW p \in Page
  PROVE  /\ FetchEnabled(p) \in Page
         /\ FetchEnabled(p).config = p.config /\ FetchEnabled(p).turns = p.turns
         /\ FetchEnabled(p).submit = p.submit /\ FetchEnabled(p).approval = p.approval
         /\ FetchEnabled(p).revoke = p.revoke /\ FetchEnabled(p).stream = p.stream
         /\ FetchEnabled(p).lost = p.lost /\ FetchEnabled(p).seen = p.seen
         /\ \A id \in Request :
                /\ FetchEnabled(p).results[id].data = Keyed(p, id).data
                /\ FetchEnabled(p).results[id].failed = Keyed(p, id).failed
                /\ FetchEnabled(p).results[id].fetch =
                       IF /\ Reads(p, id) /\ ~(Reads(page, id) /\ SameEpoch(p))
                          /\ Keyed(p, id).fetch = None
                       THEN Unserved ELSE Keyed(p, id).fetch
  <1> DEFINE new(id) == Reads(p, id) /\ ~(Reads(page, id) /\ SameEpoch(p)) /\ Keyed(p, id).fetch = None
             result(id) == IF new(id) THEN [Keyed(p, id) EXCEPT !.fetch = Unserved]
                           ELSE Keyed(p, id)
  <1>1. FetchEnabled(p) = [p EXCEPT !.results = [id \in Request |-> result(id)]]
    BY DEF FetchEnabled
  <1>2. ASSUME NEW id \in Request
        PROVE  /\ result(id) \in Result /\ result(id).data = Keyed(p, id).data
               /\ result(id).failed = Keyed(p, id).failed
               /\ result(id).fetch = IF new(id) THEN Unserved ELSE Keyed(p, id).fetch
    <2>1. Keyed(p, id) \in Result
      BY ResultFields DEF Keyed, NoResult, Result
    <2> HIDE DEF new
    <2>2. QED
      BY <2>1 DEF Result
  <1> HIDE DEF result
  <1>3. [id \in Request |-> result(id)] \in [Request -> Result]
    BY <1>2
  <1>4. /\ FetchEnabled(p) \in Page
        /\ FetchEnabled(p).results = [id \in Request |-> result(id)]
        /\ FetchEnabled(p).config = p.config /\ FetchEnabled(p).turns = p.turns
        /\ FetchEnabled(p).submit = p.submit /\ FetchEnabled(p).approval = p.approval
        /\ FetchEnabled(p).revoke = p.revoke /\ FetchEnabled(p).stream = p.stream
        /\ FetchEnabled(p).lost = p.lost /\ FetchEnabled(p).seen = p.seen
    BY <1>1, <1>3 DEF Page
  <1>5. QED
    BY <1>2, <1>4

LEMMA FollowFacts ==
  ASSUME NEW p \in Page, NEW again \in BOOLEAN
  PROVE  /\ Follow(p, again) \in Page
         /\ Follow(p, again).config = p.config /\ Follow(p, again).turns = p.turns
         /\ Follow(p, again).submit = p.submit /\ Follow(p, again).approval = p.approval
         /\ Follow(p, again).revoke = p.revoke /\ Follow(p, again).results = p.results
         /\ \/ ~Following(p) /\ Follow(p, again).stream = None
            \/ /\ Following(p)
               /\ Follow(p, again).stream # None /\ Follow(p, again).stream.event = None
            \/ /\ Following(p) /\ Following(page) /\ SameEpoch(p)
               /\ Latest(page).request.id = Latest(p).request.id
               /\ Follow(p, again).stream = p.stream /\ Follow(p, again).lost = p.lost
  <1> DEFINE same == /\ Following(page) /\ SameEpoch(p)
                     /\ Latest(page).request.id = Latest(p).request.id
             start == [left |-> StreamReads, event |-> None]
  <1>1. start \in Stream /\ start # None /\ start.event = None
    BY Apart DEF Stream
  <1>2. CASE ~Following(p)
    <2>1. Follow(p, again) = [p EXCEPT !.stream = None]
      BY <1>2 DEF Follow
    <2>2. QED
      BY <1>2, <2>1 DEF Page
  <1>3. CASE Following(p) /\ same /\ ~again
    <2>1. Follow(p, again) = p
      BY <1>3 DEF Follow
    <2>2. QED
      BY <1>3, <2>1
  <1>4. CASE Following(p) /\ ~(same /\ ~again)
    <2>1. Follow(p, again) = [p EXCEPT !.stream = start, !.lost = None]
      BY <1>4 DEF Follow
    <2> HIDE DEF start
    <2>2. QED
      BY <1>1, <1>4, <2>1 DEF Page
  <1>5. QED
    BY <1>2, <1>3, <1>4

\* What a rendering leaves of its parts.
LEMMA RenderedOK ==
  ASSUME NEW p \in Page, NEW again \in BOOLEAN, NEW told, NEW rows, NEW epoch, page \in Page,
         Ready(p, told, rows, epoch)
  PROVE  /\ Rendered(p, again) \in Page
         /\ Rendered(p, again).submit = p.submit /\ Rendered(p, again).revoke = p.revoke
         /\ Ids(Rendered(p, again)) \subseteq Ids(p)
         /\ PageOK(Rendered(p, again), told, rows, epoch)
  <1>1. PICK c \in Page :
            /\ c = EndConversation(p)
            /\ c.config = p.config /\ c.results = p.results /\ c.submit = p.submit
            /\ c.approval = p.approval /\ c.revoke = p.revoke /\ c.stream = p.stream
            /\ c.lost = p.lost /\ (c.turns = p.turns \/ c.turns = <<>>)
    BY EndingFacts
  <1>2. PICK f \in Page :
            /\ f = FetchEnabled(c)
            /\ f.config = c.config /\ f.turns = c.turns /\ f.submit = c.submit
            /\ f.approval = c.approval /\ f.revoke = c.revoke /\ f.stream = c.stream
            /\ f.lost = c.lost
            /\ \A id \in Request :
                   /\ f.results[id].data = Keyed(c, id).data
                   /\ f.results[id].failed = Keyed(c, id).failed
                   /\ f.results[id].fetch =
                          IF /\ Reads(c, id) /\ ~(Reads(page, id) /\ SameEpoch(c))
                             /\ Keyed(c, id).fetch = None
                          THEN Unserved ELSE Keyed(c, id).fetch
    BY FetchingFacts
  <1>3. PICK q \in Page :
            /\ q = Follow(f, again)
            /\ q.config = f.config /\ q.turns = f.turns /\ q.submit = f.submit
            /\ q.approval = f.approval /\ q.revoke = f.revoke /\ q.results = f.results
            /\ \/ ~Following(f) /\ q.stream = None
               \/ Following(f) /\ q.stream # None /\ q.stream.event = None
               \/ /\ Following(f) /\ Following(page) /\ SameEpoch(f)
                  /\ Latest(page).request.id = Latest(f).request.id
                  /\ q.stream = f.stream /\ q.lost = f.lost
    BY FollowFacts
  <1>4. q = Rendered(p, again)
    BY <1>1, <1>2, <1>3 DEF Rendered
  <1>5. q.config = p.config /\ q.submit = p.submit /\ q.approval = p.approval /\ q.revoke = p.revoke
    BY <1>1, <1>2, <1>3
  <1>6. q.turns = p.turns \/ q.turns = <<>>
    BY <1>1, <1>2, <1>3
  <1>7. Ids(q) \subseteq Ids(p)
    <2>1. DOMAIN <<>> = {}
      OBVIOUS
    <2>2. QED
      BY <1>6, <2>1 DEF Ids
  <1>8. ConfigOK(q, told, epoch) /\ SubmitOK(q, rows, epoch) /\ RevokeOK(q, epoch)
    BY <1>5, <1>6 DEF Ready, ConfigOK, SubmitOK, RevokeOK
  <1>9. TurnsOK(q, rows)
    <2>1. DOMAIN <<>> = {}
      OBVIOUS
    <2>2. QED
      BY <1>6, <2>1 DEF Ready, TurnsOK
  <1>10. /\ Consented(q) <=> Consented(p)
         /\ Consented(c) <=> Consented(p)
         /\ SameEpoch(c) <=> SameEpoch(p)
         /\ SameEpoch(f) <=> SameEpoch(p)
    BY <1>1, <1>2, <1>5 DEF Consented, SameEpoch
  <1>11. ASSUME NEW id \in Request
         PROVE  /\ Reads(q, id) <=> Reads(c, id)
                /\ Reads(q, id) => Reads(p, id) /\ id \in Ids(c)
    <2>1. q.turns = c.turns
      BY <1>2, <1>3
    <2>2. Reads(q, id) <=> Reads(c, id)
      BY <1>10, <2>1 DEF Reads
    <2>3. ASSUME Reads(q, id) PROVE Reads(p, id) /\ id \in Ids(c)
      <3>1. DOMAIN <<>> = {}
        OBVIOUS
      <3>2. QED
        BY <1>6, <1>10, <2>1, <2>3, <3>1 DEF Reads, Ids
    <2>4. QED
      BY <2>2, <2>3
  <1>12. ASSUME NEW id \in Request
         PROVE  \/ id \in Ids(c) /\ SameEpoch(p) /\ Keyed(c, id) = p.results[id]
                \/ ~(id \in Ids(c) /\ SameEpoch(p)) /\ Keyed(c, id) = NoResult
    BY <1>1, <1>10 DEF Keyed
  <1>13. RowsOK(q, rows)
    <2>1. ASSUME NEW id \in Request, Known(q.results[id]) PROVE rows[id] # None
      <3>1. CASE Reads(q, id)
        <4>1. PICK i \in DOMAIN q.turns : q.turns[i].request.id = id /\ q.turns[i].accepted
          BY <3>1 DEF Reads
        <4>2. QED
          BY <1>9, <4>1 DEF TurnsOK
      <3>2. CASE ~Reads(q, id)
        <4>1. ~Reads(c, id)
          BY <1>11, <3>2
        <4>2. /\ q.results[id].data = Keyed(c, id).data /\ q.results[id].failed = Keyed(c, id).failed
              /\ q.results[id].fetch = Keyed(c, id).fetch
          BY <1>2, <1>3, <4>1
        <4>3. Known(Keyed(c, id))
          BY <2>1, <4>2 DEF Known
        <4>4. Keyed(c, id) # NoResult
          BY <4>3 DEF Known, NoResult
        <4>5. Known(p.results[id])
          BY <1>12, <4>3, <4>4
        <4>6. QED
          BY <4>5 DEF Ready, RowsOK
      <3>3. QED
        BY <3>1, <3>2
    <2>2. QED
      BY <2>1 DEF RowsOK
  <1>14. ASSUME NEW id \in Request,
                q.results[id].data = "PUBLISHED" \/ q.results[id].fetch = "PUBLISHED"
         PROVE  SameEpoch(p) /\ Fits(id, q, rows)
    <2>1. Keyed(c, id).data = "PUBLISHED" \/ Keyed(c, id).fetch = "PUBLISHED"
      <3>1. "PUBLISHED" # Unserved
        BY Apart DEF Reports
      <3>2. QED
        BY <1>2, <1>3, <1>14, <3>1
    <2>2. "PUBLISHED" # None
      BY Apart DEF Reports
    <2>3. Keyed(c, id) # NoResult
      BY <2>1, <2>2 DEF NoResult
    <2>4. SameEpoch(p) /\ Keyed(c, id) = p.results[id]
      BY <1>12, <2>3
    <2>5. Fits(id, p, rows)
      BY <2>1, <2>4 DEF Ready, FitsOK
    <2>6. QED
      BY <1>5, <2>4, <2>5 DEF Fits
  <1>15. FitsOK(q, rows)
    BY <1>14 DEF FitsOK
  <1>16. ReadsOK(q)
    <2>1. ASSUME NEW id \in Request, Reads(q, id) PROVE Known(q.results[id])
      <3>1. Reads(c, id) /\ Reads(p, id) /\ id \in Ids(c)
        BY <1>11, <2>1
      <3>2. CASE Reads(page, id) /\ SameEpoch(p)
        <4>1. Known(p.results[id]) /\ Keyed(c, id) = p.results[id]
          BY <1>12, <3>1, <3>2 DEF Ready
        <4>2. /\ q.results[id].data = p.results[id].data
              /\ q.results[id].failed = p.results[id].failed
              /\ q.results[id].fetch = p.results[id].fetch
          BY <1>2, <1>3, <1>10, <3>2, <4>1
        <4>3. QED
          BY <4>1, <4>2 DEF Known
      <3>3. CASE ~(Reads(page, id) /\ SameEpoch(p))
        <4>1. q.results[id].fetch = IF Keyed(c, id).fetch = None THEN Unserved
                                    ELSE Keyed(c, id).fetch
          BY <1>2, <1>3, <1>10, <3>1, <3>3
        <4>2. q.results[id].fetch # None
          BY <4>1, Apart
        <4>3. QED
          BY <4>2 DEF Known
      <3>4. QED
        BY <3>2, <3>3
    <2>2. QED
      BY <2>1 DEF ReadsOK
  <1>17. Following(q) <=> Following(f)
    <2>1. q.turns = f.turns /\ q.results = f.results /\ q.config = f.config
      BY <1>3
    <2>2. QED
      BY <2>1 DEF Following, Latest, LatestResult, Consented
  <1>18. Following(f) => /\ q.turns = p.turns /\ Latest(q) = Latest(p) /\ Latest(f) = Latest(p)
    <2>1. Following(f) => f.turns # <<>>
      BY DEF Following
    <2>2. QED
      BY <1>1, <1>2, <1>3, <2>1 DEF Latest
  <1>19. Following(f) /\ SameEpoch(p) => Following(p)
    <2>1. SUFFICES ASSUME Following(f), SameEpoch(p) PROVE Following(p)
      OBVIOUS
    <2>2. f.turns = p.turns /\ Latest(f) = Latest(p) /\ p.turns # <<>> /\ c.turns = p.turns
      BY <1>2, <1>3, <1>18, <2>1 DEF Following
    <2>3. PICK id \in Request : id = Latest(p).request.id /\ id \in Ids(p)
      BY <2>2, LatestFields
    <2>4. Keyed(c, id) = p.results[id]
      BY <1>12, <2>1, <2>2, <2>3 DEF Ids
    <2>5. f.results[id].data = p.results[id].data /\ f.results[id].failed = p.results[id].failed
      BY <1>2, <2>4
    <2>6. Consented(f) <=> Consented(p)
      BY <1>1, <1>2 DEF Consented
    <2>7. QED
      BY <2>1, <2>2, <2>3, <2>5, <2>6 DEF Following, LatestResult
  <1>20. StreamOK(q, rows)
    <2>1. CASE ~Following(f) /\ q.stream = None
      BY <1>17, <2>1 DEF StreamOK
    <2>2. CASE Following(f) /\ q.stream # None /\ q.stream.event = None
      <3>1. "PUBLISHED" # None
        BY Apart DEF Reports
      <3>2. QED
        BY <1>17, <2>2, <3>1 DEF StreamOK
    <2>3. CASE /\ Following(f) /\ Following(page) /\ SameEpoch(f)
               /\ Latest(page).request.id = Latest(f).request.id
               /\ q.stream = f.stream /\ q.lost = f.lost
      <3>1. SameEpoch(p) /\ Following(p) /\ Latest(page).request.id = Latest(p).request.id
        BY <1>10, <1>18, <1>19, <2>3
      <3>2. /\ p.stream # None /\ p.stream.event = "PUBLISHED" =>
                   Fits(Latest(p).request.id, p, rows)
            /\ p.stream = None => p.lost = Latest(p).request.id
        BY <2>3, <3>1 DEF Ready
      <3>3. q.stream = p.stream /\ q.lost = p.lost /\ Latest(q) = Latest(p)
        BY <1>1, <1>2, <1>18, <2>3
      <3>4. QED
        BY <1>5, <1>17, <2>3, <3>2, <3>3 DEF StreamOK, Fits
    <2>4. QED
      BY <1>3, <2>1, <2>2, <2>3
  <1>21. QED
    BY <1>4, <1>5, <1>7, <1>8, <1>9, <1>13, <1>15, <1>16, <1>20 DEF PageOK

LEMMA StaysReady ==
  ASSUME NEW rows, NEW epoch, NEW told0, PageOK(page, told0, rows, epoch), page \in Page,
         NEW p \in Page, NEW told,
         p.stream = page.stream, p.lost = page.lost, p.config.data = page.config.data,
         ConfigOK(p, told, epoch), SubmitOK(p, rows, epoch), RevokeOK(p, epoch),
         TurnsOK(p, rows), RowsOK(p, rows), FitsOK(p, rows),
         \A id \in Request : Known(page.results[id]) => Known(p.results[id])
  PROVE  Ready(p, told, rows, epoch)
  <1>1. ASSUME NEW id \in Request, Reads(page, id) PROVE Known(p.results[id])
    BY <1>1 DEF PageOK, ReadsOK
  <1>2. ASSUME Following(p), Following(page), Latest(page).request.id = Latest(p).request.id
        PROVE  /\ p.stream # None /\ p.stream.event = "PUBLISHED" =>
                      Fits(Latest(p).request.id, p, rows)
               /\ p.stream = None => p.lost = Latest(p).request.id
    BY <1>2 DEF PageOK, StreamOK, Fits
  <1>3. QED
    BY <1>1, <1>2 DEF Ready

LEMMA SameResults ==
  ASSUME NEW rows, NEW epoch, NEW told, PageOK(page, told, rows, epoch),
         NEW p, p.results = page.results, p.config.data = page.config.data
  PROVE  /\ RowsOK(p, rows) /\ FitsOK(p, rows)
         /\ \A id \in Request : Known(page.results[id]) => Known(p.results[id])
  BY DEF PageOK, RowsOK, FitsOK, Fits

LEMMA DrawsNothing ==
  ASSUME QuestionsCover, questions \in Nat, NEW drawing \in SUBSET Drawn
  PROVE  IsFiniteSet(drawing) /\ Cardinality(drawing) <= questions
                              /\ Cardinality(drawing) \in Nat
  <1>1. IsFiniteSet(Drawn) /\ Cardinality(Drawn) <= questions
    BY DEF QuestionsCover
  <1>2. IsFiniteSet(drawing) /\ Cardinality(drawing) <= Cardinality(Drawn)
    BY <1>1, FS_Subset
  <1>3. Cardinality(Drawn) \in Nat /\ Cardinality(drawing) \in Nat
    BY <1>1, <1>2, FS_CardinalityType
  <1>4. QED
    BY <1>1, <1>2, <1>3

LEMMA UnspentIsFinite ==
  ASSUME NEW calls, IsFiniteSet(calls)
  PROVE  IsFiniteSet(Unspent(calls)) /\ Cardinality(Unspent(calls)) \in Nat
  <1>1. Unspent(calls) \in SUBSET calls
    BY DEF Unspent
  <1>2. QED
    BY <1>1, FS_Subset, FS_CardinalityType

LEMMA Numbers ==
  ASSUME Types
  PROVE  /\ consent.epoch \in Nat /\ learned \in Nat /\ acts \in Nat /\ MaxActs \in Nat
         /\ \A n \in Epoch : n \in Nat
         /\ \A n \in 0..MaxActs : n \in Nat
  <1>1. MaxActs \in Nat
    BY AnswerPanelAssumption
  <1>2. consent.epoch \in Epoch /\ learned \in Epoch /\ acts \in 0..MaxActs
    BY DEF Types
  <1>3. QED
    BY <1>1, <1>2 DEF Epoch

LEMMA DrawnIs == Drawn = Drawing(admitted, page, adrift)
  BY DEF Drawn, Drawing

LEMMA DrawnIsPrimed == Drawn' = Drawing(admitted', page', adrift')
  BY DEF Drawn, Drawing

\* What a new state of the panel has to be.
LEMMA InvAgain ==
  ASSUME Types', ConsentOK',
         consent'.epoch + Owed(page') + Cardinality(Unspent(adrift')) <= acts',
         IsFiniteSet(Drawing(admitted', page', adrift')),
         Cardinality(Drawing(admitted', page', adrift')) <= questions',
         PageOK(page', learned', admitted', consent'.epoch)
  PROVE  PanelInv'
  <1>1. ActsCover'
    BY DEF ActsCover
  <1>2. QuestionsCover'
    BY DrawnIsPrimed DEF QuestionsCover
  <1>3. PageOK(page, learned, admitted, consent.epoch)'
    OBVIOUS
  <1>4. QED
    BY <1>1, <1>2, <1>3 DEF PanelInv

LEMMA RenderKeeps ==
  ASSUME PanelInv, NEW p \in Page, NEW again \in BOOLEAN, RenderAfter(p, again), UNCHANGED server,
         Ready(p, learned', admitted, consent.epoch),
         adrift' \subseteq Call, IsFiniteSet(adrift'),
         learned' \in Epoch, questions' \in Nat, acts' \in 0..MaxActs, losses' \in 0..MaxLosses,
         \A c \in adrift' : Sends(c) => consent.epoch > 0,
         consent.epoch + Owed(p) + Cardinality(Unspent(adrift')) <= acts',
         IsFiniteSet(Drawing(admitted, p, adrift')),
         Cardinality(Drawing(admitted, p, adrift')) <= questions'
  PROVE  PanelInv'
  <1>0. UNCHANGED <<consent, policy, admitted>>
    BY DEF server
  <1>1. PICK q \in Page :
            /\ q = Rendered(p, again) /\ q.submit = p.submit /\ q.revoke = p.revoke
            /\ Ids(q) \subseteq Ids(p)
            /\ PageOK(q, learned', admitted, consent.epoch)
    BY RenderedOK DEF PanelInv, Types
  <1>2. page' = q
    BY <1>1, RenderIs
  <1>3. Types'
    BY <1>0, <1>2 DEF PanelInv, Types
  <1>4. ConsentOK'
    BY <1>0 DEF PanelInv, ConsentOK
  <1>5. Owed(q) = Owed(p)
    BY <1>1 DEF Owed
  <1>6. Drawing(admitted, q, adrift') \subseteq Drawing(admitted, p, adrift')
    BY <1>1 DEF Drawing
  <1>7. /\ IsFiniteSet(Drawing(admitted, q, adrift'))
        /\ Cardinality(Drawing(admitted, q, adrift')) <= Cardinality(Drawing(admitted, p, adrift'))
        /\ Cardinality(Drawing(admitted, q, adrift')) \in Nat
        /\ Cardinality(Drawing(admitted, p, adrift')) \in Nat
    BY <1>6, FS_Subset, FS_CardinalityType
  <1>8. Cardinality(Drawing(admitted, q, adrift')) <= questions'
    BY <1>7
  <1>9. QED
    BY <1>0, <1>1, <1>2, <1>3, <1>4, <1>5, <1>7, <1>8, InvAgain

\* An update that sends nothing and gives nothing up.
LEMMA OnlyRenderKeeps ==
  ASSUME PanelInv, NEW p \in Page, NEW again \in BOOLEAN, RenderAfter(p, again), UNCHANGED server,
         Ready(p, learned', admitted, consent.epoch), UNCHANGED <<adrift, questions>>,
         learned' \in Epoch, acts' \in 0..MaxActs, losses' \in 0..MaxLosses,
         Owed(p) - Owed(page) <= acts' - acts,
         Ids(p) \subseteq Ids(page),
         p.submit.request \in {None, page.submit.request}
  PROVE  PanelInv'
  <1>1. Types /\ ConsentOK /\ ActsCover /\ QuestionsCover
    BY DEF PanelInv
  <1>2. Drawing(admitted, p, adrift') \in SUBSET Drawn
    BY DrawnIs DEF Drawing
  <1>3. /\ IsFiniteSet(Drawing(admitted, p, adrift'))
        /\ Cardinality(Drawing(admitted, p, adrift')) <= questions'
    BY <1>1, <1>2, DrawsNothing DEF Types
  <1>4. consent.epoch + Owed(p) + Cardinality(Unspent(adrift')) <= acts'
    <2>2. Cardinality(Unspent(adrift)) \in Nat
      BY <1>1, UnspentIsFinite DEF Types
    <2>3. consent.epoch \in Nat /\ acts \in Nat /\ acts' \in Nat
      BY <1>1, Numbers
    <2>4. Owed(p) \in Nat /\ Owed(page) \in Nat
      BY DEF Owed
    <2>5. QED
      BY <1>1, <2>2, <2>3, <2>4 DEF ActsCover
  <1>5. \A c \in adrift' : Sends(c) => consent.epoch > 0
    BY <1>1 DEF ConsentOK
  <1>6. adrift' \subseteq Call /\ IsFiniteSet(adrift') /\ questions' \in Nat
    BY <1>1 DEF Types
  <1>7. QED
    BY <1>3, <1>4, <1>5, <1>6, RenderKeeps

-----------------------------------------------------------------------------
(* The user of the panel *)

LEMMA ActFacts ==
  ASSUME Types, Act
  PROVE  acts' \in 0..MaxActs /\ acts' = acts + 1 /\ acts' - acts = 1
  <1>1. MaxActs \in Nat /\ acts \in 0..MaxActs
    BY Apart DEF Types
  <1>2. QED
    BY <1>1 DEF Act

LEMMA OwedIsSmall ==
  ASSUME NEW p
  PROVE  /\ Owed(p) \in 0..2
         /\ ~Submitting(p) /\ p.revoke.state # "pending" => Owed(p) = 0
         /\ ~Submitting(p) \/ p.revoke.state # "pending" => Owed(p) <= 1
  BY DEF Owed, Submitting

LEMMA AttemptFacts ==
  ASSUME NEW p \in Page, NEW request \in Question, p.config.data # None
  PROVE  /\ Attempt(p, request) \in Page
         /\ Attempt(p, request).config = p.config /\ Attempt(p, request).turns = p.turns
         /\ Attempt(p, request).results = p.results /\ Attempt(p, request).revoke = p.revoke
         /\ Attempt(p, request).stream = p.stream /\ Attempt(p, request).lost = p.lost
         /\ Attempt(p, request).submit.request = request
         /\ Attempt(p, request).submit.call = Unserved
         /\ \/ /\ Attempt(p, request).submit.state = "generating"
               /\ Consented(p) /\ Attempt(p, request).approval = None
            \/ /\ Attempt(p, request).submit.state = "granting"
               /\ Attempt(p, request).submit.wanted # None
  <1>1. CASE Consented(p) /\ p.approval = None
    <2> DEFINE sub == [state |-> "generating", request |-> request, call |-> Unserved,
                       wanted |-> None]
    <2>1. Attempt(p, request) = [p EXCEPT !.submit = sub]
      BY <1>1 DEF Attempt
    <2>2. sub \in Submission /\ sub.request = request /\ sub.call = Unserved
          /\ sub.state = "generating"
      BY DEF Submission, Sent
    <2> HIDE DEF sub
    <2>3. QED
      BY <1>1, <2>1, <2>2 DEF Page
  <1>2. CASE ~(Consented(p) /\ p.approval = None)
    <2> DEFINE new == [epoch |-> p.config.data.epoch, policy |-> p.config.data.policy]
               approval == IF p.approval # None THEN p.approval ELSE new
               sub == [state |-> "granting", request |-> request, call |-> Unserved,
                       wanted |-> approval]
    <2>1. Attempt(p, request) = [p EXCEPT !.submit = sub, !.approval = approval]
      BY <1>2 DEF Attempt
    <2>3. new \in Approval
      <3>1. p.config.data \in Configuration
        BY ConfigFields
      <3>2. QED
        BY <3>1 DEF Configuration, Approval
    <2>4. new # None
      BY <2>3, Apart
    <2> HIDE DEF new
    <2>5. approval \in Approval \cup {None} /\ approval # None
      BY <2>3, <2>4, PageFields
    <2> HIDE DEF approval
    <2>2. sub \in Submission /\ sub.request = request /\ sub.call = Unserved
          /\ sub.state = "granting" /\ sub.wanted = approval
      BY <2>5 DEF Submission, Sent
    <2> HIDE DEF sub
    <2>6. QED
      BY <2>1, <2>2, <2>5 DEF Page
  <1>3. QED
    BY <1>1, <1>2

\* A submission of a panel that is not submitting.
LEMMA AttemptOK ==
  ASSUME PanelInv, NEW r \in Page, NEW request \in Question,
         page.config.data # None, ~page.config.failed, ~Submitting(page),
         page.config.fetch = None \/ page.turns # <<>>,
         r.config = page.config, r.results = page.results, r.revoke = page.revoke,
         r.stream = page.stream, r.lost = page.lost, TurnsOK(r, admitted),
         UNCHANGED learned
  PROVE  Ready(Attempt(r, request), learned', admitted, consent.epoch)
  <1>0. PageOK(page, learned, admitted, consent.epoch) /\ page \in Page
    BY DEF PanelInv, Types
  <1>1. PICK p \in Page :
            /\ p = Attempt(r, request)
            /\ p.config = page.config /\ p.turns = r.turns /\ p.results = page.results
            /\ p.revoke = page.revoke /\ p.stream = page.stream /\ p.lost = page.lost
            /\ p.submit.request = request /\ p.submit.call = Unserved
            /\ \/ p.submit.state = "generating" /\ Consented(page) /\ p.approval = None
               \/ p.submit.state = "granting" /\ p.submit.wanted # None
    BY AttemptFacts DEF Consented
  <1>2. page.config.data.epoch >= learned
    BY <1>0 DEF PageOK, ConfigOK, Submitting
  <1>3. ConfigOK(p, learned', consent.epoch)
    BY <1>0, <1>1, <1>2 DEF PageOK, ConfigOK
  <1>4. SubmitOK(p, admitted, consent.epoch)
    <2>1. Unserved \notin Epoch /\ Unserved # None
      BY Apart
    <2>2. request # None
      BY Apart
    <2>3. Consented(page) => consent.epoch > 0
      <3>1. SUFFICES ASSUME Consented(page) PROVE consent.epoch > 0
        OBVIOUS
      <3>2. page.config.data \in Configuration /\ page.config.data.consented
        BY <1>0, <3>1, ConfigFields DEF Consented
      <3>3. page.config.data.epoch > 0 /\ page.config.data.epoch <= consent.epoch
        BY <1>0, <3>2 DEF PageOK, ConfigOK, Told
      <3>4. page.config.data.epoch \in Nat /\ consent.epoch \in Nat
        BY <3>2, Apart DEF Configuration, PanelInv, Types
      <3>5. QED
        BY <3>3, <3>4
    <2>4. QED
      BY <1>1, <2>1, <2>2, <2>3 DEF SubmitOK
  <1>5. RevokeOK(p, consent.epoch)
    BY <1>0, <1>1 DEF PageOK, RevokeOK
  <1>6. TurnsOK(p, admitted)
    BY <1>1 DEF TurnsOK
  <1>7. /\ RowsOK(p, admitted) /\ FitsOK(p, admitted)
        /\ \A id \in Request : Known(page.results[id]) => Known(p.results[id])
    BY <1>0, <1>1, SameResults
  <1>8. Ready(p, learned', admitted, consent.epoch)
    BY <1>0, <1>1, <1>3, <1>4, <1>5, <1>6, <1>7, StaysReady
  <1>9. QED
    BY <1>1, <1>8

LEMMA AskKeeps ==
  ASSUME PanelInv, Ask
  PROVE  PanelInv'
  <1> DEFINE uuid == RandomUUID
             request == [id |-> uuid, history |-> History(page)]
             turn == [request |-> request, accepted |-> FALSE]
             r == [page EXCEPT !.turns = Append(page.turns, turn)]
             p == Attempt(r, request)
  <1>0. /\ Types /\ PageOK(page, learned, admitted, consent.epoch) /\ page \in Page
        /\ MayAsk(page) /\ Drawn # Request /\ Act /\ questions' = questions + 1
        /\ RenderAfter(p, FALSE) /\ UNCHANGED <<server, adrift, learned, losses>>
    BY DEF PanelInv, Types, Ask, Render
  <1>1. uuid \in Request /\ uuid \notin Drawn
    <2>1. Drawn \subseteq Request
      BY DEF Drawn
    <2>2. QED
      BY <1>0, <2>1 DEF RandomUUID
  <1>2. request \in Question /\ turn \in Turn
    <2>1. History(page) \subseteq Request
      BY <1>0, TurnFields DEF History, LastThree, Published
    <2>2. QED
      BY <1>1, <2>1 DEF Question, Turn
  <1>3. /\ page.config.data # None /\ ~page.config.failed /\ page.config.fetch = None
        /\ ~Submitting(page)
        /\ page.turns # <<>> => Latest(page).accepted
        /\ page.revoke.state # "pending"
    BY <1>0 DEF MayAsk
  <1>4. turn.accepted = FALSE /\ turn.request = request /\ request.id = uuid
    OBVIOUS
  <1> HIDE DEF turn, request, uuid
  <1>5. /\ r \in Page /\ r.turns = Append(page.turns, turn)
        /\ r.config = page.config /\ r.results = page.results /\ r.revoke = page.revoke
        /\ r.stream = page.stream /\ r.lost = page.lost /\ r.submit = page.submit
    <2>1. Append(page.turns, turn) \in Seq(Turn)
      BY <1>0, <1>2, PageFields
    <2>2. QED
      BY <1>0, <2>1 DEF Page
  <1> HIDE DEF r
  <1>6. /\ DOMAIN r.turns = 1..(Len(page.turns) + 1) /\ Len(r.turns) = Len(page.turns) + 1
        /\ Len(page.turns) \in Nat /\ DOMAIN page.turns = 1..Len(page.turns)
        /\ \A i \in 1..Len(page.turns) : r.turns[i] = page.turns[i]
        /\ r.turns[Len(page.turns) + 1] = turn
    <2>1. page.turns \in Seq(Turn)
      BY <1>0, PageFields
    <2>2. QED
      BY <1>2, <1>5, <2>1, LenProperties
  <1>7. TurnsOK(r, admitted)
    <2>1. ASSUME NEW i \in DOMAIN r.turns
          PROVE  /\ i < Len(r.turns) => r.turns[i].accepted
                 /\ r.turns[i].accepted => admitted[r.turns[i].request.id] # None
      <3>1. CASE i = Len(page.turns) + 1
        BY <1>4, <1>6, <3>1
      <3>2. CASE i # Len(page.turns) + 1
        <4>1. i \in DOMAIN page.turns /\ r.turns[i] = page.turns[i]
          BY <1>6, <3>2
        <4>2. i < Len(page.turns) \/ i = Len(page.turns)
          BY <1>6, <4>1
        <4>3. page.turns[i].accepted
          <5>1. CASE i < Len(page.turns)
            BY <1>0, <4>1, <5>1 DEF PageOK, TurnsOK
          <5>2. CASE i = Len(page.turns)
            <6>1. page.turns # <<>>
              BY <4>1
            <6>2. Latest(page) = page.turns[i] /\ Latest(page).accepted
              BY <1>3, <5>2, <6>1 DEF Latest
            <6>3. QED
              BY <6>2
          <5>3. QED
            BY <4>2, <5>1, <5>2
        <4>4. QED
          BY <1>0, <4>1, <4>3 DEF PageOK, TurnsOK
      <3>3. QED
        BY <3>1, <3>2
    <2>2. QED
      BY <2>1 DEF TurnsOK
  <1>8. Ready(p, learned', admitted, consent.epoch)
    <2>1. UNCHANGED learned
      BY <1>0
    <2>2. page.config.fetch = None \/ page.turns # <<>>
      BY <1>3
    <2>3. PanelInv
      OBVIOUS
    <2>4. QED
      BY <1>2, <1>3, <1>5, <1>7, <2>1, <2>2, <2>3, AttemptOK
  <1>9. /\ p \in Page /\ p.turns = r.turns /\ p.submit.request = request /\ p.revoke = r.revoke
    BY <1>2, <1>3, <1>5, AttemptFacts
  <1> HIDE DEF p
  <1>10. /\ IsFiniteSet(Drawing(admitted, p, adrift'))
         /\ Cardinality(Drawing(admitted, p, adrift')) <= questions'
    <2>1. Drawing(admitted, p, adrift') \subseteq Drawn \cup {uuid}
      <3>1. ASSUME NEW id \in Ids(p) PROVE id \in Ids(page) \/ id = uuid
        <4>1. PICK i \in DOMAIN p.turns : id = p.turns[i].request.id
          BY <3>1 DEF Ids
        <4>2. i = Len(page.turns) + 1 \/ (i \in DOMAIN page.turns /\ p.turns[i] = page.turns[i])
          BY <1>6, <1>9
        <4>3. CASE i = Len(page.turns) + 1
          BY <1>4, <1>6, <1>9, <4>1, <4>3
        <4>4. CASE i \in DOMAIN page.turns /\ p.turns[i] = page.turns[i]
          BY <4>1, <4>4 DEF Ids
        <4>5. QED
          BY <4>2, <4>3, <4>4
      <3>2. QED
        BY <1>0, <1>4, <1>9, <3>1, DrawnIs DEF Drawing
    <2>2. IsFiniteSet(Drawn) /\ Cardinality(Drawn) <= questions /\ questions \in Nat
      BY DEF PanelInv, QuestionsCover, Types
    <2>3. /\ IsFiniteSet(Drawn \cup {uuid})
          /\ Cardinality(Drawn \cup {uuid}) = Cardinality(Drawn) + 1
      BY <1>1, <2>2, FS_AddElement
    <2>4. /\ IsFiniteSet(Drawing(admitted, p, adrift'))
          /\ Cardinality(Drawing(admitted, p, adrift')) <= Cardinality(Drawn \cup {uuid})
      BY <2>1, <2>3, FS_Subset
    <2>5. Cardinality(Drawn) \in Nat /\ Cardinality(Drawing(admitted, p, adrift')) \in Nat
      BY <2>2, <2>4, FS_CardinalityType
    <2>6. QED
      BY <1>0, <2>2, <2>3, <2>4, <2>5
  <1>11. consent.epoch + Owed(p) + Cardinality(Unspent(adrift')) <= acts'
    <2>1. Owed(page) = 0 /\ Owed(p) \in 0..2 /\ Owed(p) <= 1
      <3>1. ~Submitting(page) /\ page.revoke.state # "pending" /\ p.revoke.state # "pending"
        BY <1>3, <1>5, <1>9
      <3>2. QED
        BY <3>1 DEF Owed, Submitting
    <2>2. consent.epoch + Owed(page) + Cardinality(Unspent(adrift)) <= acts
      BY DEF PanelInv, ActsCover
    <2>3. Cardinality(Unspent(adrift)) \in Nat
      BY <1>0, UnspentIsFinite, FS_CardinalityType DEF Types
    <2>4. consent.epoch \in Nat /\ acts \in Nat
      BY <1>0, Numbers
    <2>5. acts' = acts + 1
      BY <1>0, ActFacts
    <2>6. QED
      BY <1>0, <2>1, <2>2, <2>3, <2>4, <2>5
  <1>12. acts' \in 0..MaxActs
    BY <1>0, ActFacts
  <1>13. /\ adrift' \subseteq Call /\ IsFiniteSet(adrift') /\ learned' \in Epoch
         /\ questions' \in Nat /\ losses' \in 0..MaxLosses
    BY <1>0 DEF Types
  <1>14. \A c \in adrift' : Sends(c) => consent.epoch > 0
    BY <1>0 DEF PanelInv, ConsentOK
  <1>15. UNCHANGED server
    BY <1>0
  <1>16. QED
    BY <1>0, <1>8, <1>9, <1>10, <1>11, <1>12, <1>13, <1>14, <1>15, RenderKeeps

LEMMA RepeatKeeps ==
  ASSUME PanelInv, Repeat
  PROVE  PanelInv'
  <1> DEFINE p == Attempt(page, Repeated(page))
  <1>0. /\ Types /\ PageOK(page, learned, admitted, consent.epoch) /\ page \in Page
        /\ MayRepeat(page) /\ Act /\ RenderAfter(p, FALSE)
        /\ UNCHANGED <<server, adrift, learned, questions, losses>>
    BY DEF PanelInv, Types, Repeat, Render
  <1>1. /\ page.submit.state = "failed" /\ page.turns # <<>>
        /\ ~page.config.failed /\ page.config.data # None
    BY <1>0 DEF MayRepeat
  <1>2. Repeated(page) \in Question /\ Repeated(page).id \in Ids(page)
    BY <1>0, <1>1, LatestFields DEF Repeated
  <1>3. Ready(p, learned', admitted, consent.epoch)
    BY <1>0, <1>1, <1>2, AttemptOK DEF Submitting, PageOK
  <1>4. /\ p \in Page /\ p.turns = page.turns /\ p.submit.request = Repeated(page)
        /\ p.revoke = page.revoke
    BY <1>0, <1>1, <1>2, AttemptFacts
  <1> HIDE DEF p
  <1>5. Drawing(admitted, p, adrift) \in SUBSET Drawn
    BY <1>2, <1>4, DrawnIs DEF Drawing, Ids
  <1>6. /\ IsFiniteSet(Drawing(admitted, p, adrift'))
        /\ Cardinality(Drawing(admitted, p, adrift')) <= questions'
    BY <1>0, <1>5, DrawsNothing DEF PanelInv, Types
  <1>7. Owed(p) - Owed(page) <= 1
    BY <1>1, <1>4 DEF Owed
  <1>8. consent.epoch + Owed(p) + Cardinality(Unspent(adrift')) <= acts'
    <2>1. Owed(page) \in 0..2 /\ Owed(p) \in 0..2
      BY OwedIsSmall
    <2>2. consent.epoch + Owed(page) + Cardinality(Unspent(adrift)) <= acts
      BY DEF PanelInv, ActsCover
    <2>3. Cardinality(Unspent(adrift)) \in Nat
      BY <1>0, UnspentIsFinite, FS_CardinalityType DEF Types
    <2>4. consent.epoch \in Nat /\ acts \in Nat
      BY <1>0, Numbers
    <2>5. acts' = acts + 1
      BY <1>0, ActFacts
    <2>6. QED
      BY <1>0, <1>7, <2>1, <2>2, <2>3, <2>4, <2>5
  <1>9. acts' \in 0..MaxActs
    BY <1>0, ActFacts
  <1>10. /\ adrift' \subseteq Call /\ IsFiniteSet(adrift') /\ learned' \in Epoch
         /\ questions' \in Nat /\ losses' \in 0..MaxLosses
    BY <1>0 DEF Types
  <1>11. \A c \in adrift' : Sends(c) => consent.epoch > 0
    BY <1>0 DEF PanelInv, ConsentOK
  <1>12. UNCHANGED server
    BY <1>0
  <1>13. QED
    BY <1>0, <1>3, <1>4, <1>6, <1>8, <1>9, <1>10, <1>11, <1>12, RenderKeeps


LEMMA InvalidatedFacts ==
  ASSUME NEW p \in Page
  PROVE  /\ Invalidated(p) \in Page
         /\ Invalidated(p).config.data = p.config.data
         /\ Invalidated(p).config.failed = p.config.failed
         /\ Invalidated(p).config.fetch = Unserved
         /\ Invalidated(p).turns = p.turns /\ Invalidated(p).results = p.results
         /\ Invalidated(p).submit = p.submit /\ Invalidated(p).approval = p.approval
         /\ Invalidated(p).revoke = p.revoke /\ Invalidated(p).stream = p.stream
         /\ Invalidated(p).lost = p.lost
  <1> DEFINE c == [p.config EXCEPT !.fetch = Unserved]
  <1>1. c \in ConfigurationQuery /\ c.data = p.config.data /\ c.failed = p.config.failed
        /\ c.fetch = Unserved
    BY PageFields DEF ConfigurationQuery
  <1>2. Invalidated(p) = [p EXCEPT !.config = c]
    BY DEF Invalidated
  <1> HIDE DEF c
  <1>3. QED
    BY <1>1, <1>2 DEF Page

\* An update that leaves the queries' answers and the stream as they are.
LEMMA UpdateKeeps ==
  ASSUME PanelInv, NEW p \in Page, NEW again \in BOOLEAN, RenderAfter(p, again), UNCHANGED server,
         UNCHANGED <<adrift, questions, learned>>, acts' \in 0..MaxActs, losses' \in 0..MaxLosses,
         Owed(p) - Owed(page) <= acts' - acts,
         p.turns = page.turns \/ p.turns = <<>>,
         p.submit.request \in {None, page.submit.request},
         p.stream = page.stream, p.lost = page.lost, p.config.data = page.config.data,
         ConfigOK(p, learned, consent.epoch), SubmitOK(p, admitted, consent.epoch),
         RevokeOK(p, consent.epoch), RowsOK(p, admitted), FitsOK(p, admitted),
         \A id \in Request : Known(page.results[id]) => Known(p.results[id])
  PROVE  PanelInv'
  <1>1. /\ PageOK(page, learned, admitted, consent.epoch) /\ page \in Page
        /\ learned \in Epoch /\ TurnsOK(page, admitted)
    BY DEF PanelInv, Types, PageOK
  <1>2. DOMAIN <<>> = {}
    OBVIOUS
  <1>3. TurnsOK(p, admitted) /\ Ids(p) \subseteq Ids(page)
    BY <1>1, <1>2 DEF TurnsOK, Ids
  <1>4. Ready(p, learned, admitted, consent.epoch)
    BY <1>1, <1>3, StaysReady
  <1>5. Ready(p, learned', admitted, consent.epoch) /\ learned' \in Epoch
    BY <1>1, <1>4
  <1>6. UNCHANGED <<adrift, questions>>
    OBVIOUS
  <1>7. QED
    BY <1>3, <1>5, <1>6, OnlyRenderKeeps

\* Reading again what is known.
LEMMA ReadAgain ==
  ASSUME NEW rows, NEW epoch, NEW told, PageOK(page, told, rows, epoch),
         NEW p, p.config.data = page.config.data,
         \A id \in Request :
             /\ p.results[id].data = page.results[id].data
             /\ p.results[id].failed = page.results[id].failed
             /\ \/ p.results[id].fetch = page.results[id].fetch
                \/ p.results[id].fetch = Unserved /\ Known(page.results[id])
  PROVE  /\ RowsOK(p, rows) /\ FitsOK(p, rows)
         /\ \A id \in Request : Known(page.results[id]) => Known(p.results[id])
  <1>1. Unserved # None /\ Unserved # "PUBLISHED"
    BY Apart DEF Reports
  <1>2. RowsOK(page, rows) /\ FitsOK(page, rows)
    BY DEF PageOK
  <1>3. ASSUME NEW id \in Request
        PROVE  /\ Known(p.results[id]) => Known(page.results[id])
               /\ Known(page.results[id]) => Known(p.results[id])
               /\ (p.results[id].data = "PUBLISHED" \/ p.results[id].fetch = "PUBLISHED") =>
                      (page.results[id].data = "PUBLISHED" \/ page.results[id].fetch = "PUBLISHED")
    BY <1>1 DEF Known
  <1>4. RowsOK(p, rows)
    BY <1>2, <1>3 DEF RowsOK
  <1>5. FitsOK(p, rows)
    BY <1>2, <1>3 DEF FitsOK, Fits
  <1>6. QED
    BY <1>3, <1>4, <1>5

LEMMA StartOverKeeps ==
  ASSUME PanelInv, StartOver
  PROVE  PanelInv'
  <1> DEFINE r == [page EXCEPT !.turns = <<>>, !.approval = None, !.submit = Idle]
  <1>0. /\ Types /\ PageOK(page, learned, admitted, consent.epoch) /\ page \in Page
        /\ Act /\ RenderAfter(Invalidated(r), FALSE)
        /\ UNCHANGED <<server, adrift, learned, questions, losses>>
    BY DEF PanelInv, Types, StartOver, Render, OnlyPage
  <1>1. Idle \in Submission /\ Idle.state = "idle" /\ Idle.request = None
    BY DEF Idle, Submission, Sent
  <1>2. /\ r \in Page /\ r.turns = <<>> /\ r.submit = Idle
        /\ r.config = page.config /\ r.results = page.results /\ r.revoke = page.revoke
        /\ r.stream = page.stream /\ r.lost = page.lost
    <2>1. <<>> \in Seq(Turn)
      BY EmptySeq
    <2>2. QED
      BY <1>0, <1>1, <2>1 DEF Page
  <1> HIDE DEF r
  <1>3. PICK p \in Page :
            /\ p = Invalidated(r) /\ p.turns = <<>> /\ p.submit = Idle
            /\ p.config.data = page.config.data /\ p.config.failed = page.config.failed
            /\ p.config.fetch = Unserved
            /\ p.results = page.results /\ p.revoke = page.revoke
            /\ p.stream = page.stream /\ p.lost = page.lost
    BY <1>2, InvalidatedFacts
  <1>4. Unserved # None /\ Unserved \notin Configuration
    BY Apart
  <1>5. ConfigOK(p, learned, consent.epoch)
    BY <1>0, <1>3, <1>4 DEF PageOK, ConfigOK, Told
  <1>6. SubmitOK(p, admitted, consent.epoch)
    BY <1>1, <1>3 DEF SubmitOK
  <1>7. RevokeOK(p, consent.epoch)
    BY <1>0, <1>3 DEF PageOK, RevokeOK
  <1>8. /\ RowsOK(p, admitted) /\ FitsOK(p, admitted)
        /\ \A id \in Request : Known(page.results[id]) => Known(p.results[id])
    BY <1>0, <1>3, SameResults
  <1>9. acts' \in 0..MaxActs /\ acts' - acts = 1 /\ losses' \in 0..MaxLosses
    BY <1>0, ActFacts DEF Types
  <1>10. Owed(p) - Owed(page) <= acts' - acts
    BY <1>1, <1>3, <1>9 DEF Owed
  <1>11. RenderAfter(p, FALSE) /\ UNCHANGED server /\ UNCHANGED <<adrift, questions, learned>>
    BY <1>0, <1>3
  <1>12. QED
    BY <1>1, <1>3, <1>5, <1>6, <1>7, <1>8, <1>9, <1>10, <1>11, UpdateKeeps

LEMMA RecheckKeeps ==
  ASSUME PanelInv, Recheck
  PROVE  PanelInv'
  <1>0. /\ Types /\ PageOK(page, learned, admitted, consent.epoch) /\ page \in Page
        /\ Act /\ RenderAfter(Invalidated(page), FALSE)
        /\ UNCHANGED <<server, adrift, learned, questions, losses>>
        /\ page.config.failed
    BY DEF PanelInv, Types, Recheck, Render, OnlyPage, MayRecheck
  <1>3. PICK p \in Page :
            /\ p = Invalidated(page) /\ p.turns = page.turns /\ p.submit = page.submit
            /\ p.config.data = page.config.data /\ p.config.failed = page.config.failed
            /\ p.config.fetch = Unserved /\ p.approval = page.approval
            /\ p.results = page.results /\ p.revoke = page.revoke
            /\ p.stream = page.stream /\ p.lost = page.lost
    BY <1>0, InvalidatedFacts
  <1>4. Unserved # None /\ Unserved \notin Configuration
    BY Apart
  <1>5. ConfigOK(p, learned, consent.epoch)
    BY <1>0, <1>3, <1>4 DEF PageOK, ConfigOK, Told
  <1>6. SubmitOK(p, admitted, consent.epoch)
    BY <1>0, <1>3, <1>4 DEF PageOK, SubmitOK
  <1>7. RevokeOK(p, consent.epoch)
    BY <1>0, <1>3 DEF PageOK, RevokeOK
  <1>8. /\ RowsOK(p, admitted) /\ FitsOK(p, admitted)
        /\ \A id \in Request : Known(page.results[id]) => Known(p.results[id])
    BY <1>0, <1>3, SameResults
  <1>9. acts' \in 0..MaxActs /\ acts' - acts = 1 /\ losses' \in 0..MaxLosses
    BY <1>0, ActFacts DEF Types
  <1>10. Owed(p) - Owed(page) <= acts' - acts
    BY <1>3, <1>9 DEF Owed
  <1>11. RenderAfter(p, FALSE) /\ UNCHANGED server /\ UNCHANGED <<adrift, questions, learned>>
    BY <1>0, <1>3
  <1>12. QED
    BY <1>3, <1>5, <1>6, <1>7, <1>8, <1>9, <1>10, <1>11, UpdateKeeps

\* What is known is read again.
LEMMA ReadAgainKeeps ==
  ASSUME PanelInv, NEW p \in Page, RenderAfter(p, FALSE), Act,
         UNCHANGED <<server, adrift, learned, questions, losses>>,
         p.turns = page.turns, p.submit = page.submit, p.approval = page.approval,
         p.revoke = page.revoke, p.stream = page.stream, p.lost = page.lost,
         p.config.data = page.config.data, p.config.failed = page.config.failed,
         \/ p.config.fetch = page.config.fetch
         \/ page.config.fetch = None /\ p.config.fetch = Unserved,
         \A id \in Request :
             /\ p.results[id].data = page.results[id].data
             /\ p.results[id].failed = page.results[id].failed
             /\ \/ p.results[id].fetch = page.results[id].fetch
                \/ p.results[id].fetch = Unserved /\ Known(page.results[id])
  PROVE  PanelInv'
  <1>0. Types /\ PageOK(page, learned, admitted, consent.epoch)
    BY DEF PanelInv
  <1>1. Unserved # None /\ Unserved \notin Configuration
    BY Apart
  <1>2. ConfigOK(p, learned, consent.epoch)
    BY <1>0, <1>1 DEF PageOK, ConfigOK, Told
  <1>3. SubmitOK(p, admitted, consent.epoch)
    BY <1>0, <1>1 DEF PageOK, SubmitOK
  <1>4. RevokeOK(p, consent.epoch)
    BY <1>0 DEF PageOK, RevokeOK
  <1>5. /\ RowsOK(p, admitted) /\ FitsOK(p, admitted)
        /\ \A id \in Request : Known(page.results[id]) => Known(p.results[id])
    BY <1>0, ReadAgain
  <1>6. acts' \in 0..MaxActs /\ acts' - acts = 1 /\ losses' \in 0..MaxLosses
    BY <1>0, ActFacts DEF Types
  <1>7. Owed(p) - Owed(page) <= acts' - acts
    BY <1>6 DEF Owed
  <1>8. UNCHANGED server /\ UNCHANGED <<adrift, questions, learned>>
    OBVIOUS
  <1>9. QED
    BY <1>2, <1>3, <1>4, <1>5, <1>6, <1>7, <1>8, UpdateKeeps

LEMMA RereadKeeps ==
  ASSUME PanelInv, NEW id \in Request, Reread(id)
  PROVE  PanelInv'
  <1> DEFINE new == [page.results[id] EXCEPT !.fetch = Unserved]
             results == [page.results EXCEPT ![id] = new]
             p == [page EXCEPT !.results = results]
  <1>0. /\ page \in Page /\ Act /\ RenderAfter(p, FALSE)
        /\ UNCHANGED <<server, adrift, learned, questions, losses>>
        /\ page.results[id].failed
    BY DEF PanelInv, Types, Reread, MayReread, Render, OnlyPage
  <1>1. /\ new \in Result /\ new.data = page.results[id].data
        /\ new.failed = page.results[id].failed /\ new.fetch = Unserved
    BY <1>0, ResultFields DEF Result
  <1> HIDE DEF new
  <1>2. /\ results \in [Request -> Result] /\ results[id] = new
        /\ \A x \in Request : x # id => results[x] = page.results[x]
    BY <1>0, <1>1, PageFields
  <1> HIDE DEF results
  <1>3. /\ p \in Page /\ p.results = results
        /\ p.turns = page.turns /\ p.submit = page.submit /\ p.approval = page.approval
        /\ p.revoke = page.revoke /\ p.stream = page.stream /\ p.lost = page.lost
        /\ p.config = page.config
    BY <1>0, <1>2 DEF Page
  <1> HIDE DEF p
  <1>4. ASSUME NEW x \in Request
        PROVE  /\ p.results[x].data = page.results[x].data
               /\ p.results[x].failed = page.results[x].failed
               /\ \/ p.results[x].fetch = page.results[x].fetch
                  \/ p.results[x].fetch = Unserved /\ Known(page.results[x])
    <2>1. CASE x = id
      BY <1>0, <1>1, <1>2, <1>3, <2>1 DEF Known
    <2>2. CASE x # id
      BY <1>2, <1>3, <2>2
    <2>3. QED
      BY <2>1, <2>2
  <1>5. \/ p.config.fetch = page.config.fetch
        \/ page.config.fetch = None /\ p.config.fetch = Unserved
    BY <1>3
  <1>6. QED
    BY <1>0, <1>3, <1>4, <1>5, ReadAgainKeeps

LEMMA ReconnectKeeps ==
  ASSUME PanelInv, Reconnect
  PROVE  PanelInv'
  <1> DEFINE id == Latest(page).request.id
             new == [page.results[id] EXCEPT !.fetch = Unserved, !.reconnect = TRUE]
             results == [page.results EXCEPT ![id] = new]
             p == [page EXCEPT !.results = results]
  <1>0. /\ page \in Page /\ Act /\ RenderAfter(p, FALSE)
        /\ UNCHANGED <<server, adrift, learned, questions, losses>>
        /\ Following(page)
    BY DEF PanelInv, Types, Reconnect, MayReconnect, Disconnected, Render, OnlyPage
  <1>1. page.turns # <<>> /\ page.results[id].data = "RUNNING"
    BY <1>0 DEF Following, LatestResult
  <1>2. id \in Request
    BY <1>0, <1>1, LatestFields
  <1> HIDE DEF id
  <1>3. /\ new \in Result /\ new.data = page.results[id].data
        /\ new.failed = page.results[id].failed /\ new.fetch = Unserved
    BY <1>0, <1>2, ResultFields DEF Result
  <1> HIDE DEF new
  <1>4. /\ results \in [Request -> Result] /\ results[id] = new
        /\ \A x \in Request : x # id => results[x] = page.results[x]
    BY <1>0, <1>2, <1>3, PageFields
  <1> HIDE DEF results
  <1>5. /\ p \in Page /\ p.results = results
        /\ p.turns = page.turns /\ p.submit = page.submit /\ p.approval = page.approval
        /\ p.revoke = page.revoke /\ p.stream = page.stream /\ p.lost = page.lost
        /\ p.config = page.config
    BY <1>0, <1>4 DEF Page
  <1> HIDE DEF p
  <1>6. Known(page.results[id])
    BY <1>1, Apart DEF Known, Reports
  <1>7. ASSUME NEW x \in Request
        PROVE  /\ p.results[x].data = page.results[x].data
               /\ p.results[x].failed = page.results[x].failed
               /\ \/ p.results[x].fetch = page.results[x].fetch
                  \/ p.results[x].fetch = Unserved /\ Known(page.results[x])
    <2>1. CASE x = id
      BY <1>3, <1>4, <1>5, <1>6, <2>1
    <2>2. CASE x # id
      BY <1>4, <1>5, <2>2
    <2>3. QED
      BY <2>1, <2>2
  <1>8. \/ p.config.fetch = page.config.fetch
        \/ page.config.fetch = None /\ p.config.fetch = Unserved
    BY <1>5
  <1>9. QED
    BY <1>0, <1>5, <1>7, <1>8, ReadAgainKeeps

LEMMA FocusKeeps ==
  ASSUME PanelInv, Focus
  PROVE  PanelInv'
  <1> DEFINE config == [page.config EXCEPT !.fetch = IF page.config.fetch = None THEN Unserved
                                                     ELSE page.config.fetch]
             again(id) == Reads(page, id) /\ page.results[id].fetch = None
             new(id) == IF again(id) THEN [page.results[id] EXCEPT !.fetch = Unserved]
                        ELSE page.results[id]
             results == [id \in Request |-> new(id)]
             p == [page EXCEPT !.config = config, !.results = results]
  <1>0. /\ page \in Page /\ Act /\ RenderAfter(p, FALSE) /\ ReadsOK(page)
        /\ UNCHANGED <<server, adrift, learned, questions, losses>>
    BY DEF PanelInv, Types, PageOK, Focus, Render, OnlyPage
  <1>1. /\ config \in ConfigurationQuery /\ config.data = page.config.data
        /\ config.failed = page.config.failed
        /\ \/ config.fetch = page.config.fetch
           \/ page.config.fetch = None /\ config.fetch = Unserved
    BY <1>0, PageFields DEF ConfigurationQuery
  <1> HIDE DEF config
  <1>2. ASSUME NEW id \in Request
        PROVE  /\ new(id) \in Result /\ new(id).data = page.results[id].data
               /\ new(id).failed = page.results[id].failed
               /\ \/ new(id).fetch = page.results[id].fetch
                  \/ new(id).fetch = Unserved /\ Known(page.results[id])
    <2>1. again(id) => Known(page.results[id])
      BY <1>0 DEF ReadsOK
    <2> HIDE DEF again
    <2>2. QED
      BY <1>0, <2>1, ResultFields DEF Result
  <1> HIDE DEF new
  <1>3. results \in [Request -> Result] /\ \A id \in Request : results[id] = new(id)
    BY <1>2
  <1> HIDE DEF results
  <1>4. /\ p \in Page /\ p.results = results
        /\ p.turns = page.turns /\ p.submit = page.submit /\ p.approval = page.approval
        /\ p.revoke = page.revoke /\ p.stream = page.stream /\ p.lost = page.lost
        /\ p.config = config
    BY <1>0, <1>1, <1>3 DEF Page
  <1> HIDE DEF p
  <1>5. ASSUME NEW x \in Request
        PROVE  /\ p.results[x].data = page.results[x].data
               /\ p.results[x].failed = page.results[x].failed
               /\ \/ p.results[x].fetch = page.results[x].fetch
                  \/ p.results[x].fetch = Unserved /\ Known(page.results[x])
    BY <1>2, <1>3, <1>4
  <1>6. \/ p.config.fetch = page.config.fetch
        \/ page.config.fetch = None /\ p.config.fetch = Unserved
    BY <1>1, <1>4
  <1>7. p.config.data = page.config.data /\ p.config.failed = page.config.failed
    BY <1>1, <1>4
  <1>8. QED
    BY <1>0, <1>4, <1>5, <1>6, <1>7, ReadAgainKeeps

\* A step of the dialog.
LEMMA RevocationKeeps ==
  ASSUME PanelInv, NEW r \in Revocation, RenderAfter([page EXCEPT !.revoke = r], FALSE),
         UNCHANGED <<server, adrift, learned, questions, losses>>,
         r.state = "pending" => r.epoch # None /\ r.call = Unserved,
         acts' \in 0..MaxActs,
         page.revoke.state # "pending",
         acts' = acts \/ acts' = acts + 1,
         r.state = "pending" => acts' = acts + 1
  PROVE  PanelInv'
  <1> DEFINE p == [page EXCEPT !.revoke = r]
  <1>0. Types /\ PageOK(page, learned, admitted, consent.epoch) /\ page \in Page
    BY DEF PanelInv, Types
  <1>1. /\ p \in Page /\ p.revoke = r /\ p.config = page.config /\ p.results = page.results
        /\ p.turns = page.turns /\ p.submit = page.submit /\ p.approval = page.approval
        /\ p.stream = page.stream /\ p.lost = page.lost
    BY <1>0 DEF Page
  <1> HIDE DEF p
  <1>2. Unserved # None /\ Unserved \notin Epoch
    BY Apart
  <1>3. ConfigOK(p, learned, consent.epoch)
    BY <1>0, <1>1 DEF PageOK, ConfigOK
  <1>4. SubmitOK(p, admitted, consent.epoch)
    BY <1>0, <1>1 DEF PageOK, SubmitOK
  <1>5. RevokeOK(p, consent.epoch)
    BY <1>1, <1>2 DEF RevokeOK
  <1>6. /\ RowsOK(p, admitted) /\ FitsOK(p, admitted)
        /\ \A id \in Request : Known(page.results[id]) => Known(p.results[id])
    BY <1>0, <1>1, SameResults
  <1>7. Owed(p) - Owed(page) <= acts' - acts
    <2>1. acts \in Nat
      BY <1>0, Numbers
    <2>2. QED
      BY <1>1, <2>1 DEF Owed
  <1>8. UNCHANGED server /\ UNCHANGED <<adrift, questions, learned>> /\ losses' \in 0..MaxLosses
    BY <1>0 DEF Types
  <1>9. RenderAfter(p, FALSE)
    BY DEF p
  <1>10. QED
    BY <1>1, <1>3, <1>4, <1>5, <1>6, <1>7, <1>8, <1>9, UpdateKeeps

LEMMA DialogKeeps ==
  ASSUME PanelInv, OpenRevoke \/ CancelRevoke \/ ConfirmRevoke
  PROVE  PanelInv'
  <1>0. Types /\ page \in Page /\ acts \in 0..MaxActs
    BY DEF PanelInv, Types
  <1>1. Closed \in Revocation /\ Closed.state = "closed"
    BY DEF Closed, Revocation, Sent
  <1>2. CASE OpenRevoke
    <2> DEFINE r == [Closed EXCEPT !.state = "open"]
    <2>1. r \in Revocation /\ r.state = "open"
      BY <1>1 DEF Revocation
    <2>2. /\ page.revoke.state = "closed" /\ RenderAfter([page EXCEPT !.revoke = r], FALSE)
          /\ UNCHANGED <<server, adrift, learned, questions, losses>> /\ Act
      BY <1>2 DEF OpenRevoke, Render, OnlyPage
    <2>3. acts' \in 0..MaxActs /\ acts' = acts + 1
      BY <1>0, <2>2, ActFacts
    <2> HIDE DEF r
    <2>4. QED
      BY <2>1, <2>2, <2>3, RevocationKeeps
  <1>3. CASE CancelRevoke
    <2>1. /\ page.revoke.state # "pending" /\ RenderAfter([page EXCEPT !.revoke = Closed], FALSE)
          /\ UNCHANGED <<server, adrift, learned, questions, losses>> /\ acts' = acts
      BY <1>3 DEF CancelRevoke, Render, OnlyPage
    <2>2. QED
      BY <1>0, <1>1, <2>1, RevocationKeeps
  <1>4. CASE ConfirmRevoke
    <2> DEFINE r == [state |-> "pending", call |-> Unserved,
                     epoch |-> IF page.revoke.epoch = None THEN page.config.data.epoch
                               ELSE page.revoke.epoch]
    <2>1. /\ page.revoke.state # "pending" /\ page.config.data # None
          /\ RenderAfter([page EXCEPT !.revoke = r], FALSE)
          /\ UNCHANGED <<server, adrift, learned, questions, losses>> /\ Act
      BY <1>4 DEF ConfirmRevoke, Render, OnlyPage
    <2>2. page.config.data.epoch \in Epoch
      BY <1>0, <2>1, ConfigFields DEF Configuration
    <2>3. page.revoke.epoch \in Epoch \cup {None}
      BY <1>0, PageFields DEF Revocation
    <2>4. None \notin Epoch
      BY Apart
    <2>5. r \in Revocation /\ r.epoch # None /\ r.call = Unserved
      BY <2>2, <2>3, <2>4 DEF Revocation, Sent
    <2>6. acts' \in 0..MaxActs /\ acts' = acts + 1
      BY <1>0, <2>1, ActFacts
    <2> HIDE DEF r
    <2>7. QED
      BY <2>1, <2>5, <2>6, RevocationKeeps
  <1>5. QED
    BY <1>2, <1>3, <1>4

-----------------------------------------------------------------------------
(* Answers arrive *)

\* A panel that no longer checks.
LEMMA CheckedFacts ==
  ASSUME NEW rows, NEW epoch, SubmitOK(page, rows, epoch), page \in Page,
         NEW r \in Page, r.submit = page.submit, r.approval = page.approval
  PROVE  /\ Checked(r) \in Page
         /\ Checked(r).config = r.config /\ Checked(r).turns = r.turns
         /\ Checked(r).results = r.results /\ Checked(r).revoke = r.revoke
         /\ Checked(r).stream = r.stream /\ Checked(r).lost = r.lost
         /\ SubmitOK(Checked(r), rows, epoch)
         /\ Checked(r).submit.request = page.submit.request
         /\ Checked(r).submit.state # "checking"
         /\ Owed(Checked(r)) = Owed(r)
  <1>1. CASE r.submit.state = "checking"
    <2> DEFINE s == [page.submit EXCEPT !.state = "generating", !.call = Unserved]
    <2>1. Checked(r) = [r EXCEPT !.submit = s]
      BY <1>1 DEF Checked
    <2>2. s \in Submission /\ s.state = "generating" /\ s.call = Unserved
          /\ s.request = page.submit.request
      BY PageFields DEF Submission, Sent
    <2> HIDE DEF s
    <2>3. /\ Checked(r) \in Page /\ Checked(r).submit = s /\ Checked(r).approval = r.approval
          /\ Checked(r).config = r.config /\ Checked(r).turns = r.turns
          /\ Checked(r).results = r.results /\ Checked(r).revoke = r.revoke
          /\ Checked(r).stream = r.stream /\ Checked(r).lost = r.lost
      BY <2>1, <2>2 DEF Page
    <2>4. Unserved # None /\ Unserved \notin Epoch
      BY Apart
    <2>5. page.submit.request # None /\ page.approval = None /\ epoch > 0
      BY <1>1 DEF SubmitOK
    <2>6. SubmitOK(Checked(r), rows, epoch)
      BY <2>2, <2>3, <2>4, <2>5 DEF SubmitOK
    <2>7. Owed(Checked(r)) = Owed(r)
      BY <1>1, <2>2, <2>3 DEF Owed
    <2>8. QED
      BY <2>2, <2>3, <2>6, <2>7
  <1>2. CASE r.submit.state # "checking"
    <2>1. Checked(r) = r
      BY <1>2 DEF Checked
    <2>2. SubmitOK(r, rows, epoch)
      BY <1>2 DEF SubmitOK
    <2>3. QED
      BY <1>2, <2>1, <2>2
  <1>3. QED
    BY <1>1, <1>2

LEMMA MaxFacts ==
  ASSUME NEW a \in Epoch, NEW b \in Epoch
  PROVE  /\ Max(a, b) \in Epoch /\ Max(a, b) >= a /\ Max(a, b) >= b
         /\ a <= b => Max(a, b) = b
         /\ \A n \in Epoch : a <= n /\ b <= n => Max(a, b) <= n
  <1>1. \A n \in Epoch : n \in Nat
    <2>1. MaxActs \in Nat
      BY AnswerPanelAssumption
    <2>2. QED
      BY <2>1 DEF Epoch
  <1>2. a \in Nat /\ b \in Nat
    BY <1>1
  <1>3. QED
    BY <1>1, <1>2 DEF Max

LEMMA ConfigurationArrivesKeeps ==
  ASSUME PanelInv, ConfigurationArrives
  PROVE  PanelInv'
  <1> DEFINE data == page.config.fetch
             config == [data |-> data, failed |-> FALSE, fetch |-> None]
             r == [page EXCEPT !.config = config]
  <1>0. /\ Types /\ PageOK(page, learned, admitted, consent.epoch) /\ page \in Page
        /\ RenderAfter(Checked(r), FALSE) /\ data \notin {None, Unserved}
        /\ learned' = Max(learned, data.epoch)
        /\ UNCHANGED <<server, adrift, questions, acts, losses>>
    BY DEF PanelInv, Types, ConfigurationArrives, Render, Arriving
  <1>1. data \in Configuration /\ data.epoch \in Epoch /\ learned \in Epoch
    BY <1>0, ConfigFields DEF Configuration, Types
  <1>2. /\ config \in ConfigurationQuery /\ config.data = data /\ config.failed = FALSE
        /\ config.fetch = None
    BY <1>1 DEF ConfigurationQuery
  <1>3. data.epoch >= learned /\ Told(data, consent.epoch) /\ learned <= consent.epoch
    BY <1>0, <1>1 DEF PageOK, ConfigOK
  <1>4. data.epoch <= consent.epoch
    BY <1>1, <1>3 DEF Told
  <1>5. learned' = data.epoch /\ learned' \in Epoch /\ data.epoch >= learned'
    <2>1. data.epoch \in Nat /\ learned \in Nat
      BY <1>0, <1>1, Numbers
    <2>2. learned <= data.epoch
      BY <1>3, <2>1
    <2>3. QED
      BY <1>0, <1>1, <2>1, <2>2, MaxFacts
  <1> HIDE DEF config, data
  <1>6. /\ r \in Page /\ r.config = config /\ r.submit = page.submit /\ r.approval = page.approval
        /\ r.turns = page.turns /\ r.results = page.results /\ r.revoke = page.revoke
        /\ r.stream = page.stream /\ r.lost = page.lost
    BY <1>0, <1>2 DEF Page
  <1> HIDE DEF r
  <1>7. SubmitOK(page, admitted, consent.epoch)
    BY <1>0 DEF PageOK
  <1>8. PICK p \in Page :
            /\ p = Checked(r) /\ p.config = config /\ p.turns = page.turns
            /\ p.results = page.results /\ p.revoke = page.revoke
            /\ p.stream = page.stream /\ p.lost = page.lost
            /\ SubmitOK(p, admitted, consent.epoch)
            /\ p.submit.request = page.submit.request
            /\ Owed(p) = Owed(page)
    <2>1. Owed(r) = Owed(page)
      BY <1>6 DEF Owed
    <2>2. QED
      BY <1>0, <1>6, <1>7, <2>1, CheckedFacts
  <1>9. ConfigOK(p, learned', consent.epoch)
    <2>1. None \notin Configuration
      BY Apart
    <2>2. config.data # None
      BY <1>1, <1>2, <2>1
    <2>3. Told(p.config.data, consent.epoch) /\ Told(p.config.fetch, consent.epoch)
      BY <1>2, <1>3, <1>8, <2>1 DEF Told
    <2>4. QED
      BY <1>2, <1>4, <1>5, <1>8, <2>1, <2>2, <2>3 DEF ConfigOK
  <1>10. RevokeOK(p, consent.epoch) /\ TurnsOK(p, admitted) /\ RowsOK(p, admitted)
    BY <1>0, <1>8 DEF PageOK, RevokeOK, TurnsOK, RowsOK
  <1>11. ASSUME SameEpoch(p), NEW id \in Request, Fits(id, page, admitted)
         PROVE  Fits(id, p, admitted)
    BY <1>11 DEF SameEpoch, Fits
  <1>12. SameEpoch(p) => FitsOK(p, admitted)
    BY <1>0, <1>8, <1>11 DEF PageOK, FitsOK
  <1>13. ASSUME NEW id \in Request, Reads(page, id) PROVE Known(p.results[id])
    BY <1>0, <1>8, <1>13 DEF PageOK, ReadsOK
  <1>14. ASSUME SameEpoch(p), Following(p), Following(page),
                Latest(page).request.id = Latest(p).request.id
         PROVE  /\ p.stream # None /\ p.stream.event = "PUBLISHED" =>
                       Fits(Latest(p).request.id, p, admitted)
                /\ p.stream = None => p.lost = Latest(p).request.id
    <2>1. page.turns # <<>>
      BY <1>14 DEF Following
    <2>2. Latest(page).request.id \in Request
      BY <1>0, <2>1, LatestFields
    <2>3. /\ page.stream # None /\ page.stream.event = "PUBLISHED" =>
                 Fits(Latest(page).request.id, page, admitted)
          /\ page.stream = None => page.lost = Latest(page).request.id
      BY <1>0, <1>14 DEF PageOK, StreamOK
    <2>4. QED
      BY <1>8, <1>11, <1>14, <2>2, <2>3
  <1>15. Ready(p, learned', admitted, consent.epoch)
    BY <1>8, <1>9, <1>10, <1>12, <1>13, <1>14 DEF Ready
  <1>16. Owed(p) - Owed(page) <= acts' - acts
    <2>1. acts' = acts /\ acts \in Nat /\ Owed(page) \in 0..2
      BY <1>0, Numbers, OwedIsSmall
    <2>2. QED
      BY <1>8, <2>1
  <1>17. Ids(p) \subseteq Ids(page)
    BY <1>8 DEF Ids
  <1>18. acts' \in 0..MaxActs /\ losses' \in 0..MaxLosses
    BY <1>0 DEF Types
  <1>19. RenderAfter(p, FALSE) /\ UNCHANGED server /\ UNCHANGED <<adrift, questions>>
    BY <1>0, <1>8
  <1>20. QED
    BY <1>5, <1>8, <1>15, <1>16, <1>17, <1>18, <1>19, OnlyRenderKeeps

LEMMA ConfigurationFailsKeeps ==
  ASSUME PanelInv, ConfigurationFails
  PROVE  PanelInv'
  <1> DEFINE config == [page.config EXCEPT !.failed = TRUE, !.fetch = None]
             r == [page EXCEPT !.config = config]
  <1>0. /\ Types /\ PageOK(page, learned, admitted, consent.epoch) /\ page \in Page
        /\ RenderAfter(Checked(r), FALSE)
        /\ UNCHANGED <<server, adrift, learned, questions, acts>>
        /\ losses < MaxLosses /\ losses' = losses + 1
    BY DEF PanelInv, Types, ConfigurationFails, Render, Fail
  <1>1. /\ config \in ConfigurationQuery /\ config.data = page.config.data
        /\ config.failed = TRUE /\ config.fetch = None
    BY <1>0, PageFields DEF ConfigurationQuery
  <1> HIDE DEF config
  <1>2. /\ r \in Page /\ r.config = config /\ r.submit = page.submit /\ r.approval = page.approval
        /\ r.turns = page.turns /\ r.results = page.results /\ r.revoke = page.revoke
        /\ r.stream = page.stream /\ r.lost = page.lost
    BY <1>0, <1>1 DEF Page
  <1> HIDE DEF r
  <1>3. SubmitOK(page, admitted, consent.epoch)
    BY <1>0 DEF PageOK
  <1>4. PICK p \in Page :
            /\ p = Checked(r) /\ p.config = config /\ p.turns = page.turns
            /\ p.results = page.results /\ p.revoke = page.revoke
            /\ p.stream = page.stream /\ p.lost = page.lost
            /\ SubmitOK(p, admitted, consent.epoch)
            /\ p.submit.request = page.submit.request
            /\ Owed(p) = Owed(page)
    <2>1. Owed(r) = Owed(page)
      BY <1>2 DEF Owed
    <2>2. QED
      BY <1>0, <1>2, <1>3, <2>1, CheckedFacts
  <1>5. ConfigOK(p, learned, consent.epoch)
    <2>1. None \notin Configuration
      BY Apart
    <2>2. QED
      BY <1>0, <1>1, <1>4, <2>1 DEF PageOK, ConfigOK, Told
  <1>6. RevokeOK(p, consent.epoch)
    BY <1>0, <1>4 DEF PageOK, RevokeOK
  <1>7. p.config.data = page.config.data
    BY <1>1, <1>4
  <1>8. /\ RowsOK(p, admitted) /\ FitsOK(p, admitted)
        /\ \A id \in Request : Known(page.results[id]) => Known(p.results[id])
    BY <1>0, <1>4, <1>7, SameResults
  <1>9. Owed(p) - Owed(page) <= acts' - acts
    <2>1. acts' = acts /\ acts \in Nat /\ Owed(page) \in 0..2
      BY <1>0, Numbers, OwedIsSmall
    <2>2. QED
      BY <1>4, <2>1
  <1>10. acts' \in 0..MaxActs /\ losses' \in 0..MaxLosses
    BY <1>0, Apart DEF Types
  <1>11. RenderAfter(p, FALSE) /\ UNCHANGED server /\ UNCHANGED <<adrift, questions, learned>>
    BY <1>0, <1>4
  <1>12. QED
    BY <1>4, <1>5, <1>6, <1>7, <1>8, <1>9, <1>10, <1>11, UpdateKeeps

\* One query moves on.
LEMMA ResultKeeps ==
  ASSUME PanelInv, NEW id \in Request, NEW new \in Result, NEW again \in BOOLEAN,
         RenderAfter([page EXCEPT !.results = [page.results EXCEPT ![id] = new]], again),
         UNCHANGED <<server, adrift, learned, questions, acts>>, losses' \in 0..MaxLosses,
         Known(page.results[id]), Known(new),
         new.data = "PUBLISHED" \/ new.fetch = "PUBLISHED" =>
             page.results[id].data = "PUBLISHED" \/ page.results[id].fetch = "PUBLISHED"
  PROVE  PanelInv'
  <1> DEFINE results == [page.results EXCEPT ![id] = new]
             p == [page EXCEPT !.results = results]
  <1>0. /\ Types /\ PageOK(page, learned, admitted, consent.epoch) /\ page \in Page
        /\ RenderAfter(p, again)
    BY DEF PanelInv, Types
  <1>1. /\ results \in [Request -> Result] /\ results[id] = new
        /\ \A x \in Request : x # id => results[x] = page.results[x]
    BY <1>0, PageFields
  <1> HIDE DEF results
  <1>2. /\ p \in Page /\ p.results = results
        /\ p.turns = page.turns /\ p.submit = page.submit /\ p.approval = page.approval
        /\ p.revoke = page.revoke /\ p.stream = page.stream /\ p.lost = page.lost
        /\ p.config = page.config
    BY <1>0, <1>1 DEF Page
  <1> HIDE DEF p
  <1>3. RowsOK(page, admitted) /\ FitsOK(page, admitted)
    BY <1>0 DEF PageOK
  <1>4. ASSUME NEW x \in Request
        PROVE  /\ Known(p.results[x]) => Known(page.results[x])
               /\ Known(page.results[x]) => Known(p.results[x])
               /\ (p.results[x].data = "PUBLISHED" \/ p.results[x].fetch = "PUBLISHED") =>
                      (page.results[x].data = "PUBLISHED" \/ page.results[x].fetch = "PUBLISHED")
    <2>1. CASE x = id
      <3>1. p.results[x] = new
        BY <1>1, <1>2, <2>1
      <3>2. QED
        BY <2>1, <3>1
    <2>2. CASE x # id
      <3>1. p.results[x] = page.results[x]
        BY <1>1, <1>2, <2>2
      <3>2. QED
        BY <3>1
    <2>3. QED
      BY <2>1, <2>2
  <1>5. RowsOK(p, admitted)
    BY <1>3, <1>4 DEF RowsOK
  <1>6. FitsOK(p, admitted)
    BY <1>2, <1>3, <1>4 DEF FitsOK, Fits
  <1>7. ConfigOK(p, learned, consent.epoch)
    BY <1>0, <1>2 DEF PageOK, ConfigOK
  <1>8. SubmitOK(p, admitted, consent.epoch)
    BY <1>0, <1>2 DEF PageOK, SubmitOK
  <1>9. RevokeOK(p, consent.epoch)
    BY <1>0, <1>2 DEF PageOK, RevokeOK
  <1>10. Owed(p) - Owed(page) <= acts' - acts
    <2>1. acts' = acts /\ acts \in Nat /\ Owed(page) \in 0..2
      BY <1>0, Numbers, OwedIsSmall
    <2>2. Owed(p) = Owed(page)
      BY <1>2 DEF Owed
    <2>3. QED
      BY <2>1, <2>2
  <1>11. acts' \in 0..MaxActs
    BY <1>0 DEF Types
  <1>12. UNCHANGED server /\ UNCHANGED <<adrift, questions, learned>>
    OBVIOUS
  <1>13. QED
    BY <1>0, <1>2, <1>4, <1>5, <1>6, <1>7, <1>8, <1>9, <1>10, <1>11, <1>12, UpdateKeeps

LEMMA ReadArrivesKeeps ==
  ASSUME PanelInv, NEW id \in Request, ReadArrives(id)
  PROVE  PanelInv'
  <1> DEFINE new == [NoResult EXCEPT !.data = page.results[id].fetch]
             again == page.results[id].reconnect /\ page.results[id].fetch = "RUNNING"
  <1>0. /\ page \in Page /\ page.results[id].fetch \notin {None, Unserved}
        /\ RenderAfter([page EXCEPT !.results = [page.results EXCEPT ![id] = new]], again)
        /\ UNCHANGED <<server, adrift, learned, questions, acts, losses>>
        /\ losses \in 0..MaxLosses
    BY DEF PanelInv, Types, ReadArrives, Arriving
  <1>1. page.results[id].fetch \in Reports /\ page.results[id].reconnect \in BOOLEAN
    BY <1>0, ResultFields
  <1>2. /\ new \in Result /\ new.data = page.results[id].fetch /\ new.fetch = None
    BY <1>1 DEF NoResult, Result
  <1>3. None # "PUBLISHED"
    BY Apart DEF Reports
  <1>4. again \in BOOLEAN
    BY <1>1
  <1> HIDE DEF new, again
  <1>5. Known(page.results[id]) /\ Known(new)
    BY <1>0, <1>2 DEF Known
  <1>6. new.data = "PUBLISHED" \/ new.fetch = "PUBLISHED" =>
            page.results[id].data = "PUBLISHED" \/ page.results[id].fetch = "PUBLISHED"
    BY <1>2, <1>3
  <1>7. UNCHANGED <<server, adrift, learned, questions, acts>> /\ losses' \in 0..MaxLosses
    BY <1>0
  <1>8. QED
    BY <1>0, <1>2, <1>4, <1>5, <1>6, <1>7, ResultKeeps

LEMMA ReadFailsKeeps ==
  ASSUME PanelInv, NEW id \in Request, ReadFails(id)
  PROVE  PanelInv'
  <1> DEFINE new == [page.results[id] EXCEPT !.failed = TRUE, !.fetch = None, !.reconnect = FALSE]
  <1>0. /\ page \in Page /\ page.results[id].fetch # None
        /\ RenderAfter([page EXCEPT !.results = [page.results EXCEPT ![id] = new]], FALSE)
        /\ UNCHANGED <<server, adrift, learned, questions, acts>>
        /\ losses < MaxLosses /\ losses' = losses + 1 /\ losses \in 0..MaxLosses
    BY DEF PanelInv, Types, ReadFails, Render, Fail
  <1>1. /\ new \in Result /\ new.data = page.results[id].data /\ new.fetch = None /\ new.failed
    BY <1>0, ResultFields DEF Result
  <1>2. None # "PUBLISHED"
    BY Apart DEF Reports
  <1> HIDE DEF new
  <1>3. Known(page.results[id]) /\ Known(new)
    BY <1>0, <1>1 DEF Known
  <1>4. new.data = "PUBLISHED" \/ new.fetch = "PUBLISHED" =>
            page.results[id].data = "PUBLISHED" \/ page.results[id].fetch = "PUBLISHED"
    BY <1>1, <1>2
  <1>5. losses' \in 0..MaxLosses
    BY <1>0, Apart
  <1>6. QED
    BY <1>0, <1>1, <1>3, <1>4, <1>5, ResultKeeps

LEMMA StreamLostKeeps ==
  ASSUME PanelInv, StreamBreaks \/ StreamEnds
  PROVE  PanelInv'
  <1> DEFINE id == Latest(page).request.id
             p == [page EXCEPT !.stream = None, !.lost = id]
  <1>0. /\ Types /\ PageOK(page, learned, admitted, consent.epoch) /\ page \in Page
        /\ page.stream # None /\ RenderAfter(p, FALSE)
        /\ UNCHANGED <<server, adrift, learned, questions, acts>>
        /\ losses' \in 0..MaxLosses
    <2>1. losses \in 0..MaxLosses /\ MaxLosses \in Nat
      BY Apart DEF PanelInv, Types
    <2>2. Types /\ PageOK(page, learned, admitted, consent.epoch) /\ page \in Page
      BY DEF PanelInv, Types
    <2>3. CASE StreamBreaks
      <3>1. /\ page.stream # None /\ RenderAfter(p, FALSE)
            /\ UNCHANGED <<server, adrift, learned, questions, acts>>
        BY <2>3 DEF StreamBreaks, StreamLost, Render, Fail
      <3>2. losses < MaxLosses /\ losses' = losses + 1
        BY <2>3 DEF StreamBreaks, Fail
      <3>3. losses' \in 0..MaxLosses
        BY <2>1, <3>2
      <3>4. QED
        BY <2>2, <3>1, <3>3
    <2>4. CASE StreamEnds
      <3>1. /\ page.stream # None /\ RenderAfter(p, FALSE)
            /\ UNCHANGED <<server, adrift, learned, questions, acts, losses>>
        BY <2>4 DEF StreamEnds, StreamLost, Render, Arriving
      <3>2. QED
        BY <2>1, <2>2, <3>1
    <2>5. QED
      BY <2>3, <2>4
  <1>1. id \in Request
    <2>1. page.turns # <<>>
      BY <1>0 DEF PageOK, StreamOK, Following
    <2>2. QED
      BY <1>0, <2>1, LatestFields
  <1>2. id = Latest(page).request.id
    OBVIOUS
  <1> HIDE DEF id
  <1>3. /\ p \in Page /\ p.lost = id /\ p.stream = None /\ p.results = page.results
        /\ p.turns = page.turns /\ p.submit = page.submit /\ p.approval = page.approval
        /\ p.revoke = page.revoke /\ p.config = page.config
    BY <1>0, <1>1 DEF Page
  <1> HIDE DEF p
  <1>4. /\ RowsOK(p, admitted) /\ FitsOK(p, admitted)
        /\ \A x \in Request : Known(page.results[x]) => Known(p.results[x])
    BY <1>0, <1>3, SameResults
  <1>5. ConfigOK(p, learned', consent.epoch)
    BY <1>0, <1>3 DEF PageOK, ConfigOK
  <1>6. SubmitOK(p, admitted, consent.epoch)
    BY <1>0, <1>3 DEF PageOK, SubmitOK
  <1>7. RevokeOK(p, consent.epoch) /\ TurnsOK(p, admitted)
    BY <1>0, <1>3 DEF PageOK, RevokeOK, TurnsOK
  <1>8. ASSUME NEW x \in Request, Reads(page, x) PROVE Known(p.results[x])
    BY <1>0, <1>4, <1>8 DEF PageOK, ReadsOK
  <1>9. p.lost = Latest(p).request.id
    BY <1>2, <1>3 DEF Latest
  <1>10. Ready(p, learned', admitted, consent.epoch)
    BY <1>3, <1>4, <1>5, <1>6, <1>7, <1>8, <1>9 DEF Ready
  <1>11. Owed(p) - Owed(page) <= acts' - acts
    <2>1. acts' = acts /\ acts \in Nat /\ Owed(page) \in 0..2
      BY <1>0, Numbers, OwedIsSmall
    <2>2. Owed(p) = Owed(page)
      BY <1>3 DEF Owed
    <2>3. QED
      BY <2>1, <2>2
  <1>12. Ids(p) \subseteq Ids(page)
    BY <1>3 DEF Ids
  <1>13. acts' \in 0..MaxActs /\ learned' \in Epoch
    BY <1>0 DEF Types
  <1>14. UNCHANGED server /\ UNCHANGED <<adrift, questions>>
    BY <1>0
  <1>15. QED
    BY <1>0, <1>3, <1>10, <1>11, <1>12, <1>13, <1>14, OnlyRenderKeeps

LEMMA EventArrivesKeeps ==
  ASSUME PanelInv, EventArrives
  PROVE  PanelInv'
  <1> DEFINE id == Latest(page).request.id
             event == page.stream.event
             new == [page.results[id] EXCEPT !.data = event, !.failed = FALSE]
             results == [page.results EXCEPT ![id] = new]
             stream == [page.stream EXCEPT !.event = None]
             p == [page EXCEPT !.results = results, !.stream = stream]
  <1>0. /\ Types /\ PageOK(page, learned, admitted, consent.epoch) /\ page \in Page
        /\ page.stream # None /\ event # None
        /\ UNCHANGED <<server, adrift, learned, questions, acts, losses>>
    BY DEF PanelInv, Types, EventArrives, Arriving
  <1>1. page.stream \in Stream /\ event \in Reports
    BY <1>0, PageFields DEF Stream
  <1>2. /\ Following(page) /\ page.turns # <<>>
        /\ event = "PUBLISHED" => Fits(id, page, admitted)
    BY <1>0 DEF PageOK, StreamOK, Following
  <1>3. id \in Request /\ page.results[id].data = "RUNNING"
    BY <1>0, <1>2, LatestFields DEF Following, LatestResult
  <1>4. RenderAfter(p, FALSE)
    BY <1>0, <1>3 DEF EventArrives, Render
  <1>5. id = Latest(page).request.id
    OBVIOUS
  <1>6. /\ new \in Result /\ new.data = event /\ new.failed = FALSE
        /\ new.fetch = page.results[id].fetch
    <2>1. page.results[id] \in Result /\ event \in Reports
      BY <1>0, <1>1, <1>3, ResultFields
    <2> HIDE DEF event, id
    <2>2. QED
      BY <2>1, ResultWith
  <1>7. stream \in Stream /\ stream # None /\ stream.event = None
    <2>1. stream \in Stream /\ stream.event = None
      BY <1>1 DEF Stream
    <2>2. QED
      BY <2>1, Apart
  <1> HIDE DEF new, event, stream, id
  <1>8. /\ results \in [Request -> Result] /\ results[id] = new
        /\ \A x \in Request : x # id => results[x] = page.results[x]
    BY <1>0, <1>3, <1>6, PageFields
  <1> HIDE DEF results
  <1>9. /\ p \in Page /\ p.results = results /\ p.stream = stream /\ p.lost = page.lost
        /\ p.turns = page.turns /\ p.submit = page.submit /\ p.approval = page.approval
        /\ p.revoke = page.revoke /\ p.config = page.config
    BY <1>0, <1>7, <1>8 DEF Page
  <1> HIDE DEF p
  <1>10. None \notin Reports /\ "RUNNING" \in Reports /\ None # "PUBLISHED"
    BY Apart DEF Reports
  <1>11. Known(page.results[id]) /\ Known(p.results[id])
    BY <1>1, <1>3, <1>6, <1>8, <1>9, <1>10 DEF Known
  <1>12. RowsOK(p, admitted)
    <2>1. ASSUME NEW x \in Request, Known(p.results[x]) PROVE admitted[x] # None
      <3>1. Known(page.results[x])
        BY <1>8, <1>9, <1>11, <2>1
      <3>2. QED
        BY <1>0, <3>1 DEF PageOK, RowsOK
    <2>2. QED
      BY <2>1 DEF RowsOK
  <1>13. FitsOK(p, admitted)
    <2>1. ASSUME NEW x \in Request,
                 p.results[x].data = "PUBLISHED" \/ p.results[x].fetch = "PUBLISHED"
          PROVE  Fits(x, page, admitted)
      <3>1. CASE x = id /\ event = "PUBLISHED"
        BY <1>2, <3>1
      <3>2. CASE ~(x = id /\ event = "PUBLISHED")
        <4>1. page.results[x].data = "PUBLISHED" \/ page.results[x].fetch = "PUBLISHED"
          BY <1>6, <1>8, <1>9, <2>1, <3>2
        <4>2. QED
          BY <1>0, <4>1 DEF PageOK, FitsOK
      <3>3. QED
        BY <3>1, <3>2
    <2>2. QED
      BY <1>9, <2>1 DEF FitsOK, Fits
  <1>14. ConfigOK(p, learned', consent.epoch)
    BY <1>0, <1>9 DEF PageOK, ConfigOK
  <1>15. SubmitOK(p, admitted, consent.epoch)
    BY <1>0, <1>9 DEF PageOK, SubmitOK
  <1>16. RevokeOK(p, consent.epoch) /\ TurnsOK(p, admitted)
    BY <1>0, <1>9 DEF PageOK, RevokeOK, TurnsOK
  <1>17. ASSUME NEW x \in Request, Reads(page, x) PROVE Known(p.results[x])
    <2>1. Known(page.results[x])
      BY <1>0, <1>17 DEF PageOK, ReadsOK
    <2>2. QED
      BY <1>8, <1>9, <1>11, <2>1
  <1>18. Ready(p, learned', admitted, consent.epoch)
    BY <1>7, <1>9, <1>10, <1>12, <1>13, <1>14, <1>15, <1>16, <1>17 DEF Ready
  <1>19. Owed(p) - Owed(page) <= acts' - acts
    <2>1. acts' = acts /\ acts \in Nat /\ Owed(page) \in 0..2
      BY <1>0, Numbers, OwedIsSmall
    <2>2. Owed(p) = Owed(page)
      BY <1>9 DEF Owed
    <2>3. QED
      BY <2>1, <2>2
  <1>20. Ids(p) \subseteq Ids(page)
    BY <1>9 DEF Ids
  <1>21. acts' \in 0..MaxActs /\ learned' \in Epoch /\ losses' \in 0..MaxLosses
    BY <1>0 DEF Types
  <1>22. UNCHANGED server /\ UNCHANGED <<adrift, questions>>
    BY <1>0
  <1>23. QED
    BY <1>4, <1>9, <1>18, <1>19, <1>20, <1>21, <1>22, OnlyRenderKeeps

-----------------------------------------------------------------------------
(* Submissions and revocations end *)

LEMMA OneMoreCall ==
  ASSUME NEW calls, IsFiniteSet(calls), NEW c
  PROVE  /\ IsFiniteSet(calls \cup {c})
         /\ Cardinality(Unspent(calls \cup {c})) <=
                Cardinality(Unspent(calls)) + (IF c.kind \in {"grant", "revoke"} THEN 1 ELSE 0)
         /\ Cardinality(Unspent(calls)) \in Nat /\ Cardinality(Unspent(calls \cup {c})) \in Nat
  <1>1. IsFiniteSet(Unspent(calls)) /\ Cardinality(Unspent(calls)) \in Nat
    BY UnspentIsFinite
  <1>2. IsFiniteSet(calls \cup {c})
    BY FS_AddElement
  <1>3. Cardinality(Unspent(calls \cup {c})) \in Nat
    BY <1>2, UnspentIsFinite
  <1>4. CASE c.kind \in {"grant", "revoke"}
    <2>1. Unspent(calls \cup {c}) = Unspent(calls) \cup {c}
      BY <1>4 DEF Unspent
    <2>2. Cardinality(Unspent(calls) \cup {c}) <= Cardinality(Unspent(calls)) + 1
      <3>1. Cardinality(Unspent(calls) \cup {c}) = IF c \in Unspent(calls)
                                                    THEN Cardinality(Unspent(calls))
                                                    ELSE Cardinality(Unspent(calls)) + 1
        BY <1>1, FS_AddElement
      <3>2. QED
        BY <1>1, <3>1
    <2>3. QED
      BY <1>1, <1>2, <1>3, <1>4, <2>1, <2>2
  <1>5. CASE c.kind \notin {"grant", "revoke"}
    <2>1. Unspent(calls \cup {c}) = Unspent(calls)
      BY <1>5 DEF Unspent
    <2>2. QED
      BY <1>1, <1>2, <1>3, <1>5, <2>1
  <1>6. QED
    BY <1>4, <1>5

\* The panel gives up a call.
LEMMA GivesUpKeeps ==
  ASSUME PanelInv, NEW p \in Page, NEW again \in BOOLEAN, RenderAfter(p, again), UNCHANGED server,
         Ready(p, learned', admitted, consent.epoch), NEW c \in Call,
         adrift' = adrift \cup {c}, UNCHANGED <<questions, acts>>,
         learned' \in Epoch, losses' \in 0..MaxLosses,
         Ids(p) \subseteq Ids(page), p.submit.request \in {None, page.submit.request},
         c.request \in {None, page.submit.request},
         Sends(c) => consent.epoch > 0,
         Owed(p) <= Owed(page),
         c.kind \in {"grant", "revoke"} => Owed(p) + 1 <= Owed(page)
  PROVE  PanelInv'
  <1>1. Types /\ ConsentOK /\ ActsCover /\ QuestionsCover
    BY DEF PanelInv
  <1>2. IsFiniteSet(adrift) /\ adrift \subseteq Call
    BY <1>1 DEF Types
  <1>3. Drawing(admitted, p, adrift') \in SUBSET Drawn
    BY DrawnIs DEF Drawing
  <1>4. /\ IsFiniteSet(Drawing(admitted, p, adrift'))
        /\ Cardinality(Drawing(admitted, p, adrift')) <= questions'
    BY <1>1, <1>3, DrawsNothing DEF Types
  <1>5. consent.epoch + Owed(p) + Cardinality(Unspent(adrift')) <= acts'
    <2> DEFINE more == IF c.kind \in {"grant", "revoke"} THEN 1 ELSE 0
    <2>1. /\ Cardinality(Unspent(adrift')) <= Cardinality(Unspent(adrift)) + more
          /\ Cardinality(Unspent(adrift)) \in Nat /\ Cardinality(Unspent(adrift')) \in Nat
      BY <1>2, OneMoreCall
    <2>2. more \in 0..1 /\ Owed(p) + more <= Owed(page)
      <3>1. Owed(p) \in 0..2 /\ Owed(page) \in 0..2
        BY OwedIsSmall
      <3>2. QED
        BY <3>1
    <2>3. consent.epoch \in Nat /\ acts \in Nat /\ acts' = acts
      BY <1>1, Numbers
    <2>4. Owed(p) \in 0..2 /\ Owed(page) \in 0..2
      BY OwedIsSmall
    <2>5. consent.epoch + Owed(page) + Cardinality(Unspent(adrift)) <= acts
      BY <1>1 DEF ActsCover
    <2> HIDE DEF more
    <2>6. QED
      BY <2>1, <2>2, <2>3, <2>4, <2>5
  <1>6. \A x \in adrift' : Sends(x) => consent.epoch > 0
    BY <1>1 DEF ConsentOK
  <1>7. adrift' \subseteq Call /\ IsFiniteSet(adrift')
    BY <1>2, OneMoreCall
  <1>8. questions' \in Nat /\ acts' \in 0..MaxActs
    BY <1>1 DEF Types
  <1>9. QED
    BY <1>4, <1>5, <1>6, <1>7, <1>8, RenderKeeps

LEMMA WithoutFacts ==
  ASSUME NEW submit \in Submission, NEW state \in {"failed", "checking"}
  PROVE  /\ Without(submit, state) \in Submission /\ Without(submit, state).state = state
         /\ Without(submit, state).request = submit.request
         /\ Without(submit, state).call = None
  BY DEF Without, Submission, Sent

\* A submission that fails.
LEMMA FailedReady ==
  ASSUME PanelInv, page.submit.state \in {"granting", "generating"}, learned' = learned
  PROVE  \E p \in Page :
             /\ p = [page EXCEPT !.submit = Without(page.submit, "failed")]
             /\ Ready(p, learned', admitted, consent.epoch)
             /\ Ids(p) = Ids(page) /\ p.submit.request = page.submit.request
             /\ Owed(p) <= Owed(page)
             /\ page.submit.state = "granting" /\ page.submit.call = Unserved =>
                    Owed(p) + 1 <= Owed(page)
  <1> DEFINE s == Without(page.submit, "failed")
             p == [page EXCEPT !.submit = s]
  <1>0. Types /\ PageOK(page, learned, admitted, consent.epoch) /\ page \in Page
    BY DEF PanelInv, Types
  <1>1. /\ s \in Submission /\ s.state = "failed" /\ s.request = page.submit.request
        /\ s.call = None
    BY <1>0, PageFields, WithoutFacts
  <1> HIDE DEF s
  <1>2. /\ p \in Page /\ p.submit = s /\ p.results = page.results
        /\ p.turns = page.turns /\ p.approval = page.approval
        /\ p.revoke = page.revoke /\ p.config = page.config
        /\ p.stream = page.stream /\ p.lost = page.lost
    BY <1>0, <1>1 DEF Page
  <1>3. p = [page EXCEPT !.submit = Without(page.submit, "failed")]
    BY DEF s
  <1> HIDE DEF p
  <1>4. /\ RowsOK(p, admitted) /\ FitsOK(p, admitted)
        /\ \A x \in Request : Known(page.results[x]) => Known(p.results[x])
    BY <1>0, <1>2, SameResults
  <1>5. ConfigOK(p, learned', consent.epoch)
    BY <1>0, <1>1, <1>2 DEF PageOK, ConfigOK
  <1>6. SubmitOK(p, admitted, consent.epoch)
    BY <1>0, <1>1, <1>2 DEF PageOK, SubmitOK
  <1>7. RevokeOK(p, consent.epoch) /\ TurnsOK(p, admitted)
    BY <1>0, <1>2 DEF PageOK, RevokeOK, TurnsOK
  <1>8. Ready(p, learned', admitted, consent.epoch)
    BY <1>0, <1>2, <1>4, <1>5, <1>6, <1>7, StaysReady
  <1>9. Ids(p) = Ids(page)
    BY <1>2 DEF Ids
  <1>10. /\ Owed(p) <= Owed(page)
         /\ page.submit.state = "granting" /\ page.submit.call = Unserved =>
                Owed(p) + 1 <= Owed(page)
    BY <1>1, <1>2 DEF Owed
  <1>11. QED
    BY <1>1, <1>2, <1>3, <1>8, <1>9, <1>10

LEMMA SubmissionFails ==
  ASSUME PanelInv, page.submit.state \in {"granting", "generating"},
         RenderAfter([page EXCEPT !.submit = Without(page.submit, "failed")], FALSE),
         UNCHANGED <<server, adrift, learned, questions, acts>>, losses' \in 0..MaxLosses
  PROVE  PanelInv'
  <1>1. learned' = learned /\ Types
    BY DEF PanelInv
  <1>2. PICK p \in Page :
            /\ p = [page EXCEPT !.submit = Without(page.submit, "failed")]
            /\ Ready(p, learned', admitted, consent.epoch)
            /\ Ids(p) = Ids(page) /\ p.submit.request = page.submit.request
            /\ Owed(p) <= Owed(page)
    BY <1>1, FailedReady
  <1>3. Owed(p) - Owed(page) <= acts' - acts
    <2>1. acts' = acts /\ acts \in Nat /\ Owed(page) \in 0..2 /\ Owed(p) \in 0..2
      BY <1>1, Numbers, OwedIsSmall
    <2>2. QED
      BY <1>2, <2>1
  <1>4. acts' \in 0..MaxActs /\ learned' \in Epoch
    BY <1>1 DEF Types
  <1>5. RenderAfter(p, FALSE) /\ UNCHANGED server /\ UNCHANGED <<adrift, questions>>
    BY <1>2
  <1>6. QED
    BY <1>2, <1>3, <1>4, <1>5, OnlyRenderKeeps

LEMMA SubmitFailsKeeps ==
  ASSUME PanelInv, SubmitFails
  PROVE  PanelInv'
  <1> DEFINE c == Failed(page.submit)
  <1>0. /\ Types /\ PageOK(page, learned, admitted, consent.epoch) /\ page \in Page
        /\ page.submit.state \in {"granting", "generating"}
        /\ RenderAfter([page EXCEPT !.submit = Without(page.submit, "failed")], FALSE)
        /\ UNCHANGED <<server, learned, questions, acts>>
        /\ losses < MaxLosses /\ losses' = losses + 1
        /\ adrift' = IF page.submit.call # Unserved THEN adrift ELSE adrift \cup {c}
    BY DEF PanelInv, Types, SubmitFails, Render, Fail
  <1>1. losses' \in 0..MaxLosses
    BY <1>0, Apart DEF Types
  <1>2. CASE page.submit.call # Unserved
    BY <1>0, <1>1, <1>2, SubmissionFails
  <1>3. CASE page.submit.call = Unserved
    <2>1. learned' = learned
      BY <1>0
    <2>2. PICK p \in Page :
              /\ p = [page EXCEPT !.submit = Without(page.submit, "failed")]
              /\ Ready(p, learned', admitted, consent.epoch)
              /\ Ids(p) = Ids(page) /\ p.submit.request = page.submit.request
              /\ Owed(p) <= Owed(page)
              /\ page.submit.state = "granting" /\ page.submit.call = Unserved =>
                     Owed(p) + 1 <= Owed(page)
      BY <1>0, <2>1, FailedReady
    <2>3. /\ page.submit \in Submission /\ page.submit.request \in Question \cup {None}
          /\ page.submit.wanted \in Approval \cup {None}
      BY <1>0, PageFields DEF Submission
    <2>4. /\ page.submit.request # None
          /\ page.submit.state = "granting" => page.submit.wanted # None
          /\ page.submit.state = "generating" => consent.epoch > 0
      BY <1>0 DEF PageOK, SubmitOK
    <2>5. /\ c \in Call /\ c.request \in {None, page.submit.request}
          /\ Sends(c) => consent.epoch > 0
          /\ c.kind \in {"grant", "revoke"} => page.submit.state = "granting"
      <3>1. CASE page.submit.state = "granting"
        <4>1. /\ c = [kind |-> "grant", wanted |-> page.submit.wanted, request |-> None]
              /\ page.submit.wanted \in Approval
          BY <2>3, <2>4, <3>1 DEF Failed, On
        <4>2. c \in [kind: {"grant"}, wanted: Approval, request: Question \cup {None}]
          BY <4>1
        <4>3. QED
          BY <3>1, <4>1, <4>2 DEF Call, Sends
      <3>2. CASE page.submit.state = "generating"
        <4>1. /\ c = [kind |-> "generate", wanted |-> None, request |-> page.submit.request]
              /\ page.submit.request \in Question
          BY <2>3, <2>4, <3>2 DEF Failed, On
        <4>2. c \in [kind: {"granted", "generate"}, wanted: {None}, request: Question]
          BY <4>1
        <4>3. QED
          BY <2>4, <3>2, <4>1, <4>2 DEF Call, Sends
      <3>3. QED
        BY <1>0, <3>1, <3>2
    <2> HIDE DEF c
    <2>6. adrift' = adrift \cup {c}
      BY <1>0, <1>3
    <2>7. c.kind \in {"grant", "revoke"} => Owed(p) + 1 <= Owed(page)
      BY <1>3, <2>2, <2>5
    <2>8. learned' \in Epoch
      BY <1>0 DEF Types
    <2>9. RenderAfter(p, FALSE) /\ UNCHANGED server /\ UNCHANGED <<questions, acts>>
      BY <1>0, <2>2
    <2>10. QED
      BY <1>1, <2>2, <2>5, <2>6, <2>7, <2>8, <2>9, GivesUpKeeps
  <1>4. QED
    BY <1>2, <1>3

LEMMA GrantArrivesKeeps ==
  ASSUME PanelInv, GrantArrives
  PROVE  PanelInv'
  <1>0. /\ Types /\ PageOK(page, learned, admitted, consent.epoch) /\ page \in Page
        /\ page.submit.state = "granting" /\ page.submit.call # Unserved
        /\ RenderAfter(AfterGrant(page), FALSE)
        /\ UNCHANGED <<server, adrift, questions, acts, losses>>
        /\ learned' = IF page.submit.call = Refused THEN learned ELSE Max(learned, page.submit.call)
    BY DEF PanelInv, Types, GrantArrives, Render, Arriving
  <1>1. losses' \in 0..MaxLosses /\ acts' \in 0..MaxActs /\ learned \in Epoch
    BY <1>0 DEF Types
  <1>2. CASE page.submit.call = Refused
    <2>1. RenderAfter([page EXCEPT !.submit = Without(page.submit, "failed")], FALSE)
      BY <1>0, <1>2 DEF AfterGrant
    <2>2. page.submit.state \in {"granting", "generating"} /\ learned' = learned
      BY <1>0, <1>2
    <2>3. UNCHANGED <<server, adrift, learned, questions, acts>>
      BY <1>0, <2>2
    <2>4. QED
      BY <1>1, <2>1, <2>2, <2>3, SubmissionFails
  <1>3. CASE page.submit.call # Refused
    <2> DEFINE s == Without(page.submit, "checking")
               r == [page EXCEPT !.submit = s, !.approval = None]
    <2>1. page.submit.call \in Epoch
      <3>1. page.submit.call \in Sent /\ page.submit.call # None
        BY <1>0, PageFields DEF Submission, PageOK, SubmitOK
      <3>2. QED
        BY <1>0, <1>3, <3>1 DEF Sent
    <2>2. consent.epoch > 0 /\ page.submit.call <= consent.epoch /\ page.submit.request # None
      BY <1>0, <2>1 DEF PageOK, SubmitOK
    <2>3. /\ s \in Submission /\ s.state = "checking" /\ s.request = page.submit.request
          /\ s.call = None
      BY <1>0, PageFields, WithoutFacts
    <2>4. RenderAfter(Invalidated(r), FALSE)
      BY <1>0, <1>3 DEF AfterGrant
    <2> HIDE DEF s
    <2>5. /\ r \in Page /\ r.submit = s /\ r.results = page.results
          /\ r.turns = page.turns /\ r.approval = None
          /\ r.revoke = page.revoke /\ r.config = page.config
          /\ r.stream = page.stream /\ r.lost = page.lost
      BY <1>0, <2>3 DEF Page
    <2> HIDE DEF r
    <2>6. PICK p \in Page :
              /\ p = Invalidated(r) /\ p.turns = page.turns /\ p.submit = s
              /\ p.config.data = page.config.data /\ p.config.failed = page.config.failed
              /\ p.config.fetch = Unserved /\ p.approval = None
              /\ p.results = page.results /\ p.revoke = page.revoke
              /\ p.stream = page.stream /\ p.lost = page.lost
      BY <2>5, InvalidatedFacts
    <2>7. Unserved # None /\ Unserved \notin Configuration
      BY Apart
    <2>8. learned' \in Epoch /\ learned' <= consent.epoch
      <3>1. learned <= consent.epoch /\ consent.epoch \in Epoch
        BY <1>0 DEF PageOK, ConfigOK, Types
      <3>2. QED
        BY <1>0, <1>1, <1>3, <2>1, <2>2, <3>1, MaxFacts
    <2>9. ConfigOK(p, learned', consent.epoch)
      BY <1>0, <2>3, <2>6, <2>7, <2>8 DEF PageOK, ConfigOK, Told
    <2>10. SubmitOK(p, admitted, consent.epoch)
      BY <2>2, <2>3, <2>6, <2>7 DEF SubmitOK
    <2>11. RevokeOK(p, consent.epoch) /\ TurnsOK(p, admitted)
      BY <1>0, <2>6 DEF PageOK, RevokeOK, TurnsOK
    <2>12. /\ RowsOK(p, admitted) /\ FitsOK(p, admitted)
           /\ \A x \in Request : Known(page.results[x]) => Known(p.results[x])
      BY <1>0, <2>6, SameResults
    <2>13. Ready(p, learned', admitted, consent.epoch)
      BY <1>0, <2>6, <2>9, <2>10, <2>11, <2>12, StaysReady
    <2>14. Owed(p) - Owed(page) <= acts' - acts
      <3>1. acts' = acts /\ acts \in Nat /\ Owed(page) \in 0..2
        BY <1>0, Numbers, OwedIsSmall
      <3>2. Owed(p) = Owed(page)
        BY <1>0, <2>3, <2>6 DEF Owed
      <3>3. QED
        BY <3>1, <3>2
    <2>15. Ids(p) \subseteq Ids(page)
      BY <2>6 DEF Ids
    <2>16. RenderAfter(p, FALSE) /\ UNCHANGED server /\ UNCHANGED <<adrift, questions>>
      BY <1>0, <2>4, <2>6
    <2>17. QED
      BY <1>1, <2>3, <2>6, <2>8, <2>13, <2>14, <2>15, <2>16, OnlyRenderKeeps
  <1>4. QED
    BY <1>2, <1>3

LEMMA GenerateArrivesKeeps ==
  ASSUME PanelInv, GenerateArrives
  PROVE  PanelInv'
  <1>0. /\ Types /\ PageOK(page, learned, admitted, consent.epoch) /\ page \in Page
        /\ page.submit.state = "generating" /\ page.submit.call # Unserved
        /\ RenderAfter(AfterGenerate(page), FALSE)
        /\ UNCHANGED <<server, adrift, learned, questions, acts, losses>>
    BY DEF PanelInv, Types, GenerateArrives, Render, Arriving
  <1>1. losses' \in 0..MaxLosses /\ acts' \in 0..MaxActs /\ learned' \in Epoch
    BY <1>0 DEF Types
  <1>2. CASE page.submit.call = Refused
    <2>1. RenderAfter([page EXCEPT !.submit = Without(page.submit, "failed")], FALSE)
      BY <1>0, <1>2 DEF AfterGenerate
    <2>2. page.submit.state \in {"granting", "generating"}
      BY <1>0
    <2>3. UNCHANGED <<server, adrift, learned, questions, acts>>
      BY <1>0
    <2>4. QED
      BY <1>1, <2>1, <2>2, <2>3, SubmissionFails
  <1>3. CASE page.submit.call # Refused
    <2> DEFINE new(i) == IF page.turns[i].request.id = page.submit.request.id
                         THEN [page.turns[i] EXCEPT !.accepted = TRUE] ELSE page.turns[i]
               turns == [i \in DOMAIN page.turns |-> new(i)]
               p == [page EXCEPT !.submit = Idle, !.turns = turns]
    <2>1. page.submit.call \in Epoch
      <3>1. page.submit.call \in Sent /\ page.submit.call # None
        BY <1>0, PageFields DEF Submission, PageOK, SubmitOK
      <3>2. QED
        BY <1>0, <1>3, <3>1 DEF Sent
    <2>2. admitted[page.submit.request.id] # None
      BY <1>0, <2>1 DEF PageOK, SubmitOK
    <2>3. RenderAfter(p, FALSE)
      BY <1>0, <1>3 DEF AfterGenerate
    <2>4. Idle \in Submission /\ Idle.state = "idle" /\ Idle.request = None
      BY DEF Idle, Submission, Sent
    <2>5. ASSUME NEW i \in DOMAIN page.turns
          PROVE  /\ new(i) \in Turn /\ new(i).request = page.turns[i].request
                 /\ page.turns[i].accepted => new(i).accepted
                 /\ new(i).accepted => admitted[new(i).request.id] # None
      <3>1. page.turns[i] \in Turn
        BY <1>0, TurnFields
      <3>2. page.turns[i].accepted => admitted[page.turns[i].request.id] # None
        BY <1>0 DEF PageOK, TurnsOK
      <3>3. QED
        BY <2>2, <3>1, <3>2 DEF Turn
    <2>6. /\ page.turns \in Seq(Turn) /\ DOMAIN page.turns = 1..Len(page.turns)
          /\ Len(page.turns) \in Nat
      <3>1. page.turns \in Seq(Turn)
        BY <1>0, PageFields
      <3>2. QED
        BY <3>1, LenProperties
    <2> HIDE DEF new
    <2>7. /\ turns \in Seq(Turn) /\ DOMAIN turns = DOMAIN page.turns
          /\ Len(turns) = Len(page.turns)
          /\ \A i \in DOMAIN page.turns : turns[i] = new(i)
      <3>1. turns \in [1..Len(page.turns) -> Turn]
        BY <2>5, <2>6
      <3>2. turns \in Seq(Turn)
        BY <2>6, <3>1, SeqDef
      <3>3. DOMAIN turns = 1..Len(page.turns) /\ DOMAIN turns = 1..Len(turns) /\ Len(turns) \in Nat
        BY <2>6, <3>2, LenProperties
      <3>4. QED
        BY <2>6, <3>2, <3>3
    <2> HIDE DEF turns
    <2>8. /\ p \in Page /\ p.submit = Idle /\ p.results = page.results
          /\ p.turns = turns /\ p.approval = page.approval
          /\ p.revoke = page.revoke /\ p.config = page.config
          /\ p.stream = page.stream /\ p.lost = page.lost
      BY <1>0, <2>4, <2>7 DEF Page
    <2> HIDE DEF p
    <2>9. ConfigOK(p, learned', consent.epoch)
      BY <1>0, <2>7, <2>8 DEF PageOK, ConfigOK
    <2>10. SubmitOK(p, admitted, consent.epoch)
      BY <2>4, <2>8 DEF SubmitOK
    <2>11. RevokeOK(p, consent.epoch)
      BY <1>0, <2>8 DEF PageOK, RevokeOK
    <2>12. TurnsOK(p, admitted)
      <3>1. TurnsOK(page, admitted)
        BY <1>0 DEF PageOK
      <3>2. QED
        BY <2>5, <2>7, <2>8, <3>1 DEF TurnsOK
    <2>13. /\ RowsOK(p, admitted) /\ FitsOK(p, admitted)
           /\ \A x \in Request : Known(page.results[x]) => Known(p.results[x])
      BY <1>0, <2>8, SameResults
    <2>14. Ready(p, learned', admitted, consent.epoch)
      BY <1>0, <2>8, <2>9, <2>10, <2>11, <2>12, <2>13, StaysReady
    <2>15. Owed(p) - Owed(page) <= acts' - acts
      <3>1. acts' = acts /\ acts \in Nat /\ Owed(page) \in 0..2
        BY <1>0, Numbers, OwedIsSmall
      <3>2. Owed(p) = Owed(page)
        BY <1>0, <2>4, <2>8 DEF Owed
      <3>3. QED
        BY <3>1, <3>2
    <2>16. Ids(p) \subseteq Ids(page)
      BY <2>5, <2>7, <2>8 DEF Ids
    <2>17. UNCHANGED server /\ UNCHANGED <<adrift, questions>>
      BY <1>0
    <2>18. QED
      BY <1>1, <2>3, <2>4, <2>8, <2>14, <2>15, <2>16, <2>17, OnlyRenderKeeps
  <1>4. QED
    BY <1>2, <1>3

LEMMA UnobservedFacts ==
  ASSUME Types, PageOK(page, learned, admitted, consent.epoch)
  PROVE  \/ Unobserved(page.submit) = {}
         \/ \E c \in Call :
                /\ Unobserved(page.submit) = {c} /\ c.request \in {None, page.submit.request}
                /\ Sends(c) => consent.epoch > 0
                /\ c.kind \in {"grant", "revoke"} =>
                       page.submit.state = "granting" /\ page.submit.call = Unserved
  <1>1. /\ page \in Page /\ page.submit \in Submission
        /\ page.submit.request \in Question \cup {None}
        /\ page.submit.wanted \in Approval \cup {None} /\ page.submit.call \in Sent
    BY PageFields DEF Types, Submission
  <1>2. /\ page.submit.state # "idle" => page.submit.request # None
        /\ page.submit.state = "granting" =>
               /\ page.submit.wanted # None /\ page.submit.call # None
               /\ page.submit.call \in Epoch => consent.epoch > 0
        /\ page.submit.state \in {"checking", "generating"} => consent.epoch > 0
    BY DEF PageOK, SubmitOK
  <1>3. CASE page.submit.state = "granting" /\ page.submit.call = Unserved
    <2> DEFINE c == On("grant", page.submit.wanted, page.submit.request)
    <2>1. Unobserved(page.submit) = {c}
      BY <1>3 DEF Unobserved
    <2>2. c \in [kind: {"grant"}, wanted: Approval, request: Question \cup {None}]
      BY <1>1, <1>2, <1>3 DEF On
    <2>3. c \in Call /\ c.request = page.submit.request /\ c.kind = "grant"
      BY <2>2 DEF Call, On
    <2>4. QED
      BY <1>3, <2>1, <2>3 DEF Sends
  <1>4. CASE page.submit.state = "granting" /\ page.submit.call # Unserved
    <2>1. CASE page.submit.call = Refused
      BY <1>4, <2>1 DEF Unobserved
    <2>2. CASE page.submit.call # Refused
      <3> DEFINE c == On("granted", None, page.submit.request)
      <3>1. Unobserved(page.submit) = {c}
        BY <1>4, <2>2 DEF Unobserved
      <3>2. c \in [kind: {"granted", "generate"}, wanted: {None}, request: Question]
        BY <1>1, <1>2, <1>4 DEF On
      <3>3. c \in Call /\ c.request = page.submit.request /\ c.kind = "granted"
        BY <3>2 DEF Call, On
      <3>4. consent.epoch > 0
        BY <1>1, <1>2, <1>4, <2>2 DEF Sent
      <3>5. QED
        BY <3>1, <3>3, <3>4
    <2>3. QED
      BY <2>1, <2>2
  <1>5. CASE /\ page.submit.state # "granting"
             /\ \/ page.submit.state = "checking"
                \/ page.submit.state = "generating" /\ page.submit.call = Unserved
    <2> DEFINE c == On("generate", None, page.submit.request)
    <2>1. Unobserved(page.submit) = {c}
      BY <1>5 DEF Unobserved
    <2>2. c \in [kind: {"granted", "generate"}, wanted: {None}, request: Question]
      BY <1>1, <1>2, <1>5 DEF On
    <2>3. c \in Call /\ c.request = page.submit.request /\ c.kind = "generate"
      BY <2>2 DEF Call, On
    <2>4. QED
      BY <1>2, <1>5, <2>1, <2>3
  <1>6. CASE /\ page.submit.state # "granting"
             /\ ~ \/ page.submit.state = "checking"
                  \/ page.submit.state = "generating" /\ page.submit.call = Unserved
    BY <1>6 DEF Unobserved
  <1>7. QED
    BY <1>3, <1>4, <1>5, <1>6

\* A revocation that fails.
RevokeFailed == [page EXCEPT !.revoke = [page.revoke EXCEPT !.state = "failed", !.call = None]]

LEMMA RevokeFailedReady ==
  ASSUME PanelInv, page.revoke.state = "pending", learned' = learned
  PROVE  \E p \in Page :
             /\ p = RevokeFailed
             /\ Ready(p, learned', admitted, consent.epoch)
             /\ Ids(p) = Ids(page) /\ p.submit.request = page.submit.request
             /\ Owed(p) <= Owed(page)
             /\ page.revoke.call = Unserved => Owed(p) + 1 <= Owed(page)
  <1> DEFINE r == [page.revoke EXCEPT !.state = "failed", !.call = None]
             p == [page EXCEPT !.revoke = r]
  <1>0. Types /\ PageOK(page, learned, admitted, consent.epoch) /\ page \in Page
    BY DEF PanelInv, Types
  <1>1. r \in Revocation /\ r.state = "failed" /\ r.call = None
    BY <1>0, PageFields DEF Revocation, Sent
  <1>2. p = RevokeFailed
    BY DEF RevokeFailed
  <1> HIDE DEF r
  <1>3. /\ p \in Page /\ p.revoke = r /\ p.results = page.results
        /\ p.turns = page.turns /\ p.approval = page.approval
        /\ p.submit = page.submit /\ p.config = page.config
        /\ p.stream = page.stream /\ p.lost = page.lost
    BY <1>0, <1>1 DEF Page
  <1> HIDE DEF p
  <1>4. /\ RowsOK(p, admitted) /\ FitsOK(p, admitted)
        /\ \A x \in Request : Known(page.results[x]) => Known(p.results[x])
    BY <1>0, <1>3, SameResults
  <1>5. ConfigOK(p, learned', consent.epoch)
    BY <1>0, <1>3 DEF PageOK, ConfigOK
  <1>6. SubmitOK(p, admitted, consent.epoch)
    BY <1>0, <1>3 DEF PageOK, SubmitOK
  <1>7. RevokeOK(p, consent.epoch) /\ TurnsOK(p, admitted)
    BY <1>0, <1>1, <1>3 DEF PageOK, RevokeOK, TurnsOK
  <1>8. Ready(p, learned', admitted, consent.epoch)
    BY <1>0, <1>3, <1>4, <1>5, <1>6, <1>7, StaysReady
  <1>9. Ids(p) = Ids(page)
    BY <1>3 DEF Ids
  <1>10. /\ Owed(p) <= Owed(page)
         /\ page.revoke.call = Unserved => Owed(p) + 1 <= Owed(page)
    BY <1>1, <1>3 DEF Owed
  <1>11. QED
    BY <1>2, <1>3, <1>8, <1>9, <1>10

LEMMA RevocationFails ==
  ASSUME PanelInv, page.revoke.state = "pending", RenderAfter(RevokeFailed, FALSE),
         UNCHANGED <<server, adrift, learned, questions, acts>>, losses' \in 0..MaxLosses
  PROVE  PanelInv'
  <1>1. learned' = learned /\ Types
    BY DEF PanelInv
  <1>2. PICK p \in Page :
            /\ p = RevokeFailed
            /\ Ready(p, learned', admitted, consent.epoch)
            /\ Ids(p) = Ids(page) /\ p.submit.request = page.submit.request
            /\ Owed(p) <= Owed(page)
    BY <1>1, RevokeFailedReady
  <1>3. Owed(p) - Owed(page) <= acts' - acts
    <2>1. acts' = acts /\ acts \in Nat /\ Owed(page) \in 0..2 /\ Owed(p) \in 0..2
      BY <1>1, Numbers, OwedIsSmall
    <2>2. QED
      BY <1>2, <2>1
  <1>4. acts' \in 0..MaxActs /\ learned' \in Epoch
    BY <1>1 DEF Types
  <1>5. RenderAfter(p, FALSE) /\ UNCHANGED server /\ UNCHANGED <<adrift, questions>>
    BY <1>2
  <1>6. QED
    BY <1>2, <1>3, <1>4, <1>5, OnlyRenderKeeps

LEMMA RevokeFailsKeeps ==
  ASSUME PanelInv, RevokeFails
  PROVE  PanelInv'
  <1> DEFINE c == On("revoke", page.revoke.epoch, None)
  <1>0. /\ Types /\ PageOK(page, learned, admitted, consent.epoch) /\ page \in Page
        /\ page.revoke.state = "pending" /\ RenderAfter(RevokeFailed, FALSE)
        /\ UNCHANGED <<server, learned, questions, acts>>
        /\ losses < MaxLosses /\ losses' = losses + 1
        /\ adrift' = IF page.revoke.call # Unserved THEN adrift ELSE adrift \cup {c}
    BY DEF PanelInv, Types, RevokeFails, RevokeFailed, Render, Fail
  <1>1. losses' \in 0..MaxLosses
    BY <1>0, Apart DEF Types
  <1>2. CASE page.revoke.call # Unserved
    BY <1>0, <1>1, <1>2, RevocationFails
  <1>3. CASE page.revoke.call = Unserved
    <2>1. learned' = learned
      BY <1>0
    <2>2. PICK p \in Page :
              /\ p = RevokeFailed
              /\ Ready(p, learned', admitted, consent.epoch)
              /\ Ids(p) = Ids(page) /\ p.submit.request = page.submit.request
              /\ Owed(p) <= Owed(page)
              /\ page.revoke.call = Unserved => Owed(p) + 1 <= Owed(page)
      BY <1>0, <2>1, RevokeFailedReady
    <2>3. page.revoke.epoch \in Epoch
      <3>1. page.revoke.epoch \in Epoch \cup {None} /\ page.revoke.epoch # None
        BY <1>0, PageFields DEF Revocation, PageOK, RevokeOK
      <3>2. QED
        BY <3>1
    <2>4. c \in [kind: {"revoke"}, wanted: Epoch, request: {None}]
      BY <2>3 DEF On
    <2>5. c \in Call /\ c.request = None /\ c.kind = "revoke" /\ ~Sends(c)
      BY <2>4 DEF Call, On, Sends
    <2> HIDE DEF c
    <2>6. adrift' = adrift \cup {c}
      BY <1>0, <1>3
    <2>7. Owed(p) + 1 <= Owed(page)
      BY <1>3, <2>2
    <2>8. learned' \in Epoch
      BY <1>0 DEF Types
    <2>9. RenderAfter(p, FALSE) /\ UNCHANGED server /\ UNCHANGED <<questions, acts>>
      BY <1>0, <2>2
    <2>10. QED
      BY <1>1, <2>2, <2>5, <2>6, <2>7, <2>8, <2>9, GivesUpKeeps
  <1>4. QED
    BY <1>2, <1>3

LEMMA RevokeArrivesKeeps ==
  ASSUME PanelInv, RevokeArrives
  PROVE  PanelInv'
  <1> DEFINE answer == page.revoke.call
  <1>0. /\ Types /\ PageOK(page, learned, admitted, consent.epoch) /\ page \in Page
        /\ page.revoke.state = "pending" /\ answer # Unserved
        /\ RenderAfter(IF answer = Refused THEN RevokeFailed ELSE AfterRevoke(page), FALSE)
        /\ adrift' = IF answer = Refused THEN adrift ELSE adrift \cup Unobserved(page.submit)
        /\ learned' = IF answer = Refused THEN learned ELSE Max(learned, answer)
        /\ UNCHANGED <<server, questions, acts, losses>>
    BY DEF PanelInv, Types, RevokeArrives, RevokeFailed, Render
  <1>1. losses' \in 0..MaxLosses /\ acts' \in 0..MaxActs /\ learned \in Epoch
    BY <1>0 DEF Types
  <1>2. CASE answer = Refused
    <2>1. RenderAfter(RevokeFailed, FALSE) /\ UNCHANGED <<server, adrift, learned, questions, acts>>
      BY <1>0, <1>2
    <2>2. QED
      BY <1>0, <1>1, <2>1, RevocationFails
  <1>3. CASE answer # Refused
    <2> DEFINE results == [id \in Request |-> NoResult]
               r == [page EXCEPT !.revoke = Closed, !.turns = <<>>, !.submit = Idle,
                                 !.results = results]
    <2>1. answer \in Epoch /\ answer <= consent.epoch
      <3>1. answer \in Sent /\ answer # None
        BY <1>0, PageFields DEF Revocation, PageOK, RevokeOK
      <3>2. answer \in Epoch
        BY <1>0, <1>3, <3>1 DEF Sent
      <3>3. QED
        BY <1>0, <3>2 DEF PageOK, RevokeOK
    <2>2. RenderAfter(Invalidated(r), FALSE)
      BY <1>0, <1>3 DEF AfterRevoke
    <2>3. Idle \in Submission /\ Idle.state = "idle" /\ Idle.request = None
      BY DEF Idle, Submission, Sent
    <2>4. Closed \in Revocation /\ Closed.state = "closed"
      BY DEF Closed, Revocation, Sent
    <2>5. results \in [Request -> Result] /\ \A id \in Request : results[id] = NoResult
      BY DEF NoResult, Result
    <2> HIDE DEF results
    <2>6. /\ r \in Page /\ r.submit = Idle /\ r.results = results
          /\ r.turns = <<>> /\ r.revoke = Closed /\ r.config = page.config
          /\ r.stream = page.stream /\ r.lost = page.lost
      <3>1. <<>> \in Seq(Turn)
        BY EmptySeq
      <3>2. QED
        BY <1>0, <2>3, <2>4, <2>5, <3>1 DEF Page
    <2> HIDE DEF r
    <2>7. PICK p \in Page :
              /\ p = Invalidated(r) /\ p.turns = <<>> /\ p.submit = Idle
              /\ p.config.data = page.config.data /\ p.config.failed = page.config.failed
              /\ p.config.fetch = Unserved
              /\ p.results = results /\ p.revoke = Closed
      BY <2>6, InvalidatedFacts
    <2>8. Unserved # None /\ Unserved \notin Configuration /\ None # "PUBLISHED"
      BY Apart DEF Reports
    <2>9. learned' \in Epoch /\ learned' <= consent.epoch
      <3>1. learned <= consent.epoch /\ consent.epoch \in Epoch
        BY <1>0 DEF PageOK, ConfigOK, Types
      <3>2. QED
        BY <1>0, <1>1, <1>3, <2>1, <3>1, MaxFacts
    <2>10. ConfigOK(p, learned', consent.epoch)
      BY <1>0, <2>7, <2>8, <2>9 DEF PageOK, ConfigOK, Told
    <2>11. SubmitOK(p, admitted, consent.epoch) /\ RevokeOK(p, consent.epoch)
      BY <2>3, <2>4, <2>7 DEF SubmitOK, RevokeOK
    <2>12. DOMAIN p.turns = {}
      BY <2>7
    <2>13. TurnsOK(p, admitted)
      BY <2>12 DEF TurnsOK
    <2>14. RowsOK(p, admitted) /\ FitsOK(p, admitted)
      BY <2>5, <2>7, <2>8 DEF RowsOK, FitsOK, Known, NoResult
    <2>15. ~Following(p) /\ \A id \in Request : ~Reads(p, id)
      BY <2>7, <2>12 DEF Following, Reads
    <2>16. Ready(p, learned', admitted, consent.epoch)
      BY <2>10, <2>11, <2>13, <2>14, <2>15 DEF Ready
    <2>17. Ids(p) \subseteq Ids(page)
      BY <2>12 DEF Ids
    <2>18. Owed(p) = 0 /\ Owed(page) \in 0..2
      BY <2>3, <2>4, <2>7, OwedIsSmall DEF Owed
    <2>19. RenderAfter(p, FALSE) /\ UNCHANGED server /\ UNCHANGED <<questions, acts>>
      BY <1>0, <2>2, <2>7
    <2>20. CASE Unobserved(page.submit) = {}
      <3>1. adrift' = adrift
        BY <1>0, <1>3, <2>20
      <3>2. Owed(p) - Owed(page) <= acts' - acts
        <4>1. acts' = acts /\ acts \in Nat
          BY <1>0, Numbers
        <4>2. QED
          BY <2>18, <4>1
      <3>3. UNCHANGED <<adrift, questions>>
        BY <2>19, <3>1
      <3>4. QED
        BY <1>1, <2>3, <2>7, <2>9, <2>16, <2>17, <2>19, <3>2, <3>3, OnlyRenderKeeps
    <2>21. CASE \E c \in Call :
                    /\ Unobserved(page.submit) = {c} /\ c.request \in {None, page.submit.request}
                    /\ Sends(c) => consent.epoch > 0
                    /\ c.kind \in {"grant", "revoke"} =>
                           page.submit.state = "granting" /\ page.submit.call = Unserved
      <3>1. PICK c \in Call :
                /\ Unobserved(page.submit) = {c} /\ c.request \in {None, page.submit.request}
                /\ Sends(c) => consent.epoch > 0
                /\ c.kind \in {"grant", "revoke"} =>
                       page.submit.state = "granting" /\ page.submit.call = Unserved
        BY <2>21
      <3>2. adrift' = adrift \cup {c}
        BY <1>0, <1>3, <3>1
      <3>3. Owed(p) <= Owed(page)
        BY <2>18
      <3>4. c.kind \in {"grant", "revoke"} => Owed(p) + 1 <= Owed(page)
        <4>1. SUFFICES ASSUME page.submit.state = "granting", page.submit.call = Unserved
                       PROVE Owed(p) + 1 <= Owed(page)
          BY <3>1
        <4>2. QED
          BY <2>18, <4>1 DEF Owed
      <3>5. QED
        BY <1>1, <2>3, <2>7, <2>9, <2>16, <2>17, <2>19, <3>1, <3>2, <3>3, <3>4, GivesUpKeeps
    <2>22. QED
      BY <1>0, <2>20, <2>21, UnobservedFacts
  <1>4. QED
    BY <1>2, <1>3

\* The answer to a grant that the panel no longer observes.
LEMMA GrantedAdriftKeeps ==
  ASSUME PanelInv, NEW c \in adrift, GrantedAdrift(c)
  PROVE  PanelInv'
  <1> DEFINE r == [page EXCEPT !.approval = None]
             g == On("generate", None, c.request)
  <1>0. /\ Types /\ PageOK(page, learned, admitted, consent.epoch) /\ page \in Page
        /\ c.kind = "granted" /\ c \in Call
        /\ adrift' = (adrift \ {c}) \cup {g} /\ RenderAfter(Invalidated(r), FALSE)
        /\ UNCHANGED <<server, learned, questions, acts, losses>>
    BY DEF PanelInv, Types, GrantedAdrift, Render
  <1>1. c.request \in Question /\ g \in Call /\ g.request = c.request /\ g.kind = "generate"
    <2>1. c \in [kind: {"granted", "generate"}, wanted: {None}, request: Question]
      BY <1>0 DEF Call
    <2>2. c.request \in Question
      BY <2>1
    <2>3. g \in [kind: {"granted", "generate"}, wanted: {None}, request: Question]
      BY <2>2 DEF On
    <2>4. QED
      BY <2>2, <2>3 DEF On, Call
  <1> HIDE DEF g
  <1>2. /\ r \in Page /\ r.submit = page.submit /\ r.results = page.results
        /\ r.turns = page.turns /\ r.revoke = page.revoke /\ r.config = page.config
        /\ r.approval = None /\ r.stream = page.stream /\ r.lost = page.lost
    BY <1>0 DEF Page
  <1> HIDE DEF r
  <1>3. PICK p \in Page :
            /\ p = Invalidated(r) /\ p.turns = page.turns /\ p.submit = page.submit
            /\ p.config.data = page.config.data /\ p.config.failed = page.config.failed
            /\ p.config.fetch = Unserved /\ p.approval = None
            /\ p.results = page.results /\ p.revoke = page.revoke
            /\ p.stream = page.stream /\ p.lost = page.lost
    BY <1>2, InvalidatedFacts
  <1>4. Unserved # None /\ Unserved \notin Configuration
    BY Apart
  <1>5. ConfigOK(p, learned', consent.epoch)
    BY <1>0, <1>3, <1>4 DEF PageOK, ConfigOK, Told
  <1>6. SubmitOK(p, admitted, consent.epoch)
    BY <1>0, <1>3, <1>4 DEF PageOK, SubmitOK
  <1>7. RevokeOK(p, consent.epoch) /\ TurnsOK(p, admitted)
    BY <1>0, <1>3 DEF PageOK, RevokeOK, TurnsOK
  <1>8. /\ RowsOK(p, admitted) /\ FitsOK(p, admitted)
        /\ \A x \in Request : Known(page.results[x]) => Known(p.results[x])
    BY <1>0, <1>3, SameResults
  <1>9. Ready(p, learned', admitted, consent.epoch)
    BY <1>0, <1>3, <1>5, <1>6, <1>7, <1>8, StaysReady
  <1>10. ActsCover /\ QuestionsCover /\ ConsentOK /\ IsFiniteSet(adrift) /\ adrift \subseteq Call
    BY <1>0 DEF PanelInv, Types
  <1>11. Drawing(admitted, p, adrift') \in SUBSET Drawn
    <2>1. Ids(p) = Ids(page)
      BY <1>3 DEF Ids
    <2>2. QED
      BY <1>0, <1>1, <1>3, <2>1, DrawnIs DEF Drawing
  <1>12. /\ IsFiniteSet(Drawing(admitted, p, adrift'))
         /\ Cardinality(Drawing(admitted, p, adrift')) <= questions'
    BY <1>0, <1>10, <1>11, DrawsNothing DEF Types
  <1>13. IsFiniteSet(adrift') /\ adrift' \subseteq Call
    <2>1. IsFiniteSet(adrift \ {c})
      BY <1>10, FS_Subset
    <2>2. QED
      BY <1>0, <1>1, <1>10, <2>1, FS_AddElement
  <1>14. \A x \in adrift' : Sends(x) => consent.epoch > 0
    BY <1>0, <1>10 DEF ConsentOK, Sends
  <1>15. consent.epoch + Owed(p) + Cardinality(Unspent(adrift')) <= acts'
    <2>1. Unspent(adrift') = Unspent(adrift)
      BY <1>0, <1>1 DEF Unspent
    <2>2. Owed(p) = Owed(page)
      BY <1>3 DEF Owed
    <2>3. QED
      BY <1>0, <1>10, <2>1, <2>2 DEF ActsCover
  <1>16. /\ learned' \in Epoch /\ questions' \in Nat /\ acts' \in 0..MaxActs
         /\ losses' \in 0..MaxLosses
    BY <1>0 DEF Types
  <1>17. RenderAfter(p, FALSE) /\ UNCHANGED server
    BY <1>0, <1>3
  <1>18. QED
    BY <1>9, <1>12, <1>13, <1>14, <1>15, <1>16, <1>17, RenderKeeps

-----------------------------------------------------------------------------
(* The API serves.  The epoch and the rows only grow. *)

Grows(rows, more) ==
    \A id \in Request : rows[id] # None => more[id] # None /\ more[id].epoch = rows[id].epoch

LEMMA GrowingKeeps ==
  ASSUME NEW p \in Page, NEW told \in Nat, NEW rows, NEW more, NEW e \in Nat, NEW d \in Nat,
         PageOK(p, told, rows, e), e <= d, Grows(rows, more)
  PROVE  PageOK(p, told, more, d)
  <1>0. \A n \in Epoch : n \in Nat
    <2>1. MaxActs \in Nat
      BY AnswerPanelAssumption
    <2>2. QED
      BY <2>1 DEF Epoch
  <1>1. ASSUME NEW config, Told(config, e) PROVE Told(config, d)
    <2>1. config \in Configuration => config.epoch \in Nat
      BY <1>0 DEF Configuration
    <2>2. QED
      BY <1>1, <2>1 DEF Told
  <1>2. ConfigOK(p, told, d)
    BY <1>1 DEF PageOK, ConfigOK
  <1>3. SubmitOK(p, more, d)
    <2>1. p.submit.request # None => p.submit.request.id \in Request
      BY PageFields DEF Submission, Question
    <2>2. SubmitOK(p, rows, e)
      BY DEF PageOK
    <2>3. e > 0 => d > 0
      OBVIOUS
    <2>4. \A n \in Epoch : n <= e => n <= d
      BY <1>0
    <2>5. QED
      BY <2>1, <2>2, <2>3, <2>4 DEF SubmitOK, Grows
  <1>4. RevokeOK(p, d)
    <2>1. \A n \in Epoch : n <= e => n <= d
      BY <1>0
    <2>2. QED
      BY <2>1 DEF PageOK, RevokeOK
  <1>5. TurnsOK(p, more)
    BY TurnFields DEF PageOK, TurnsOK, Grows
  <1>6. RowsOK(p, more)
    BY DEF PageOK, RowsOK, Grows
  <1>7. ASSUME NEW id \in Request, rows[id] # None, Fits(id, p, rows) PROVE Fits(id, p, more)
    BY <1>7 DEF Fits, Grows
  <1>8. None # "PUBLISHED" /\ None # "RUNNING"
    BY Apart DEF Reports
  <1>9. FitsOK(p, more)
    <2>1. ASSUME NEW id \in Request,
                 p.results[id].data = "PUBLISHED" \/ p.results[id].fetch = "PUBLISHED"
          PROVE  Fits(id, p, more)
      <3>1. Known(p.results[id])
        BY <1>8, <2>1 DEF Known
      <3>2. rows[id] # None /\ Fits(id, p, rows)
        BY <2>1, <3>1 DEF PageOK, RowsOK, FitsOK
      <3>3. QED
        BY <1>7, <3>2
    <2>2. QED
      BY <2>1 DEF FitsOK
  <1>10. StreamOK(p, more)
    <2>1. StreamOK(p, rows)
      BY DEF PageOK
    <2>2. ASSUME p.stream # None, p.stream.event = "PUBLISHED"
          PROVE  Fits(Latest(p).request.id, p, more)
      <3>1. Following(p) /\ Fits(Latest(p).request.id, p, rows)
        BY <2>1, <2>2 DEF StreamOK
      <3>2. Latest(p).request.id \in Request /\ LatestResult(p).data = "RUNNING"
        BY <3>1, LatestFields DEF Following
      <3>3. Known(p.results[Latest(p).request.id])
        BY <1>8, <3>2 DEF Known, LatestResult
      <3>4. QED
        BY <1>7, <3>1, <3>2, <3>3 DEF PageOK, RowsOK
    <2>3. QED
      BY <2>1, <2>2 DEF StreamOK
  <1>11. ReadsOK(p)
    BY DEF PageOK
  <1>12. QED
    BY <1>2, <1>3, <1>4, <1>5, <1>6, <1>9, <1>10, <1>11 DEF PageOK

\* A consent of today or the next one.
Follows(new) ==
    /\ new \in [granted: BOOLEAN, epoch: Nat, policy: Policy \cup {None}]
    /\ new.epoch \in {consent.epoch, consent.epoch + 1}
    /\ new.granted => new.epoch > 0

LEMMA StepKeeps ==
  ASSUME PanelInv, Follows(consent'), policy' \in Policy,
         admitted' \in [Request -> Row \cup {None}], page' \in Page,
         learned' = learned, questions' = questions, losses' = losses,
         acts' \in 0..MaxActs,
         PageOK(page', learned, admitted', consent'.epoch),
         Drawing(admitted', page', adrift') \subseteq Drawn,
         adrift' \subseteq Call, IsFiniteSet(adrift'),
         \A c \in adrift' : Sends(c) => consent'.epoch > 0,
         consent'.epoch + Owed(page') + Cardinality(Unspent(adrift')) <= acts'
  PROVE  PanelInv'
  <1>1. Types /\ QuestionsCover /\ MaxActs \in Nat /\ acts' \in Nat
    <2>1. Types /\ QuestionsCover
      BY DEF PanelInv
    <2>2. QED
      BY <2>1, Numbers
  <1>2. consent'.epoch \in Epoch
    <2>1. Owed(page') \in 0..2
      BY OwedIsSmall
    <2>2. Cardinality(Unspent(adrift')) \in Nat
      BY UnspentIsFinite
    <2>3. consent'.epoch \in Nat
      BY DEF Follows
    <2>4. consent'.epoch <= acts' /\ acts' <= MaxActs
      BY <1>1, <2>1, <2>2, <2>3
    <2>5. QED
      BY <1>1, <2>3, <2>4 DEF Epoch
  <1>3. consent' \in [granted: BOOLEAN, epoch: Epoch, policy: Policy \cup {None}]
    BY <1>2 DEF Follows
  <1>4. Types'
    BY <1>1, <1>3 DEF Types
  <1>5. ConsentOK'
    BY DEF ConsentOK, Follows
  <1>6. /\ IsFiniteSet(Drawing(admitted', page', adrift'))
        /\ Cardinality(Drawing(admitted', page', adrift')) <= questions'
    BY <1>1, DrawsNothing DEF Types
  <1>7. PageOK(page', learned', admitted', consent'.epoch)
    OBVIOUS
  <1>8. QED
    BY <1>4, <1>5, <1>6, <1>7, InvAgain

LEMMA GrantFollows ==
  ASSUME PanelInv, NEW wanted \in Approval, GrantFor(wanted)
  PROVE  Follows(consent') /\ (MayGrant(wanted) => consent'.epoch > 0)
  <1>1. /\ consent \in [granted: BOOLEAN, epoch: Epoch, policy: Policy \cup {None}]
        /\ consent.epoch \in Nat /\ (consent.granted => consent.epoch > 0)
    BY Numbers DEF PanelInv, Types, ConsentOK
  <1>2. wanted.policy \in Policy
    BY DEF Approval
  <1>3. Follows(consent)
    BY <1>1 DEF Follows
  <1>4. CASE ~MayGrant(wanted)
    BY <1>3, <1>4 DEF GrantFor
  <1>5. CASE MayGrant(wanted) /\ consent.granted /\ consent.policy = wanted.policy
    BY <1>1, <1>3, <1>5 DEF GrantFor, Granted
  <1>6. CASE MayGrant(wanted) /\ ~(consent.granted /\ consent.policy = wanted.policy)
    <2>1. consent' = [granted |-> TRUE, epoch |-> consent.epoch + 1, policy |-> wanted.policy]
      BY <1>6 DEF GrantFor, Granted
    <2>2. QED
      BY <1>1, <1>2, <2>1 DEF Follows
  <1>7. QED
    BY <1>4, <1>5, <1>6

LEMMA RevokedFollows ==
  ASSUME PanelInv
  PROVE  Follows(consent) /\ Follows(Revoked)
  <1>1. /\ consent \in [granted: BOOLEAN, epoch: Epoch, policy: Policy \cup {None}]
        /\ consent.epoch \in Nat /\ (consent.granted => consent.epoch > 0)
    BY Numbers DEF PanelInv, Types, ConsentOK
  <1>2. Follows(consent)
    BY <1>1 DEF Follows
  <1>3. CASE ~consent.granted
    BY <1>2, <1>3 DEF Revoked
  <1>4. CASE consent.granted
    <2>1. Revoked = [consent EXCEPT !.granted = FALSE, !.epoch = consent.epoch + 1]
      BY <1>4 DEF Revoked
    <2>2. /\ Revoked.granted = FALSE /\ Revoked.epoch = consent.epoch + 1
          /\ Revoked \in [granted: BOOLEAN, epoch: Nat, policy: Policy \cup {None}]
      <3>1. consent \in [granted: BOOLEAN, epoch: Nat, policy: Policy \cup {None}]
        BY <1>1
      <3>2. consent.epoch + 1 \in Nat
        BY <1>1
      <3>3. QED
        BY <2>1, <3>1, <3>2
    <2>3. QED
      BY <1>1, <1>2, <2>2 DEF Follows
  <1>5. QED
    BY <1>2, <1>3, <1>4

LEMMA ReportFacts ==
  ASSUME Types, NEW id \in Request, admitted[id] # None
  PROVE  /\ admitted[id] \in Row /\ Report(id) \in Reports
         /\ Report(id) = "PUBLISHED" => admitted[id].epoch = consent.epoch
  <1>1. admitted[id] \in Row
    BY DEF Types
  <1>2. admitted[id].state \in Reports
    BY <1>1 DEF Row
  <1>3. QED
    BY <1>1, <1>2 DEF Report, UnderConsent, Reports

\* What is reported today fits what the panel shows of the consent.
LEMMA TodayFits ==
  ASSUME Types, ConfigOK(page, learned, consent.epoch), NEW id \in Request,
         admitted[id].epoch = consent.epoch
  PROVE  Fits(id, page, admitted)
  <1>1. SUFFICES ASSUME page.config.data # None
                 PROVE  admitted[id].epoch >= page.config.data.epoch
    BY DEF Fits
  <1>2. page.config.data \in Configuration
    BY <1>1, ConfigFields DEF Types
  <1>3. page.config.data.epoch <= consent.epoch /\ page.config.data.epoch \in Epoch
    BY <1>2 DEF ConfigOK, Told, Configuration
  <1>4. page.config.data.epoch \in Nat /\ consent.epoch \in Nat
    BY <1>3, Numbers
  <1>5. QED
    BY <1>3, <1>4

LEMMA ServeConfigurationKeeps ==
  ASSUME PanelInv, ServeConfiguration
  PROVE  PanelInv'
  <1> DEFINE config == [page.config EXCEPT !.fetch = ConfigurationNow]
             p == [page EXCEPT !.config = config]
  <1>0. /\ Types /\ PageOK(page, learned, admitted, consent.epoch) /\ page \in Page
        /\ page' = p /\ page.config.fetch = Unserved
        /\ UNCHANGED <<consent, policy, admitted, adrift, learned, questions, acts, losses>>
        /\ ActsCover /\ ConsentOK
    BY DEF PanelInv, Types, ServeConfiguration, Serving
  <1>1. /\ ConfigurationNow \in Configuration /\ ConfigurationNow.epoch = consent.epoch
        /\ ConfigurationNow.consented => consent.granted
    BY <1>0 DEF Types, ConfigurationNow, Configuration
  <1>2. /\ config \in ConfigurationQuery /\ config.data = page.config.data
        /\ config.failed = page.config.failed /\ config.fetch = ConfigurationNow
    BY <1>0, <1>1, PageFields DEF ConfigurationQuery
  <1> HIDE DEF config
  <1>3. /\ p \in Page /\ p.config = config /\ p.results = page.results
        /\ p.turns = page.turns /\ p.approval = page.approval
        /\ p.submit = page.submit /\ p.revoke = page.revoke
        /\ p.stream = page.stream /\ p.lost = page.lost
    BY <1>0, <1>2 DEF Page
  <1>4. page' = p
    BY <1>0
  <1> HIDE DEF p
  <1>5. None \notin Configuration
    BY Apart
  <1>6. ConfigOK(p, learned, consent.epoch)
    <2>1. Told(config.data, consent.epoch) /\ learned <= consent.epoch
      BY <1>0, <1>2 DEF PageOK, ConfigOK
    <2>2. consent.epoch \in Nat /\ learned \in Nat
      BY <1>0, Numbers
    <2>3. Told(config.fetch, consent.epoch)
      BY <1>0, <1>1, <1>2, <2>2 DEF Told, ConsentOK
    <2>4. consent.epoch >= learned
      BY <2>1, <2>2
    <2>5. config.fetch \in Configuration /\ config.fetch # None /\ config.fetch.epoch >= learned
      BY <1>1, <1>2, <1>5, <2>4
    <2>6. page.config.fetch # None
      BY <1>0, Apart
    <2>7. QED
      BY <1>0, <1>2, <1>3, <2>1, <2>3, <2>5, <2>6 DEF PageOK, ConfigOK
  <1>7. SubmitOK(p, admitted, consent.epoch)
    BY <1>0, <1>1, <1>2, <1>3, <1>5 DEF PageOK, SubmitOK
  <1>8. RevokeOK(p, consent.epoch) /\ TurnsOK(p, admitted) /\ RowsOK(p, admitted)
    BY <1>0, <1>3 DEF PageOK, RevokeOK, TurnsOK, RowsOK
  <1>9. FitsOK(p, admitted)
    BY <1>0, <1>2, <1>3 DEF PageOK, FitsOK, Fits
  <1>10. /\ Consented(p) <=> Consented(page)
         /\ Following(p) <=> Following(page)
         /\ Latest(p) = Latest(page)
    BY <1>2, <1>3 DEF Consented, Following, Latest, LatestResult
  <1>11. ReadsOK(p)
    BY <1>0, <1>3, <1>10 DEF PageOK, ReadsOK, Reads
  <1>12. StreamOK(p, admitted)
    BY <1>0, <1>2, <1>3, <1>10 DEF PageOK, StreamOK, Fits
  <1>13. PageOK(p, learned, admitted, consent.epoch)
    BY <1>6, <1>7, <1>8, <1>9, <1>11, <1>12 DEF PageOK
  <1>14. Drawing(admitted, p, adrift) \subseteq Drawn
    <2>1. Ids(p) = Ids(page)
      BY <1>3 DEF Ids
    <2>2. QED
      BY <1>3, <2>1, DrawnIs DEF Drawing
  <1>15. Owed(p) = Owed(page)
    BY <1>3 DEF Owed
  <1>16. consent.epoch + Owed(p) + Cardinality(Unspent(adrift)) <= acts
    BY <1>0, <1>15 DEF ActsCover
  <1>17. Follows(consent)
    BY RevokedFollows
  <1>18. QED
    BY <1>0, <1>3, <1>4, <1>13, <1>14, <1>16, <1>17, StepKeeps DEF Types, ConsentOK

LEMMA ServeReadKeeps ==
  ASSUME PanelInv, NEW id \in Request, ServeRead(id)
  PROVE  PanelInv'
  <1> DEFINE new == [page.results[id] EXCEPT !.fetch = Report(id)]
             results == [page.results EXCEPT ![id] = new]
             p == [page EXCEPT !.results = results]
  <1>0. /\ Types /\ PageOK(page, learned, admitted, consent.epoch) /\ page \in Page
        /\ page' = p /\ page.results[id].fetch = Unserved
        /\ UNCHANGED <<consent, policy, admitted, adrift, learned, questions, acts, losses>>
        /\ ActsCover /\ ConsentOK
    BY DEF PanelInv, Types, ServeRead, Serving
  <1>1. Known(page.results[id]) /\ admitted[id] # None
    <2>1. Known(page.results[id])
      BY <1>0, Apart DEF Known
    <2>2. QED
      BY <1>0, <2>1 DEF PageOK, RowsOK
  <1>2. Report(id) \in Reports /\ (Report(id) = "PUBLISHED" => Fits(id, page, admitted))
    <2>1. ConfigOK(page, learned, consent.epoch)
      BY <1>0 DEF PageOK
    <2>2. QED
      BY <1>0, <1>1, <2>1, ReportFacts, TodayFits
  <1>3. /\ new \in Result /\ new.fetch = Report(id)
        /\ new.data = page.results[id].data /\ new.failed = page.results[id].failed
    BY <1>0, <1>2, ResultFields DEF Result
  <1> HIDE DEF new
  <1>4. /\ results \in [Request -> Result] /\ results[id] = new
        /\ \A x \in Request : x # id => results[x] = page.results[x]
    BY <1>0, <1>3, PageFields
  <1> HIDE DEF results
  <1>5. /\ p \in Page /\ p.results = results /\ p.config = page.config
        /\ p.turns = page.turns /\ p.approval = page.approval
        /\ p.submit = page.submit /\ p.revoke = page.revoke
        /\ p.stream = page.stream /\ p.lost = page.lost
    BY <1>0, <1>4 DEF Page
  <1>6. page' = p
    BY <1>0
  <1> HIDE DEF p
  <1>7. ASSUME NEW x \in Request
        PROVE  /\ p.results[x].data = page.results[x].data
               /\ p.results[x].failed = page.results[x].failed
               /\ x # id => p.results[x] = page.results[x]
    <2>1. CASE x = id
      BY <1>3, <1>4, <1>5, <2>1
    <2>2. CASE x # id
      BY <1>4, <1>5, <2>2
    <2>3. QED
      BY <2>1, <2>2
  <1>8. None \notin Reports
    BY Apart
  <1>9. p.results[id].fetch = Report(id) /\ Known(p.results[id])
    BY <1>2, <1>3, <1>4, <1>5, <1>8 DEF Known
  <1>10. RowsOK(p, admitted)
    BY <1>0, <1>1, <1>7 DEF PageOK, RowsOK
  <1>11. FitsOK(p, admitted)
    <2>1. ASSUME NEW x \in Request,
                 p.results[x].data = "PUBLISHED" \/ p.results[x].fetch = "PUBLISHED"
          PROVE  Fits(x, page, admitted)
      <3>1. CASE x = id /\ p.results[x].fetch = "PUBLISHED"
        BY <1>2, <1>9, <3>1
      <3>2. CASE ~(x = id /\ p.results[x].fetch = "PUBLISHED")
        <4>1. page.results[x].data = "PUBLISHED" \/ page.results[x].fetch = "PUBLISHED"
          BY <1>7, <2>1, <3>2
        <4>2. QED
          BY <1>0, <4>1 DEF PageOK, FitsOK
      <3>3. QED
        BY <3>1, <3>2
    <2>2. QED
      BY <1>5, <2>1 DEF FitsOK, Fits
  <1>12. ConfigOK(p, learned, consent.epoch)
    BY <1>0, <1>5 DEF PageOK, ConfigOK
  <1>13. SubmitOK(p, admitted, consent.epoch)
    BY <1>0, <1>5 DEF PageOK, SubmitOK
  <1>14. RevokeOK(p, consent.epoch) /\ TurnsOK(p, admitted)
    BY <1>0, <1>5 DEF PageOK, RevokeOK, TurnsOK
  <1>15. Latest(p) = Latest(page) /\ (Consented(p) <=> Consented(page))
    BY <1>5 DEF Latest, Consented
  <1>16. Following(p) <=> Following(page)
    <2>1. page.turns # <<>> => Latest(page).request.id \in Request
      BY <1>0, LatestFields
    <2>2. QED
      BY <1>5, <1>7, <1>15, <2>1 DEF Following, LatestResult
  <1>17. ReadsOK(p)
    <2>1. ASSUME NEW x \in Request, Reads(p, x) PROVE Known(p.results[x])
      <3>1. Reads(page, x)
        BY <1>5, <1>15, <2>1 DEF Reads
      <3>2. QED
        BY <1>0, <1>7, <1>9, <3>1 DEF PageOK, ReadsOK
    <2>2. QED
      BY <2>1 DEF ReadsOK
  <1>18. StreamOK(p, admitted)
    BY <1>0, <1>5, <1>15, <1>16 DEF PageOK, StreamOK, Fits
  <1>19. PageOK(p, learned, admitted, consent.epoch)
    BY <1>10, <1>11, <1>12, <1>13, <1>14, <1>17, <1>18 DEF PageOK
  <1>20. Drawing(admitted, p, adrift) \subseteq Drawn
    <2>1. Ids(p) = Ids(page)
      BY <1>5 DEF Ids
    <2>2. QED
      BY <1>5, <2>1, DrawnIs DEF Drawing
  <1>21. consent.epoch + Owed(p) + Cardinality(Unspent(adrift)) <= acts
    BY <1>0, <1>5 DEF ActsCover, Owed
  <1>22. Follows(consent)
    BY RevokedFollows
  <1>23. QED
    BY <1>0, <1>5, <1>6, <1>19, <1>20, <1>21, <1>22, StepKeeps DEF Types, ConsentOK

LEMMA ServeEventKeeps ==
  ASSUME PanelInv, ServeEvent
  PROVE  PanelInv'
  <1> DEFINE id == Latest(page).request.id
             stream == [left |-> page.stream.left - 1, event |-> Report(id)]
             p == [page EXCEPT !.stream = stream]
  <1>0. /\ Types /\ PageOK(page, learned, admitted, consent.epoch) /\ page \in Page
        /\ page' = p /\ page.stream # None /\ page.stream.left > 0
        /\ UNCHANGED <<consent, policy, admitted, adrift, learned, questions, acts, losses>>
        /\ ActsCover /\ ConsentOK
    BY DEF PanelInv, Types, ServeEvent, Serving
  <1>1. Following(page) /\ page.turns # <<>> /\ page.stream \in Stream
    BY <1>0, PageFields DEF PageOK, StreamOK, Following
  <1>2. id \in Request /\ LatestResult(page).data = "RUNNING"
    BY <1>0, <1>1, LatestFields DEF Following
  <1>3. admitted[id] # None
    <2>1. None # "RUNNING"
      BY Apart DEF Reports
    <2>2. Known(page.results[id])
      BY <1>2, <2>1 DEF Known, LatestResult
    <2>3. QED
      BY <1>0, <1>2, <2>2 DEF PageOK, RowsOK
  <1>4. Report(id) \in Reports /\ (Report(id) = "PUBLISHED" => Fits(id, page, admitted))
    <2>1. ConfigOK(page, learned, consent.epoch)
      BY <1>0 DEF PageOK
    <2>2. QED
      BY <1>0, <1>2, <1>3, <2>1, ReportFacts, TodayFits
  <1>5. stream \in Stream /\ stream # None /\ stream.event = Report(id)
    <2>1. page.stream.left - 1 \in 0..StreamReads
      <3>1. page.stream.left \in 0..StreamReads /\ StreamReads \in Nat
        BY <1>1, Apart DEF Stream
      <3>2. QED
        BY <1>0, <3>1
    <2>2. stream \in Stream
      BY <1>4, <2>1 DEF Stream
    <2>3. QED
      BY <2>2, Apart
  <1>6. id = Latest(page).request.id
    OBVIOUS
  <1> HIDE DEF stream, id
  <1>7. /\ p \in Page /\ p.stream = stream /\ p.config = page.config
        /\ p.turns = page.turns /\ p.approval = page.approval
        /\ p.submit = page.submit /\ p.revoke = page.revoke
        /\ p.results = page.results /\ p.lost = page.lost
    BY <1>0, <1>5 DEF Page
  <1>8. page' = p
    BY <1>0
  <1> HIDE DEF p
  <1>9. /\ Latest(p) = Latest(page) /\ (Consented(p) <=> Consented(page))
        /\ (Following(p) <=> Following(page))
    BY <1>7 DEF Latest, Consented, Following, LatestResult
  <1>10. RowsOK(p, admitted) /\ FitsOK(p, admitted) /\ ReadsOK(p)
    BY <1>0, <1>7, <1>9 DEF PageOK, RowsOK, FitsOK, Fits, ReadsOK, Reads
  <1>11. ConfigOK(p, learned, consent.epoch)
    BY <1>0, <1>7 DEF PageOK, ConfigOK
  <1>12. SubmitOK(p, admitted, consent.epoch)
    BY <1>0, <1>7 DEF PageOK, SubmitOK
  <1>13. RevokeOK(p, consent.epoch) /\ TurnsOK(p, admitted)
    BY <1>0, <1>7 DEF PageOK, RevokeOK, TurnsOK
  <1>14. StreamOK(p, admitted)
    BY <1>1, <1>4, <1>5, <1>6, <1>7, <1>9 DEF StreamOK, Fits
  <1>15. PageOK(p, learned, admitted, consent.epoch)
    BY <1>10, <1>11, <1>12, <1>13, <1>14 DEF PageOK
  <1>16. Drawing(admitted, p, adrift) \subseteq Drawn
    <2>1. Ids(p) = Ids(page)
      BY <1>7 DEF Ids
    <2>2. QED
      BY <1>7, <2>1, DrawnIs DEF Drawing
  <1>17. consent.epoch + Owed(p) + Cardinality(Unspent(adrift)) <= acts
    BY <1>0, <1>7 DEF ActsCover, Owed
  <1>18. Follows(consent)
    BY RevokedFollows
  <1>19. QED
    BY <1>0, <1>7, <1>8, <1>15, <1>16, <1>17, <1>18, StepKeeps DEF Types, ConsentOK

\* A call of the panel is answered, and nothing else of it changes.
LEMMA CallAnswered ==
  ASSUME NEW rows, NEW d, PageOK(page, learned, rows, d), NEW q,
         q.config = page.config, q.turns = page.turns, q.results = page.results,
         q.stream = page.stream, q.lost = page.lost, q.submit.state = page.submit.state,
         SubmitOK(q, rows, d), RevokeOK(q, d)
  PROVE  PageOK(q, learned, rows, d) /\ Ids(q) = Ids(page)
  <1>1. /\ Latest(q) = Latest(page) /\ (Consented(q) <=> Consented(page))
        /\ (Following(q) <=> Following(page))
    BY DEF Latest, Consented, Following, LatestResult
  <1>2. ConfigOK(q, learned, d)
    BY DEF PageOK, ConfigOK
  <1>3. TurnsOK(q, rows) /\ RowsOK(q, rows) /\ FitsOK(q, rows) /\ ReadsOK(q)
    BY <1>1 DEF PageOK, TurnsOK, RowsOK, FitsOK, Fits, ReadsOK, Reads
  <1>4. StreamOK(q, rows)
    BY <1>1 DEF PageOK, StreamOK, Fits
  <1>5. QED
    BY <1>2, <1>3, <1>4 DEF PageOK, Ids

LEMMA ServeGrantKeeps ==
  ASSUME PanelInv, ServeGrant
  PROVE  PanelInv'
  <1> DEFINE wanted == page.submit.wanted
             epoch == consent'.epoch
             call == IF MayGrant(wanted) THEN epoch ELSE Refused
             submit == [page.submit EXCEPT !.call = call]
             p == [page EXCEPT !.submit = submit]
  <1>0. /\ Types /\ PageOK(page, learned, admitted, consent.epoch) /\ page \in Page
        /\ page.submit.state = "granting" /\ page.submit.call = Unserved
        /\ GrantFor(wanted) /\ page' = p
        /\ UNCHANGED <<policy, admitted, adrift, learned, questions, acts, losses>>
        /\ ActsCover /\ ConsentOK
    BY DEF PanelInv, Types, ServeGrant, Serving
  <1>1. wanted \in Approval /\ page.submit \in Submission
    BY <1>0, PageFields DEF Submission, PageOK, SubmitOK
  <1>2. Follows(consent') /\ (MayGrant(wanted) => epoch > 0)
    BY <1>0, <1>1, GrantFollows
  <1>3. /\ consent.epoch \in Nat /\ acts \in Nat /\ learned \in Nat /\ MaxActs \in Nat
        /\ epoch \in Nat /\ epoch \in {consent.epoch, consent.epoch + 1} /\ acts \in 0..MaxActs
    BY <1>0, <1>2, Numbers DEF Follows, Types
  <1>4. Unserved # Refused /\ Unserved \notin Nat /\ Refused \notin Nat /\ None \notin Nat
        /\ None # Refused
    BY Apart
  <1>5. Owed(page) \in 1..2 /\ Cardinality(Unspent(adrift)) \in Nat
    BY <1>0, UnspentIsFinite DEF Owed, Types
  <1>6. epoch \in Epoch
    <2>1. epoch <= MaxActs
      BY <1>0, <1>3, <1>5 DEF ActsCover
    <2>2. QED
      BY <1>3, <2>1 DEF Epoch
  <1> HIDE DEF epoch, wanted
  <1>7. /\ submit \in Submission /\ submit.state = "granting" /\ submit.call = call
        /\ submit.request = page.submit.request /\ submit.wanted = page.submit.wanted
        /\ call # Unserved
    BY <1>0, <1>1, <1>4, <1>6 DEF Submission, Sent, Epoch
  <1>8. call # None /\ (call \in Epoch => epoch > 0 /\ call <= epoch)
    BY <1>2, <1>3, <1>4 DEF Epoch
  <1> HIDE DEF submit, call
  <1>9. PICK q \in Page :
            /\ q = p /\ q.submit = submit /\ q.revoke = page.revoke
            /\ q.config = page.config /\ q.turns = page.turns /\ q.results = page.results
            /\ q.stream = page.stream /\ q.lost = page.lost
    <2>1. /\ p \in Page /\ p.submit = submit /\ p.revoke = page.revoke
          /\ p.config = page.config /\ p.turns = page.turns /\ p.results = page.results
          /\ p.stream = page.stream /\ p.lost = page.lost
      BY <1>0, <1>7 DEF Page
    <2>2. QED
      BY <2>1
  <1>10. PageOK(page, learned, admitted, epoch)
    <2>1. Grows(admitted, admitted) /\ consent.epoch <= epoch
      BY <1>3 DEF Grows
    <2>2. QED
      BY <1>0, <1>3, <2>1, GrowingKeeps
  <1>11. SubmitOK(q, admitted, epoch) /\ RevokeOK(q, epoch)
    BY <1>0, <1>7, <1>8, <1>9, <1>10 DEF PageOK, SubmitOK, RevokeOK
  <1>12. PageOK(q, learned, admitted, epoch) /\ Ids(q) = Ids(page)
    BY <1>0, <1>7, <1>9, <1>10, <1>11, CallAnswered
  <1>13. epoch + Owed(q) + Cardinality(Unspent(adrift)) <= acts
    <2>1. Owed(q) + 1 = Owed(page) /\ Owed(q) \in 0..1
      BY <1>0, <1>7, <1>9 DEF Owed
    <2>2. QED
      BY <1>0, <1>3, <1>5, <2>1 DEF ActsCover
  <1>14. Drawing(admitted, q, adrift) \subseteq Drawn
    BY <1>7, <1>9, <1>12, DrawnIs DEF Drawing
  <1>15. \A c \in adrift : Sends(c) => epoch > 0
    BY <1>0, <1>3 DEF ConsentOK
  <1>16. page' = q /\ epoch = consent'.epoch
    BY <1>0, <1>9 DEF epoch
  <1>17. QED
    BY <1>0, <1>2, <1>12, <1>13, <1>14, <1>15, <1>16, StepKeeps DEF Types

LEMMA ServeRevokeKeeps ==
  ASSUME PanelInv, ServeRevoke
  PROVE  PanelInv'
  <1> DEFINE epoch == consent'.epoch
             call == IF page.revoke.epoch = consent.epoch THEN epoch ELSE Refused
             revoke == [page.revoke EXCEPT !.call = call]
             p == [page EXCEPT !.revoke = revoke]
  <1>0. /\ Types /\ PageOK(page, learned, admitted, consent.epoch) /\ page \in Page
        /\ page.revoke.state = "pending" /\ page.revoke.call = Unserved
        /\ RevokeFor(page.revoke.epoch) /\ page' = p
        /\ UNCHANGED <<policy, admitted, adrift, learned, questions, acts, losses>>
        /\ ActsCover /\ ConsentOK
    BY DEF PanelInv, Types, ServeRevoke, Serving
  <1>1. page.revoke \in Revocation /\ page.revoke.epoch # None
    BY <1>0, PageFields DEF PageOK, RevokeOK
  <1>2. Follows(consent')
    BY <1>0, RevokedFollows DEF RevokeFor
  <1>3. /\ consent.epoch \in Nat /\ acts \in Nat /\ learned \in Nat /\ MaxActs \in Nat
        /\ epoch \in Nat /\ epoch \in {consent.epoch, consent.epoch + 1} /\ acts \in 0..MaxActs
    BY <1>0, <1>2, Numbers DEF Follows, Types
  <1>4. Unserved # Refused /\ Unserved \notin Nat /\ Refused \notin Nat /\ None \notin Nat
        /\ None # Refused
    BY Apart
  <1>5. Owed(page) \in 1..2 /\ Cardinality(Unspent(adrift)) \in Nat
    BY <1>0, UnspentIsFinite DEF Owed, Types
  <1>6. epoch \in Epoch
    <2>1. epoch <= MaxActs
      BY <1>0, <1>3, <1>5 DEF ActsCover
    <2>2. QED
      BY <1>3, <2>1 DEF Epoch
  <1> HIDE DEF epoch
  <1>7. /\ revoke \in Revocation /\ revoke.state = "pending" /\ revoke.call = call
        /\ revoke.epoch = page.revoke.epoch
        /\ call # Unserved
    BY <1>0, <1>1, <1>4, <1>6 DEF Revocation, Sent, Epoch
  <1>8. call # None /\ (call \in Epoch => call <= epoch)
    BY <1>3, <1>4 DEF Epoch
  <1> HIDE DEF revoke, call
  <1>9. PICK q \in Page :
            /\ q = p /\ q.revoke = revoke /\ q.submit = page.submit /\ q.approval = page.approval
            /\ q.config = page.config /\ q.turns = page.turns /\ q.results = page.results
            /\ q.stream = page.stream /\ q.lost = page.lost
    <2>1. /\ p \in Page /\ p.revoke = revoke /\ p.submit = page.submit /\ p.approval = page.approval
          /\ p.config = page.config /\ p.turns = page.turns /\ p.results = page.results
          /\ p.stream = page.stream /\ p.lost = page.lost
      BY <1>0, <1>7 DEF Page
    <2>2. QED
      BY <2>1
  <1>10. PageOK(page, learned, admitted, epoch)
    <2>1. Grows(admitted, admitted) /\ consent.epoch <= epoch
      BY <1>3 DEF Grows
    <2>2. QED
      BY <1>0, <1>3, <2>1, GrowingKeeps
  <1>11. SubmitOK(q, admitted, epoch)
    BY <1>9, <1>10 DEF PageOK, SubmitOK
  <1>12. RevokeOK(q, epoch)
    BY <1>1, <1>7, <1>8, <1>9 DEF RevokeOK
  <1>13. PageOK(q, learned, admitted, epoch) /\ Ids(q) = Ids(page)
    BY <1>9, <1>10, <1>11, <1>12, CallAnswered
  <1>14. epoch + Owed(q) + Cardinality(Unspent(adrift)) <= acts
    <2>1. Owed(q) + 1 = Owed(page) /\ Owed(q) \in 0..1
      BY <1>0, <1>7, <1>9 DEF Owed
    <2>2. QED
      BY <1>0, <1>3, <1>5, <2>1 DEF ActsCover
  <1>15. Drawing(admitted, q, adrift) \subseteq Drawn
    BY <1>9, <1>13, DrawnIs DEF Drawing
  <1>16. \A c \in adrift : Sends(c) => epoch > 0
    BY <1>0, <1>3 DEF ConsentOK
  <1>17. page' = q /\ epoch = consent'.epoch
    BY <1>0, <1>9 DEF epoch
  <1>18. QED
    BY <1>0, <1>2, <1>13, <1>14, <1>15, <1>16, <1>17, StepKeeps DEF Types

LEMMA GenerateFacts ==
  ASSUME Types, NEW request \in Question, GenerateFor(request)
  PROVE  /\ admitted' \in [Request -> Row \cup {None}] /\ Grows(admitted, admitted')
         /\ \A id \in Request : admitted'[id] # None => admitted[id] # None \/ id = request.id
  <1>1. /\ admitted \in [Request -> Row \cup {None}] /\ request.id \in Request
        /\ NewRow \in Row
    BY DEF Types, Question, NewRow, Row, Reports
  <1>2. CASE admitted' = admitted
    BY <1>1, <1>2 DEF Grows
  <1>3. CASE admitted' # admitted
    <2>1. admitted[request.id] = None /\ admitted' = [admitted EXCEPT ![request.id] = NewRow]
      BY <1>3 DEF GenerateFor
    <2>2. QED
      BY <1>1, <2>1 DEF Grows
  <1>4. QED
    BY <1>2, <1>3

LEMMA ServeGenerateKeeps ==
  ASSUME PanelInv, ServeGenerate
  PROVE  PanelInv'
  <1> DEFINE request == page.submit.request
             rows == admitted'
             call == IF rows[request.id] # None THEN consent.epoch ELSE Refused
             submit == [page.submit EXCEPT !.call = call]
             p == [page EXCEPT !.submit = submit]
  <1>0. /\ Types /\ PageOK(page, learned, admitted, consent.epoch) /\ page \in Page
        /\ page.submit.state = "generating" /\ page.submit.call = Unserved
        /\ GenerateFor(request) /\ page' = p
        /\ UNCHANGED <<consent, policy, adrift, learned, questions, acts, losses>>
        /\ ActsCover /\ ConsentOK
    BY DEF PanelInv, Types, ServeGenerate, Serving
  <1>1. request \in Question /\ request # None /\ page.submit \in Submission
    BY <1>0, PageFields DEF Submission, PageOK, SubmitOK
  <1>2. /\ rows \in [Request -> Row \cup {None}] /\ Grows(admitted, rows)
        /\ \A id \in Request : rows[id] # None => admitted[id] # None \/ id = request.id
    BY <1>0, <1>1, GenerateFacts
  <1>3. consent.epoch \in Epoch /\ consent.epoch \in Nat /\ learned \in Nat
    BY <1>0, Numbers DEF Types
  <1>4. Unserved # Refused /\ Unserved \notin Nat /\ Refused \notin Nat /\ None \notin Nat
        /\ None # Refused
    BY Apart
  <1>5. request = page.submit.request /\ rows = admitted'
    OBVIOUS
  <1> HIDE DEF rows, request
  <1>6. /\ submit \in Submission /\ submit.state = "generating" /\ submit.call = call
        /\ submit.request = page.submit.request
        /\ call # Unserved
    BY <1>0, <1>1, <1>3, <1>4 DEF Submission, Sent
  <1>7. /\ call # None /\ call # Unserved
        /\ call \in Epoch => rows[request.id] # None
    <2>1. Refused \notin Epoch
      BY Apart
    <2>2. QED
      BY <1>3, <1>4, <2>1
  <1> HIDE DEF submit, call
  <1>8. PICK q \in Page :
            /\ q = p /\ q.submit = submit /\ q.revoke = page.revoke /\ q.approval = page.approval
            /\ q.config = page.config /\ q.turns = page.turns /\ q.results = page.results
            /\ q.stream = page.stream /\ q.lost = page.lost
    <2>1. /\ p \in Page /\ p.submit = submit /\ p.revoke = page.revoke
          /\ p.approval = page.approval
          /\ p.config = page.config /\ p.turns = page.turns /\ p.results = page.results
          /\ p.stream = page.stream /\ p.lost = page.lost
      BY <1>0, <1>6 DEF Page
    <2>2. QED
      BY <2>1
  <1>9. PageOK(page, learned, rows, consent.epoch)
    <2>1. consent.epoch <= consent.epoch
      BY <1>3
    <2>2. QED
      BY <1>0, <1>2, <1>3, <2>1, GrowingKeeps
  <1>10. SubmitOK(q, rows, consent.epoch) /\ RevokeOK(q, consent.epoch)
    BY <1>0, <1>1, <1>5, <1>6, <1>7, <1>8, <1>9 DEF PageOK, SubmitOK, RevokeOK
  <1>11. PageOK(q, learned, rows, consent.epoch) /\ Ids(q) = Ids(page)
    BY <1>0, <1>6, <1>8, <1>9, <1>10, CallAnswered
  <1>12. consent.epoch + Owed(q) + Cardinality(Unspent(adrift)) <= acts
    <2>1. Owed(q) = Owed(page)
      BY <1>0, <1>6, <1>8 DEF Owed
    <2>2. QED
      BY <1>0, <2>1 DEF ActsCover
  <1>13. Drawing(rows, q, adrift) \subseteq Drawn
    BY <1>1, <1>2, <1>5, <1>6, <1>8, <1>11, DrawnIs DEF Drawing
  <1>14. page' = q
    BY <1>0, <1>8
  <1>15. Follows(consent)
    BY RevokedFollows
  <1>16. QED
    BY <1>0, <1>2, <1>5, <1>11, <1>12, <1>13, <1>14, <1>15, StepKeeps DEF Types, ConsentOK

\* Of the calls that nobody waits for, one is served.
LEMMA AdriftFacts ==
  ASSUME Types, NEW c \in adrift, NEW more \in SUBSET [kind: {"granted"}, wanted: {None}, request: Question],
         IsFiniteSet(more)
  PROVE  /\ IsFiniteSet((adrift \ {c}) \cup more) /\ (adrift \ {c}) \cup more \subseteq Call
         /\ Cardinality(Unspent((adrift \ {c}) \cup more)) +
                (IF c.kind \in {"grant", "revoke"} THEN 1 ELSE 0) <= Cardinality(Unspent(adrift))
         /\ Cardinality(Unspent((adrift \ {c}) \cup more)) \in Nat
         /\ Cardinality(Unspent(adrift)) \in Nat
  <1>1. IsFiniteSet(adrift) /\ adrift \subseteq Call
    BY DEF Types
  <1>2. IsFiniteSet(adrift \ {c})
    BY <1>1, FS_Subset
  <1>3. IsFiniteSet((adrift \ {c}) \cup more)
    BY <1>2, FS_Union
  <1>4. more \subseteq Call
    BY DEF Call
  <1>5. Unspent((adrift \ {c}) \cup more) = Unspent(adrift) \ {c}
    BY DEF Unspent
  <1>6. IsFiniteSet(Unspent(adrift)) /\ Cardinality(Unspent(adrift)) \in Nat
    BY <1>1, UnspentIsFinite
  <1> DEFINE calls == (adrift \ {c}) \cup more
  <1>7. /\ IsFiniteSet(calls) /\ calls \subseteq Call
        /\ Unspent(calls) = Unspent(adrift) \ {c}
    BY <1>1, <1>3, <1>4, <1>5
  <1> HIDE DEF calls
  <1>8. Cardinality(Unspent(calls)) \in Nat
    BY <1>7, UnspentIsFinite
  <1>9. Cardinality(Unspent(calls)) = IF c \in Unspent(adrift)
                                      THEN Cardinality(Unspent(adrift)) - 1
                                      ELSE Cardinality(Unspent(adrift))
    BY <1>6, <1>7, FS_RemoveElement
  <1>10. c.kind \in {"grant", "revoke"} <=> c \in Unspent(adrift)
    BY DEF Unspent
  <1>11. Cardinality(Unspent(calls)) + (IF c.kind \in {"grant", "revoke"} THEN 1 ELSE 0)
             <= Cardinality(Unspent(adrift))
    <2>1. CASE c \in Unspent(adrift)
      BY <1>6, <1>8, <1>9, <1>10, <2>1
    <2>2. CASE c \notin Unspent(adrift)
      BY <1>6, <1>8, <1>9, <1>10, <2>2
    <2>3. QED
      BY <2>1, <2>2
  <1>12. QED
    BY <1>6, <1>7, <1>8, <1>11 DEF calls

LEMMA ServeAdriftKeeps ==
  ASSUME PanelInv, NEW c \in adrift, ServeAdrift(c)
  PROVE  PanelInv'
  <1> DEFINE goes == c.kind = "grant" /\ c.request # None /\ MayGrant(c.wanted)
             more == IF goes THEN {On("granted", None, c.request)} ELSE {}
             calls == (adrift \ {c}) \cup more
             spent == IF c.kind \in {"grant", "revoke"} THEN 1 ELSE 0
  <1>0. /\ Types /\ PageOK(page, learned, admitted, consent.epoch) /\ page \in Page
        /\ adrift' = calls
        /\ UNCHANGED <<policy, page, learned, questions, acts, losses>>
        /\ ActsCover /\ ConsentOK /\ c \in Call
    BY DEF PanelInv, Types, ServeAdrift
  <1>1. /\ c.request \in Question \cup {None}
        /\ c.kind = "grant" => c.wanted \in Approval
        /\ c.kind = "generate" => c.request \in Question
        /\ c.kind \in {"grant", "granted", "generate", "revoke"}
    BY <1>0 DEF Call
  <1>2. consent' = consent \/ c.kind \in {"grant", "revoke"}
    BY DEF ServeAdrift
  <1>3. Follows(consent') /\ (goes => consent'.epoch > 0)
    <2>1. CASE c.kind = "grant"
      <3>1. GrantFor(c.wanted)
        BY <2>1 DEF ServeAdrift
      <3>2. QED
        BY <1>1, <2>1, <3>1, GrantFollows
    <2>2. CASE c.kind = "revoke"
      <3>1. RevokeFor(c.wanted)
        BY <2>2 DEF ServeAdrift
      <3>2. QED
        BY <2>2, <3>1, RevokedFollows DEF RevokeFor
    <2>3. CASE c.kind \notin {"grant", "revoke"}
      <3>1. consent' = consent
        BY <1>2, <2>3
      <3>2. QED
        BY <2>3, <3>1, RevokedFollows
    <2>4. QED
      BY <2>1, <2>2, <2>3
  <1>4. /\ admitted' \in [Request -> Row \cup {None}] /\ Grows(admitted, admitted')
        /\ \A id \in Request : admitted'[id] # None =>
               admitted[id] # None \/ (c.request # None /\ id = c.request.id)
    <2>1. CASE c.kind = "generate"
      <3>1. GenerateFor(c.request) /\ c.request \in Question /\ c.request # None
        BY <1>1, <2>1, Apart DEF ServeAdrift
      <3>2. QED
        BY <1>0, <3>1, GenerateFacts
    <2>2. CASE c.kind # "generate"
      <3>1. admitted' = admitted
        BY <2>2 DEF ServeAdrift
      <3>2. QED
        BY <1>0, <3>1 DEF Types, Grows
    <2>3. QED
      BY <2>1, <2>2
  <1>5. /\ more \in SUBSET [kind: {"granted"}, wanted: {None}, request: Question]
        /\ IsFiniteSet(more)
        /\ \A x \in more : x.request = c.request /\ goes
    <2>1. CASE goes
      <3>1. c.request \in Question
        BY <1>1, <2>1
      <3>2. more = {[kind |-> "granted", wanted |-> None, request |-> c.request]}
        BY <2>1 DEF On
      <3>3. IsFiniteSet(more)
        BY <3>2, FS_Singleton
      <3>4. QED
        BY <2>1, <3>1, <3>2, <3>3
    <2>2. CASE ~goes
      BY <2>2, FS_EmptySet
    <2>3. QED
      BY <2>1, <2>2
  <1> HIDE DEF more, goes
  <1>6. /\ IsFiniteSet(calls) /\ calls \subseteq Call
        /\ Cardinality(Unspent(calls)) + spent <= Cardinality(Unspent(adrift))
        /\ Cardinality(Unspent(calls)) \in Nat /\ Cardinality(Unspent(adrift)) \in Nat
    BY <1>0, <1>5, AdriftFacts
  <1>7. consent.epoch \in Nat /\ acts \in Nat /\ learned \in Nat /\ consent'.epoch \in Nat
    BY <1>0, <1>3, Numbers DEF Follows
  <1>8. consent.epoch <= consent'.epoch /\ consent'.epoch <= consent.epoch + spent
    BY <1>2, <1>3, <1>7 DEF Follows
  <1>9. PageOK(page, learned, admitted', consent'.epoch)
    BY <1>0, <1>4, <1>7, <1>8, GrowingKeeps
  <1>10. Drawing(admitted', page, calls) \subseteq Drawn
    <2>1. \A x \in calls : x \in adrift \/ x.request = c.request
      BY <1>5
    <2> HIDE DEF calls
    <2>2. QED
      BY <1>4, <2>1, DrawnIs DEF Drawing
  <1>11. \A x \in calls : Sends(x) => consent'.epoch > 0
    <2>1. \A x \in adrift : Sends(x) => consent.epoch > 0
      BY <1>0 DEF ConsentOK
    <2>2. QED
      BY <1>3, <1>5, <1>7, <1>8, <2>1
  <1>12. consent'.epoch + Owed(page) + Cardinality(Unspent(calls)) <= acts
    <2>1. Owed(page) \in 0..2 /\ spent \in 0..1
      BY OwedIsSmall
    <2> HIDE DEF spent, calls
    <2>2. QED
      BY <1>0, <1>6, <1>7, <1>8, <2>1 DEF ActsCover
  <1>13. adrift' = calls /\ page' = page /\ acts' = acts /\ acts' \in 0..MaxActs
    BY <1>0 DEF Types
  <1> HIDE DEF calls
  <1>14. QED
    BY <1>0, <1>3, <1>4, <1>6, <1>9, <1>10, <1>11, <1>12, <1>13, StepKeeps DEF Types

LEMMA ProgressKeeps ==
  ASSUME PanelInv, NEW id \in Request, NEW state \in Reports, Progress(id, state)
  PROVE  PanelInv'
  <1>0. /\ Types /\ PageOK(page, learned, admitted, consent.epoch) /\ page \in Page
        /\ admitted[id] # None /\ admitted' = [admitted EXCEPT ![id].state = state]
        /\ UNCHANGED <<consent, policy, page, adrift, learned, questions, acts, losses>>
        /\ ActsCover /\ ConsentOK
    BY DEF PanelInv, Types, Progress
  <1>1. /\ admitted' \in [Request -> Row \cup {None}] /\ Grows(admitted, admitted')
        /\ \A x \in Request : admitted'[x] # None => admitted[x] # None
    <2> DEFINE row == [admitted[id] EXCEPT !.state = state]
    <2>1. admitted \in [Request -> Row \cup {None}] /\ admitted[id] \in Row
      BY <1>0 DEF Types
    <2>2. row \in Row /\ row.epoch = admitted[id].epoch
      BY <2>1 DEF Row
    <2>3. row # None
      BY <2>2, Apart
    <2> HIDE DEF row
    <2>4. /\ admitted' \in [Request -> Row \cup {None}] /\ admitted'[id] = row
          /\ \A x \in Request : x # id => admitted'[x] = admitted[x]
      BY <1>0, <2>1, <2>2 DEF row
    <2>5. QED
      BY <1>0, <2>2, <2>3, <2>4 DEF Grows
  <1>2. PageOK(page, learned, admitted', consent.epoch)
    <2>1. consent.epoch \in Nat /\ learned \in Nat /\ consent.epoch <= consent.epoch
      BY <1>0, Numbers
    <2>2. QED
      BY <1>0, <1>1, <2>1, GrowingKeeps
  <1>3. Drawing(admitted', page, adrift) \subseteq Drawn
    BY <1>1, DrawnIs DEF Drawing
  <1>4. Follows(consent)
    BY RevokedFollows
  <1>5. consent.epoch + Owed(page) + Cardinality(Unspent(adrift)) <= acts
    BY <1>0 DEF ActsCover
  <1>6. QED
    BY <1>0, <1>1, <1>2, <1>3, <1>4, <1>5, StepKeeps DEF Types, ConsentOK

LEMMA ElsewhereKeeps ==
  ASSUME PanelInv, Elsewhere
  PROVE  PanelInv'
  <1>0. /\ Types /\ PageOK(page, learned, admitted, consent.epoch) /\ page \in Page /\ Act
        /\ UNCHANGED <<admitted, page, adrift, learned, questions, losses>>
        /\ ActsCover /\ ConsentOK
    BY DEF PanelInv, Types, Elsewhere
  <1>1. Follows(consent') /\ policy' \in Policy
    <2>1. CASE consent' = Granted([epoch |-> consent.epoch, policy |-> policy]) /\ policy' = policy
      <3> DEFINE wanted == [epoch |-> consent.epoch, policy |-> policy]
      <3>1. wanted \in Approval /\ MayGrant(wanted)
        BY <1>0 DEF Types, Approval, MayGrant
      <3>2. GrantFor(wanted)
        BY <2>1, <3>1 DEF GrantFor
      <3> HIDE DEF wanted
      <3>3. QED
        BY <1>0, <2>1, <3>1, <3>2, GrantFollows DEF Types
    <2>2. CASE consent' = Revoked /\ policy' = policy
      BY <1>0, <2>2, RevokedFollows DEF Types
    <2>3. CASE policy' \in Policy \ {policy} /\ consent' = consent
      BY <2>3, RevokedFollows
    <2>4. QED
      BY <2>1, <2>2, <2>3 DEF Elsewhere
  <1>2. acts' \in 0..MaxActs /\ acts' = acts + 1
    BY <1>0, ActFacts
  <1>3. /\ consent.epoch \in Nat /\ acts \in Nat /\ learned \in Nat /\ consent'.epoch \in Nat
        /\ consent.epoch <= consent'.epoch /\ consent'.epoch <= consent.epoch + 1
    <2>1. consent.epoch \in Nat /\ acts \in Nat /\ learned \in Nat
      BY <1>0, Numbers
    <2>2. QED
      BY <1>1, <2>1 DEF Follows
  <1>4. PageOK(page, learned, admitted, consent'.epoch)
    <2>1. Grows(admitted, admitted)
      BY DEF Grows
    <2>2. QED
      BY <1>0, <1>3, <2>1, GrowingKeeps
  <1>5. Drawing(admitted, page, adrift) \subseteq Drawn
    BY DrawnIs
  <1>6. consent'.epoch + Owed(page) + Cardinality(Unspent(adrift)) <= acts'
    <2>1. Owed(page) \in 0..2 /\ Cardinality(Unspent(adrift)) \in Nat
      BY <1>0, OwedIsSmall, UnspentIsFinite DEF Types
    <2>2. QED
      BY <1>0, <1>2, <1>3, <2>1 DEF ActsCover
  <1>7. \A c \in adrift : Sends(c) => consent'.epoch > 0
    BY <1>0, <1>3 DEF ConsentOK
  <1>8. QED
    BY <1>0, <1>1, <1>2, <1>4, <1>5, <1>6, <1>7, StepKeeps DEF Types

-----------------------------------------------------------------------------
(* Theorems *)

LEMMA PanelStarts ==
  ASSUME Init
  PROVE  PanelInv
  <1>0. /\ 0 \in Epoch /\ MaxActs \in Nat /\ MaxLosses \in Nat
        /\ Unserved # None /\ None \notin Configuration /\ Unserved \notin Configuration
        /\ None # "PUBLISHED"
    BY Apart DEF Reports
  <1>1. /\ page.config = [data |-> None, failed |-> FALSE, fetch |-> Unserved]
        /\ page.turns = <<>> /\ page.results = [id \in Request |-> NoResult]
        /\ page.submit = Idle /\ page.approval = None /\ page.revoke = Closed
        /\ page.seen = None /\ page.stream = None /\ page.lost = None
        /\ admitted = [id \in Request |-> None] /\ adrift = {} /\ learned = 0
        /\ questions = 0 /\ acts = 0 /\ losses = 0 /\ consent.epoch = 0 /\ consent.granted = FALSE
    BY DEF Init
  <1>2. page \in Page
    <2>1. [data |-> None, failed |-> FALSE, fetch |-> Unserved] \in ConfigurationQuery
      BY DEF ConfigurationQuery
    <2>2. Idle \in Submission /\ Closed \in Revocation /\ NoResult \in Result
      BY DEF Idle, Closed, NoResult, Submission, Revocation, Result, Sent
    <2>3. <<>> \in Seq(Turn)
      BY EmptySeq
    <2>4. [id \in Request |-> NoResult] \in [Request -> Result]
      BY <2>2
    <2>5. page = [config |-> [data |-> None, failed |-> FALSE, fetch |-> Unserved],
                  turns |-> <<>>, results |-> [id \in Request |-> NoResult],
                  submit |-> Idle, approval |-> None, revoke |-> Closed, seen |-> None,
                  stream |-> None, lost |-> None]
      BY DEF Init
    <2> HIDE DEF NoResult, Idle, Closed
    <2>6. QED
      BY <2>1, <2>2, <2>3, <2>4, <2>5 DEF Page
  <1>3. FirstPolicy \in Policy
    BY AnswerPanelAssumption DEF FirstPolicy
  <1>4. Types
    <2>1. consent \in [granted: BOOLEAN, epoch: Epoch, policy: Policy \cup {None}]
      BY <1>0 DEF Init
    <2>2. policy \in Policy
      BY <1>3 DEF Init
    <2>3. admitted \in [Request -> Row \cup {None}]
      BY <1>1
    <2>4. IsFiniteSet(adrift)
      BY <1>1, FS_EmptySet
    <2>5. QED
      BY <1>0, <1>1, <1>2, <2>1, <2>2, <2>3, <2>4 DEF Types
  <1>5. Owed(page) = 0
    BY <1>1 DEF Owed, Idle, Closed
  <1>6. ActsCover
    <2>1. Unspent(adrift) = {}
      BY <1>1 DEF Unspent
    <2>2. Cardinality({}) = 0
      BY FS_EmptySet
    <2>3. consent.epoch + Owed(page) + Cardinality(Unspent(adrift)) <= acts
      <3>1. Cardinality(Unspent(adrift)) = 0
        BY <2>1, <2>2
      <3>2. consent.epoch = 0 /\ acts = 0
        BY <1>1
      <3>3. QED
        BY <1>5, <3>1, <3>2
    <2>4. QED
      BY <2>3 DEF ActsCover
  <1>7. DOMAIN page.turns = {}
    BY <1>1
  <1>8. QuestionsCover
    <2>1. Drawn = {}
      BY <1>1, <1>7 DEF Drawn, Ids, Idle
    <2>2. IsFiniteSet({}) /\ Cardinality({}) = 0
      BY FS_EmptySet
    <2>3. QED
      BY <1>1, <2>1, <2>2 DEF QuestionsCover
  <1>9. ConsentOK
    BY <1>1 DEF ConsentOK
  <1>10. ConfigOK(page, learned, consent.epoch)
    BY <1>0, <1>1 DEF ConfigOK, Told
  <1>11. SubmitOK(page, admitted, consent.epoch) /\ RevokeOK(page, consent.epoch)
    BY <1>1 DEF SubmitOK, RevokeOK, Idle, Closed
  <1>12. TurnsOK(page, admitted)
    BY <1>7 DEF TurnsOK
  <1>13. RowsOK(page, admitted) /\ FitsOK(page, admitted)
    BY <1>0, <1>1 DEF RowsOK, FitsOK, Known, NoResult
  <1>14. ReadsOK(page) /\ StreamOK(page, admitted)
    BY <1>1, <1>7 DEF ReadsOK, Reads, StreamOK, Following
  <1>15. QED
    BY <1>1, <1>4, <1>6, <1>8, <1>9, <1>10, <1>11, <1>12, <1>13, <1>14 DEF PanelInv, PageOK

LEMMA PanelStays ==
  ASSUME PanelInv, vars' = vars
  PROVE  PanelInv'
  <1>1. UNCHANGED <<consent, policy, admitted, page, adrift, learned, questions, acts, losses>>
    BY DEF vars, server
  <1>2. Drawn' = Drawn
    BY <1>1 DEF Drawn
  <1>3. QED
    BY <1>1, <1>2 DEF PanelInv, Types, ActsCover, QuestionsCover, ConsentOK

LEMMA PanelSteps ==
  ASSUME PanelInv, Next
  PROVE  PanelInv'
  <1>1. CASE Users
    <2>1. CASE \E id \in Request : Reread(id)
      BY <2>1, RereadKeeps
    <2>2. CASE Ask \/ Repeat \/ StartOver \/ Recheck
      BY <2>2, AskKeeps, RepeatKeeps, StartOverKeeps, RecheckKeeps
    <2>3. CASE Reconnect \/ Focus \/ Elsewhere
      BY <2>3, ReconnectKeeps, FocusKeeps, ElsewhereKeeps
    <2>4. CASE OpenRevoke \/ CancelRevoke \/ ConfirmRevoke
      BY <2>4, DialogKeeps
    <2>5. QED
      BY <1>1, <2>1, <2>2, <2>3, <2>4 DEF Users
  <1>2. CASE Serves
    <2>1. CASE \E id \in Request : ServeRead(id)
      BY <2>1, ServeReadKeeps
    <2>2. CASE ServeConfiguration \/ ServeEvent
      BY <2>2, ServeConfigurationKeeps, ServeEventKeeps
    <2>3. CASE ServeGrant \/ ServeGenerate \/ ServeRevoke
      BY <2>3, ServeGrantKeeps, ServeGenerateKeeps, ServeRevokeKeeps
    <2>4. QED
      BY <1>2, <2>1, <2>2, <2>3 DEF Serves
  <1>3. CASE Arrives
    <2>1. CASE \E id \in Request : ReadArrives(id)
      BY <2>1, ReadArrivesKeeps
    <2>2. CASE ConfigurationArrives \/ GrantArrives \/ GenerateArrives
      BY <2>2, ConfigurationArrivesKeeps, GrantArrivesKeeps, GenerateArrivesKeeps
    <2>3. CASE RevokeArrives \/ EventArrives
      BY <2>3, RevokeArrivesKeeps, EventArrivesKeeps
    <2>4. CASE StreamEnds
      BY <2>4, StreamLostKeeps
    <2>5. QED
      BY <1>3, <2>1, <2>2, <2>3, <2>4 DEF Arrives
  <1>4. CASE Fails
    <2>1. CASE \E id \in Request : ReadFails(id)
      BY <2>1, ReadFailsKeeps
    <2>2. CASE ConfigurationFails \/ SubmitFails \/ RevokeFails
      BY <2>2, ConfigurationFailsKeeps, SubmitFailsKeeps, RevokeFailsKeeps
    <2>3. CASE StreamBreaks
      BY <2>3, StreamLostKeeps
    <2>4. QED
      BY <1>4, <2>1, <2>2, <2>3 DEF Fails
  <1>5. CASE \E c \in adrift : ServeAdrift(c) \/ GrantedAdrift(c)
    <2>1. PICK c \in adrift : ServeAdrift(c) \/ GrantedAdrift(c)
      BY <1>5
    <2>2. QED
      BY <2>1, ServeAdriftKeeps, GrantedAdriftKeeps
  <1>6. CASE \E id \in Request, state \in Reports : Progress(id, state)
    BY <1>6, ProgressKeeps
  <1>7. QED
    BY <1>1, <1>2, <1>3, <1>4, <1>5, <1>6 DEF Next

LEMMA PanelInvariance == Spec => []PanelInv
  <1>1. Init => PanelInv
    BY PanelStarts
  <1>2. PanelInv /\ [Next]_vars => PanelInv'
    BY PanelStays, PanelSteps
  <1>3. QED
    BY <1>1, <1>2, PTL DEF Spec

LEMMA PanelKeepsConsent ==
  ASSUME PanelInv
  PROVE  ConsentIsKept
  <1>0. /\ Types /\ PageOK(page, learned, admitted, consent.epoch) /\ page \in Page /\ ConsentOK
    BY DEF PanelInv, Types
  <1>1. ASSUME NEW id \in Request, Shows(page, id), page.submit.state # "checking"
        PROVE  admitted[id].epoch >= learned
    <2>1. /\ page.config.data # None /\ ~page.config.failed /\ id \in Ids(page)
          /\ page.results[id].data = "PUBLISHED"
      BY <1>1 DEF Shows, Consented
    <2>2. page.turns # <<>>
      BY <2>1 DEF Ids
    <2>3. page.config.data.epoch >= learned
      BY <1>0, <1>1, <2>1, <2>2 DEF PageOK, ConfigOK
    <2>4. admitted[id].epoch >= page.config.data.epoch
      BY <1>0, <2>1 DEF PageOK, FitsOK, Fits
    <2>5. admitted[id] # None
      <3>1. Known(page.results[id])
        BY <2>1, Apart DEF Known, Reports
      <3>2. QED
        BY <1>0, <3>1 DEF PageOK, RowsOK
    <2>6. admitted[id].epoch \in Epoch /\ page.config.data.epoch \in Epoch
      BY <1>0, <2>1, <2>5, ReportFacts, ConfigFields DEF Row, Configuration
    <2>7. /\ admitted[id].epoch \in Nat /\ page.config.data.epoch \in Nat /\ learned \in Nat
      BY <1>0, <2>6, Numbers
    <2>8. QED
      BY <2>3, <2>4, <2>7
  <1>2. ShownUnderItsConsent
    BY <1>1 DEF ShownUnderItsConsent
  <1>3. ApprovalBeforeSending
    BY <1>0 DEF ApprovalBeforeSending, PageOK, SubmitOK, ConsentOK, Sends
  <1>4. QED
    BY <1>2, <1>3 DEF ConsentIsKept

LEMMA PanelLeadsOn ==
  ASSUME PanelInv
  PROVE  NeverStuck
  <1>0. /\ Types /\ PageOK(page, learned, admitted, consent.epoch) /\ page \in Page
    BY DEF PanelInv, Types
  <1>1. TypeOK
    BY <1>0 DEF TypeOK, Types, PageOK, StreamOK, SubmitOK, TurnsOK
  <1>2. SUFFICES ASSUME Quiet, ~Offers
                 PROVE  ~Consented(page) /\ Waiting(page)
    BY <1>1 DEF NeverStuck
  <1>3. /\ page.config.fetch = None /\ ~Submitting(page) /\ page.revoke.state # "pending"
        /\ page.stream = None /\ \A id \in Request : page.results[id].fetch = None
    BY <1>2 DEF Quiet
  <1>4. /\ ~MayAsk(page) /\ ~MayReconnect(page) /\ ~MayRecheck(page) /\ ~MayStartOver(page)
    BY <1>2 DEF Offers
  <1>5. ~page.config.failed /\ page.config.data # None
    <2>1. ~page.config.failed
      BY <1>3, <1>4 DEF MayRecheck
    <2>2. QED
      BY <1>0, <1>3, <2>1 DEF PageOK, ConfigOK
  <1>6. page.turns # <<>>
    <2>1. SUFFICES ASSUME page.turns = <<>> PROVE FALSE
      OBVIOUS
    <2>2. Ids(page) = {} /\ ~Waiting(page)
      BY <2>1 DEF Ids, Waiting
    <2>3. QED
      BY <1>3, <1>4, <1>5, <2>1, <2>2 DEF MayAsk
  <1>7. Waiting(page)
    BY <1>3, <1>4, <1>6 DEF MayStartOver
  <1>8. SUFFICES ASSUME Consented(page) PROVE FALSE
    BY <1>7
  <1>9. /\ Latest(page).accepted /\ ~LatestResult(page).failed
        /\ LatestResult(page).data \in {None, "RUNNING"}
    BY <1>7, <1>8 DEF Waiting
  <1>10. Latest(page).request.id \in Request /\ Reads(page, Latest(page).request.id)
    <2>1. Len(page.turns) \in DOMAIN page.turns /\ Latest(page) = page.turns[Len(page.turns)]
      BY <1>0, <1>6, LatestFields
    <2>2. QED
      BY <1>0, <1>6, <1>8, <1>9, <2>1, LatestFields DEF Reads
  <1>11. LatestResult(page).data = "RUNNING"
    <2>1. Known(page.results[Latest(page).request.id])
      BY <1>0, <1>10 DEF PageOK, ReadsOK
    <2>2. QED
      BY <1>3, <1>9, <1>10, <2>1 DEF Known, LatestResult
  <1>12. Following(page)
    BY <1>6, <1>8, <1>9, <1>11 DEF Following
  <1>13. page.lost = Latest(page).request.id
    BY <1>0, <1>3, <1>12 DEF PageOK, StreamOK
  <1>14. MayReconnect(page)
    BY <1>3, <1>10, <1>12, <1>13 DEF MayReconnect, Disconnected, LatestResult
  <1>15. QED
    BY <1>4, <1>14

(* Consent comes first and is honoured to the end: whatever other tabs,    *)
(* late answers and lost calls do, no question is on its way before an     *)
(* approval is stored, and no answer is shown that was asked for under a   *)
(* consent older than one the panel was told of, except while it reads     *)
(* again what its own approval changed (answer-panel.tsx:106-152).         *)
THEOREM ConsentComesFirst == Spec => []ConsentIsKept
  BY PanelInvariance, PanelKeepsConsent, PTL

(* A question that the form sends once is admitted once, however often it  *)
(* is repeated, lost or served late: the id is drawn in the form alone     *)
(* (answer-panel.tsx:418-433).                                             *)
THEOREM QuestionsAreAdmittedOnce == Spec => []OneAdmissionPerQuestion
  <1>1. PanelInv => OneAdmissionPerQuestion
    <2>1. SUFFICES ASSUME PanelInv PROVE OneAdmissionPerQuestion
      OBVIOUS
    <2>2. {id \in Request : admitted[id] # None} \in SUBSET Drawn
      BY DEF Drawn
    <2>3. QED
      BY <2>1, <2>2, DrawsNothing DEF PanelInv, Types, OneAdmissionPerQuestion
  <1>2. QED
    BY <1>1, PanelInvariance, PTL

(* The parts of the panel agree, and with nothing under way some control   *)
(* leads on, unless the policy changed under an accepted question: a lost  *)
(* stream is announced, a failed query can be read again, and an answer    *)
(* that is not there is under way (answer-panel.tsx:153-180).              *)
THEOREM PanelNeverSticks == Spec => []NeverStuck
  BY PanelInvariance, PanelLeadsOn, PTL
=============================================================================
