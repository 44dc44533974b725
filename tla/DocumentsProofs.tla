-------------------------- MODULE DocumentsProofs --------------------------
(***************************************************************************)
(* What the API's material requests do for any number of callers, keys and *)
(* materials: each happens as a whole and once, one that has happened is   *)
(* not refused when it is repeated, and the chunks of a body restore it.   *)
(* And what that means to the tabs of Documents: their forms may be sent   *)
(* again after any failure, and nobody overwrites what they have not seen. *)
(***************************************************************************)
EXTENDS Documents, FiniteSums, SequenceTheorems, TLAPS

-----------------------------------------------------------------------------
(* The invariant.  Beyond what the module promises it says how revisions   *)
(* relate to their material's current one, which is why the number after   *)
(* it is free, that a material's row lock has one holder, and that whoever *)
(* lost the race for a receipt finds it.                                   *)

RowsAgree ==
    /\ \A m \in Material : materials[m] # None =>
           /\ revisions[Current(m)] # None
           /\ revisions[Current(m)].material = m
    /\ \A r \in Revision : revisions[r] # None =>
           /\ materials[revisions[r].material] # None
           /\ r # Current(revisions[r].material) =>
                  revisions[r].number < revisions[Current(revisions[r].material)].number

HoldersChecked ==
    \A c \in Call : At(c, "writing") /\ RequestOf(c).op # "create" =>
        /\ Live(RequestOf(c).material)
        /\ Current(RequestOf(c).material) = RequestOf(c).expected

OneHolder ==
    \A c, d \in Call, m \in Material : Holds(c, m) /\ Holds(d, m) => c = d

LosersHaveWinner == \A c \in Call : At(c, "lost") => Filed(c) # None

MaterialsInv ==
    /\ MaterialsTypeOK
    /\ ReceiptsTellTheTruth
    /\ OneRequestPerRevision
    /\ RowsAgree
    /\ HoldersChecked
    /\ OneHolder
    /\ LosersHaveWinner

-----------------------------------------------------------------------------
(* Requests and fresh identities *)

LEMMA RequestFacts ==
  ASSUME NEW request \in Request
  PROVE  /\ request.op \in {"create", "update", "delete"}
         /\ request.key \in Key
         /\ request.op # "create" => request.material \in Material /\ request.expected \in Revision
         /\ request.op = "create" => request.expected = None
         /\ request.op # "delete" => Prepare(request.draft) \in Content
  <1>1. request.op # "delete" => request.draft \in Draft
    BY DEF Request
  <1>2. request.op # "delete" => Prepare(request.draft) \in Content
    BY <1>1 DEF Content
  <1>3. QED
    BY <1>2 DEF Request

LEMMA FingerprintFacts ==
  ASSUME NEW request \in Request
  PROVE  /\ Fingerprint(request) \in Fingerprints
         /\ Fingerprint(request).op = request.op
         /\ Fingerprint(request).material = request.material
         /\ Fingerprint(request).expected = request.expected
         /\ request.op # "delete" => Fingerprint(request).content = Prepare(request.draft)
  <1>1. request.material \in Material \cup {None} /\ request.expected \in Revision \cup {None}
    BY DEF Request
  <1>2. (IF request.op = "delete" THEN None ELSE Prepare(request.draft)) \in Content \cup {None}
    BY RequestFacts
  <1>3. QED
    BY <1>1, <1>2, RequestFacts DEF Fingerprint, Fingerprints

LEMMA FreshFacts ==
  ASSUME MaterialsTypeOK
  PROVE  /\ HasFresh(materials) =>
                Fresh(materials) \in Material /\ materials[Fresh(materials)] = None
         /\ HasFresh(revisions) =>
                Fresh(revisions) \in Revision /\ revisions[Fresh(revisions)] = None
  BY DEF MaterialsTypeOK, HasFresh, Fresh

LEMMA InitOK == MaterialsInit => MaterialsInv
  <1> SUFFICES ASSUME MaterialsInit PROVE MaterialsInv
    OBVIOUS
  <1> USE DEF MaterialsInit
  <1>1. MaterialsTypeOK
    BY DEF MaterialsTypeOK
  <1>2. ReceiptsTellTheTruth /\ OneRequestPerRevision /\ RowsAgree
    BY DEF ReceiptsTellTheTruth, OneRequestPerRevision, RowsAgree
  <1>3. HoldersChecked /\ OneHolder /\ LosersHaveWinner
    BY DEF HoldersChecked, OneHolder, Holds, LosersHaveWinner, At
  <1>4. QED
    BY <1>1, <1>2, <1>3 DEF MaterialsInv

-----------------------------------------------------------------------------
(* A step either moves one call and leaves the rows alone, or it is the    *)
(* commit of one request.                                                  *)

Quiet(c) ==
    /\ UNCHANGED rows
    /\ calls'[c] \in CallRow \cup {None}
    /\ calls' = [calls EXCEPT ![c] = calls'[c]]
    /\ calls'[c] # None /\ calls'[c].step = "writing" /\ calls'[c].request.op # "create" =>
           LET m == calls'[c].request.material
           IN  /\ Live(m) /\ Current(m) = calls'[c].request.expected
               /\ \A other \in Call : ~Holds(other, m)
    /\ calls'[c] # None /\ calls'[c].step = "lost" => receipts[calls'[c].request.key] # None

Commit(c) ==
    /\ At(c, "writing") /\ Filed(c) = None
    /\ WriteCreate(c) \/ WriteUnchanged(c) \/ WriteUpdate(c) \/ WriteDelete(c)

LEMMA ContinueIsTyped ==
  ASSUME MaterialsTypeOK, NEW c \in Call, calls[c] # None, NEW step \in Steps, Continue(c, step)
  PROVE  /\ calls'[c] \in CallRow /\ calls'[c].step = step
         /\ calls'[c].request = calls[c].request
         /\ calls' = [calls EXCEPT ![c] = calls'[c]]
  BY DEF MaterialsTypeOK, Continue, CallRow

LEMMA AnswerIsTyped ==
  ASSUME MaterialsTypeOK, NEW c \in Call, calls[c] # None, NEW reply \in Replies, Answer(c, reply)
  PROVE  /\ calls'[c] \in CallRow /\ calls'[c].step = "answered"
         /\ calls'[c].reply = reply
         /\ calls' = [calls EXCEPT ![c] = calls'[c]]
  BY DEF MaterialsTypeOK, Answer, CallRow, Steps

LEMMA FiledIsTyped ==
  ASSUME MaterialsTypeOK, NEW c \in Call, calls[c] # None
  PROVE  /\ RequestOf(c) \in Request
         /\ Filed(c) \in Receipt \cup {None}
         /\ Filed(c) # None => ReplayOf(c) \in Replies
  <1>1. RequestOf(c) \in Request
    BY DEF MaterialsTypeOK, CallRow, RequestOf
  <1>2. Filed(c) \in Receipt \cup {None}
    BY <1>1, RequestFacts DEF MaterialsTypeOK, Filed
  <1>3. ASSUME Filed(c) # None PROVE ReplayOf(c) \in Replies
    BY <1>2, <1>3 DEF Receipt, ReplayOf, Saved, Refused, Replies, Refusals
  <1>4. QED
    BY <1>1, <1>2, <1>3

LEMMA RefusedIsReply ==
  ASSUME NEW kind \in Refusals
  PROVE  Refused(kind) \in Replies
  BY DEF Refused, Replies

LEMMA AnsweringIsQuiet ==
  ASSUME MaterialsTypeOK, NEW c \in Call, calls[c] # None, NEW reply \in Replies,
         Answer(c, reply), UNCHANGED rows
  PROVE  Quiet(c)
  BY AnswerIsTyped DEF Quiet

LEMMA LockIsQuiet ==
  ASSUME MaterialsTypeOK, NEW c \in Call, LockMaterial(c)
  PROVE  Quiet(c)
  <1> DEFINE m == RequestOf(c).material
  <1>0. /\ calls[c] # None /\ UNCHANGED rows
        /\ \A other \in Call : ~Holds(other, m)
    BY DEF LockMaterial, At
  <1>1. CASE Filed(c) # None
    <2>1. Answer(c, ReplayOf(c))
      BY <1>1 DEF LockMaterial
    <2>2. QED
      BY <1>0, <1>1, <2>1, FiledIsTyped, AnsweringIsQuiet
  <1>2. CASE Filed(c) = None /\ ~Live(m)
    <2>1. Answer(c, Refused("not_found"))
      BY <1>2 DEF LockMaterial
    <2>2. QED
      BY <1>0, <2>1, RefusedIsReply, AnsweringIsQuiet DEF Refusals
  <1>3. CASE Filed(c) = None /\ Live(m) /\ Current(m) # RequestOf(c).expected
    <2>1. Answer(c, Refused("revision_conflict"))
      BY <1>3 DEF LockMaterial
    <2>2. QED
      BY <1>0, <2>1, RefusedIsReply, AnsweringIsQuiet DEF Refusals
  <1>4. CASE Filed(c) = None /\ Live(m) /\ Current(m) = RequestOf(c).expected
    <2>1. Continue(c, "writing")
      BY <1>4 DEF LockMaterial
    <2>2. /\ calls'[c] \in CallRow /\ calls'[c].request = calls[c].request
          /\ calls'[c].step = "writing"
          /\ calls' = [calls EXCEPT ![c] = calls'[c]]
      BY <1>0, <2>1, ContinueIsTyped DEF Steps
    <2>3. QED
      BY <1>0, <1>4, <2>2 DEF Quiet, RequestOf
  <1>5. QED
    BY <1>1, <1>2, <1>3, <1>4

LEMMA StepKinds ==
  ASSUME MaterialsTypeOK, LosersHaveWinner, MaterialsNext
  PROVE  \E c \in Call : Quiet(c) \/ Commit(c)
  <1>1. ASSUME NEW c \in Call, NEW request \in Request, Arrive(c, request), UNCHANGED rows
        PROVE  Quiet(c)
    <2>1. /\ calls'[c] = [request |-> request, step |-> "arrived", reply |-> None]
          /\ calls' = [calls EXCEPT ![c] = calls'[c]]
      BY <1>1 DEF Arrive, MaterialsTypeOK
    <2>2. QED
      BY <1>1, <2>1 DEF Quiet, CallRow, Steps
  <1>2. ASSUME NEW c \in Call, ReadReceipt(c)
        PROVE  Quiet(c)
    <2>0. calls[c] # None /\ UNCHANGED rows
      BY <1>2 DEF ReadReceipt, At
    <2>1. CASE Filed(c) # None /\ Answer(c, ReplayOf(c))
      BY <2>0, <2>1, FiledIsTyped, AnsweringIsQuiet
    <2>2. CASE Continue(c, IF RequestOf(c).op = "create" THEN "writing" ELSE "locking")
      BY <2>0, <2>2, ContinueIsTyped DEF Quiet, Steps, RequestOf
    <2>3. QED
      BY <1>2, <2>1, <2>2 DEF ReadReceipt
  <1>3. ASSUME NEW c \in Call, Write(c)
        PROVE  Quiet(c) \/ Commit(c)
    <2>1. CASE Filed(c) # None /\ Continue(c, "lost") /\ UNCHANGED rows
      BY <1>3, <2>1, ContinueIsTyped DEF Write, At, Quiet, Steps, Filed, RequestOf
    <2>2. QED
      BY <1>3, <2>1 DEF Write, Commit
  <1>4. ASSUME NEW c \in Call, ReadWinner(c)
        PROVE  Quiet(c)
    <2>1. Filed(c) # None /\ calls[c] # None
      BY <1>4 DEF ReadWinner, LosersHaveWinner, At
    <2>2. QED
      BY <1>4, <2>1, FiledIsTyped, AnsweringIsQuiet DEF ReadWinner
  <1>5. ASSUME NEW c \in Call, Fail(c)
        PROVE  Quiet(c)
    BY <1>5, RefusedIsReply, AnsweringIsQuiet DEF Fail, Refusals
  <1>6. ASSUME NEW c \in Call, Leave(c), UNCHANGED rows
        PROVE  Quiet(c)
    BY <1>6 DEF Leave, Quiet, MaterialsTypeOK
  <1>7. QED
    BY <1>1, <1>2, LockIsQuiet, <1>3, <1>4, <1>5, <1>6 DEF MaterialsNext, Serve

-----------------------------------------------------------------------------
(* Steps that leave the rows alone *)

LEMMA QuietKeeps ==
  ASSUME MaterialsInv, NEW c \in Call, Quiet(c)
  PROVE  MaterialsInv'
  <1> USE DEF MaterialsInv
  <1>0. /\ UNCHANGED rows
        /\ \A d \in Call : d # c => calls'[d] = calls[d]
    BY DEF Quiet, MaterialsTypeOK
  <1>1. MaterialsTypeOK'
    <2>1. calls' \in [Call -> CallRow \cup {None}]
      BY DEF Quiet, MaterialsTypeOK, CallRow
    <2>2. QED
      BY <1>0, <2>1 DEF MaterialsTypeOK, rows, CallRow
  <1>2. ReceiptsTellTheTruth' /\ OneRequestPerRevision' /\ RowsAgree'
    BY <1>0 DEF ReceiptsTellTheTruth, OneRequestPerRevision, Made, RowsAgree, Current, rows
  <1>3. HoldersChecked'
    BY <1>0 DEF HoldersChecked, Quiet, At, RequestOf, Live, Current, rows
  <1>4. OneHolder'
    BY <1>0 DEF OneHolder, Holds, Quiet, At, RequestOf
  <1>5. LosersHaveWinner'
    BY <1>0 DEF LosersHaveWinner, Quiet, At, Filed, RequestOf, rows
  <1>6. QED
    BY <1>1, <1>2, <1>3, <1>4, <1>5

-----------------------------------------------------------------------------
(* Commits: what they have in common *)

LEMMA CallsAfterCommit ==
  ASSUME MaterialsInv, NEW c \in Call, At(c, "writing"),
         NEW m \in Material, NEW r \in Revision, Answer(c, Saved(m, r))
  PROVE  /\ calls' \in [Call -> CallRow \cup {None}]
         /\ \A d \in Call, step \in {"writing", "lost"} :
                At(d, step)' => d # c /\ At(d, step) /\ calls'[d] = calls[d]
         /\ OneHolder'
  <1>1. Saved(m, r) \in Replies
    BY DEF Saved, Replies
  <1>2. /\ calls'[c] \in CallRow /\ calls'[c].step = "answered"
        /\ calls' = [calls EXCEPT ![c] = calls'[c]]
    BY <1>1, AnswerIsTyped DEF MaterialsInv, At
  <1>3. calls' \in [Call -> CallRow \cup {None}]
    BY <1>2 DEF MaterialsInv, MaterialsTypeOK, CallRow
  <1>4. \A d \in Call : d # c => calls'[d] = calls[d]
    BY <1>2 DEF MaterialsInv, MaterialsTypeOK
  <1>5. \A d \in Call, step \in {"writing", "lost"} :
            At(d, step)' => d # c /\ At(d, step) /\ calls'[d] = calls[d]
    BY <1>2, <1>4 DEF At
  <1>6. OneHolder'
    BY <1>5 DEF MaterialsInv, OneHolder, Holds, RequestOf
  <1>7. QED
    BY <1>3, <1>5, <1>6

LEMMA ReceiptsAfterCommit ==
  ASSUME MaterialsInv, NEW c \in Call, At(c, "writing"),
         NEW m \in Material, NEW r \in Revision, FileReceipt(c, m, r)
  PROVE  /\ receipts' \in [Key -> Receipt \cup {None}]
         /\ RequestOf(c).key \in Key
         /\ receipts'[RequestOf(c).key] =
                [fingerprint |-> Fingerprint(RequestOf(c)), material |-> m, revision |-> r]
         /\ \A k \in Key : k # RequestOf(c).key => receipts'[k] = receipts[k]
         /\ LosersHaveWinner'
  <1>1. RequestOf(c) \in Request
    BY FiledIsTyped DEF MaterialsInv, At
  <1>2. /\ RequestOf(c).key \in Key
        /\ [fingerprint |-> Fingerprint(RequestOf(c)), material |-> m, revision |-> r] \in Receipt
    BY <1>1, RequestFacts, FingerprintFacts DEF Receipt
  <1>3. /\ receipts' \in [Key -> Receipt \cup {None}]
        /\ receipts'[RequestOf(c).key] =
               [fingerprint |-> Fingerprint(RequestOf(c)), material |-> m, revision |-> r]
        /\ \A k \in Key : k # RequestOf(c).key => receipts'[k] = receipts[k]
    BY <1>2 DEF FileReceipt, MaterialsInv, MaterialsTypeOK
  <1>4. ASSUME NEW d \in Call, At(d, "lost")'
        PROVE  Filed(d)' # None
    <2>1. At(d, "lost") /\ calls'[d] = calls[d]
      BY <1>4, CallsAfterCommit DEF FileReceipt
    <2>2. RequestOf(d)' = RequestOf(d) /\ RequestOf(d).key \in Key
      BY <2>1, FiledIsTyped, RequestFacts DEF RequestOf, MaterialsInv, At
    <2>3. receipts[RequestOf(d).key] # None
      BY <2>1 DEF MaterialsInv, LosersHaveWinner, Filed
    <2>4. receipts'[RequestOf(c).key] # None
      <3>1. None \notin Receipt
        BY NoneIsNoRow
      <3>2. QED
        BY <1>2, <1>3, <3>1
    <2>5. QED
      BY <1>3, <2>2, <2>3, <2>4 DEF Filed
  <1>5. QED
    BY <1>2, <1>3, <1>4 DEF LosersHaveWinner

-----------------------------------------------------------------------------
(* What a commit finds *)

\* The call's own request, and whom it cannot meet.
LEMMA WriterFacts ==
  ASSUME MaterialsInv, NEW c \in Call, Commit(c)
  PROVE  /\ RequestOf(c) \in Request
         /\ RequestOf(c).op # "create" =>
                /\ RequestOf(c).material \in Material
                /\ Live(RequestOf(c).material)
                /\ RequestOf(c).expected \in Revision
                /\ Current(RequestOf(c).material) = RequestOf(c).expected
                /\ materials[RequestOf(c).material] \in MaterialRow
                /\ revisions[RequestOf(c).expected] \in RevisionRow
                /\ revisions[RequestOf(c).expected].material = RequestOf(c).material
         /\ \A d \in Call : d # c /\ At(d, "writing") /\ RequestOf(d).op # "create" =>
                /\ RequestOf(d).material \in Material
                /\ Live(RequestOf(d).material)
                /\ RequestOf(c).op # "create" => RequestOf(d).material # RequestOf(c).material
  <1> USE DEF MaterialsInv
  <1>1. \A d \in Call : At(d, "writing") => RequestOf(d) \in Request
    BY FiledIsTyped DEF At
  <1>2. At(c, "writing")
    BY DEF Commit
  <1>3. ASSUME RequestOf(c).op # "create"
        PROVE  /\ RequestOf(c).material \in Material
               /\ Live(RequestOf(c).material)
               /\ RequestOf(c).expected \in Revision
               /\ Current(RequestOf(c).material) = RequestOf(c).expected
    BY <1>1, <1>2, <1>3, RequestFacts DEF HoldersChecked
  <1>4. ASSUME RequestOf(c).op # "create"
        PROVE  /\ materials[RequestOf(c).material] \in MaterialRow
               /\ revisions[RequestOf(c).expected] \in RevisionRow
               /\ revisions[RequestOf(c).expected].material = RequestOf(c).material
    BY <1>3, <1>4 DEF RowsAgree, Live, MaterialsTypeOK
  <1>5. ASSUME NEW d \in Call, d # c, At(d, "writing"), RequestOf(d).op # "create"
        PROVE  /\ RequestOf(d).material \in Material
               /\ Live(RequestOf(d).material)
               /\ RequestOf(c).op # "create" => RequestOf(d).material # RequestOf(c).material
    BY <1>1, <1>2, <1>3, <1>5, RequestFacts DEF HoldersChecked, OneHolder, Holds
  <1>6. QED
    BY <1>1, <1>2, <1>3, <1>4, <1>5

(* Holders keep what they checked if the step spares the materials that     *)
(* others hold.                                                             *)
LEMMA HoldersSpared ==
  ASSUME MaterialsInv, NEW c \in Call, Commit(c),
         NEW m \in Material, NEW r \in Revision, Answer(c, Saved(m, r)),
         \A n \in Material : n # m => materials'[n] = materials[n],
         \A d \in Call : d # c /\ At(d, "writing") /\ RequestOf(d).op # "create" =>
             RequestOf(d).material # m
  PROVE  HoldersChecked'
  <1>1. \A d \in Call : At(d, "writing")' =>
            d # c /\ At(d, "writing") /\ RequestOf(d)' = RequestOf(d)
    BY CallsAfterCommit DEF Commit, RequestOf
  <1>2. QED
    BY <1>1, WriterFacts DEF HoldersChecked, MaterialsInv, Live, Current

(* A new revision under a receipt of its own.                               *)
LEMMA NewRevisionHasOneMaker ==
  ASSUME MaterialsInv, NEW c \in Call, Commit(c),
         NEW m \in Material, NEW r \in Revision, FileReceipt(c, m, r),
         RequestOf(c).op # "delete", revisions[r] = None,
         \A q \in Revision : q # r => revisions'[q] = revisions[q]
  PROVE  OneRequestPerRevision'
  <1>0. /\ At(c, "writing") /\ Filed(c) = None /\ RequestOf(c) \in Request
    BY WriterFacts DEF Commit
  <1>1. PICK key \in Key :
            /\ receipts[key] = None
            /\ receipts'[key] =
                   [fingerprint |-> Fingerprint(RequestOf(c)), material |-> m, revision |-> r]
            /\ \A k \in Key : k # key => receipts'[k] = receipts[k]
    BY <1>0, ReceiptsAfterCommit DEF Filed
  <1>2. receipts'[key] # None
    <2>1. receipts'[key] \in Receipt
      BY <1>0, <1>1, FingerprintFacts DEF Receipt
    <2>2. QED
      BY <2>1, NoneIsNoRow
  <1>3. Fingerprint(RequestOf(c)).op # "delete" /\ Fingerprint(RequestOf(c)).expected # r
    <2>1. CASE RequestOf(c).op = "create"
      BY <1>0, <2>1, RequestFacts, FingerprintFacts, MaterialsAssumption
    <2>2. CASE RequestOf(c).op # "create"
      <3>1. revisions[RequestOf(c).expected] # None
        BY <2>2, WriterFacts, NoneIsNoRow
      <3>2. QED
        BY <1>0, <3>1, FingerprintFacts
    <2>3. QED
      BY <2>1, <2>2
  <1>4. \A k \in Key : receipts[k] # None => receipts[k].revision # r
    BY DEF MaterialsInv, ReceiptsTellTheTruth
  <1>5. Made(key, r)' /\ \A k \in Key \ {key} : ~Made(k, r)'
    BY <1>1, <1>2, <1>3, <1>4 DEF Made
  <1>6. ASSUME NEW q \in Revision, q # r, revisions'[q] # None
        PROVE  \E k \in Key : Made(k, q)' /\ \A other \in Key \ {k} : ~Made(other, q)'
    <2>1. PICK k \in Key : Made(k, q) /\ \A other \in Key \ {k} : ~Made(other, q)
      BY <1>6 DEF MaterialsInv, OneRequestPerRevision
    <2>2. k # key
      BY <1>1, <2>1 DEF Made
    <2>3. Made(k, q)' /\ \A other \in Key \ {k} : ~Made(other, q)'
      BY <1>1, <1>6, <2>1, <2>2 DEF Made
    <2>4. QED
      BY <2>3
  <1>7. QED
    BY <1>1, <1>5, <1>6 DEF OneRequestPerRevision

(* A receipt that made nothing.                                             *)
LEMMA OldRevisionsKeepTheirMakers ==
  ASSUME MaterialsInv, NEW c \in Call, Commit(c),
         NEW m \in Material, NEW r \in Revision, FileReceipt(c, m, r),
         RequestOf(c).op # "delete" => RequestOf(c).expected = r,
         UNCHANGED revisions
  PROVE  OneRequestPerRevision'
  <1>0. /\ At(c, "writing") /\ Filed(c) = None /\ RequestOf(c) \in Request
    BY WriterFacts DEF Commit
  <1>1. PICK key \in Key :
            /\ receipts[key] = None
            /\ receipts'[key] =
                   [fingerprint |-> Fingerprint(RequestOf(c)), material |-> m, revision |-> r]
            /\ \A k \in Key : k # key => receipts'[k] = receipts[k]
    BY <1>0, ReceiptsAfterCommit DEF Filed
  <1>2. \A q \in Revision : ~Made(key, q)'
    BY <1>0, <1>1, FingerprintFacts DEF Made
  <1>3. \A k \in Key, q \in Revision : k # key => (Made(k, q)' <=> Made(k, q))
    BY <1>1 DEF Made
  <1>4. \A q \in Revision : ~Made(key, q)
    BY <1>1 DEF Made
  <1>5. QED
    BY <1>2, <1>3, <1>4 DEF MaterialsInv, OneRequestPerRevision

(* The new receipt and the old ones, given what the commit does to the rows *)
(* they speak of.                                                           *)
LEMMA ReceiptsStayTrue ==
  ASSUME MaterialsInv, NEW c \in Call, Commit(c),
         NEW m \in Material, NEW r \in Revision, FileReceipt(c, m, r),
         RequestOf(c).op # "create" => RequestOf(c).material = m,
         revisions'[r] # None, revisions'[r].material = m,
         RequestOf(c).op # "delete" => revisions'[r].content = Prepare(RequestOf(c).draft),
         RequestOf(c).op = "delete" => materials'[m] = [current |-> r, deleted |-> TRUE],
         \A q \in Revision : revisions[q] # None => revisions'[q] = revisions[q],
         \A n \in Material : materials[n] # None /\ materials[n].deleted =>
             materials'[n] = materials[n]
  PROVE  ReceiptsTellTheTruth'
  <1>1. PICK key \in Key :
            /\ receipts'[key] =
                   [fingerprint |-> Fingerprint(RequestOf(c)), material |-> m, revision |-> r]
            /\ \A k \in Key : k # key => receipts'[k] = receipts[k]
    BY ReceiptsAfterCommit DEF Commit
  <1>2. RequestOf(c) \in Request
    BY WriterFacts
  <1>3. ASSUME NEW k \in Key, k # key, receipts[k] # None
        PROVE  /\ receipts[k] \in Receipt
               /\ revisions'[receipts[k].revision] = revisions[receipts[k].revision]
               /\ receipts[k].fingerprint.op = "delete" =>
                      materials'[receipts[k].material] = materials[receipts[k].material]
    <2>1. receipts[k] \in Receipt
      BY <1>3 DEF MaterialsInv, MaterialsTypeOK
    <2>2. receipts[k].revision \in Revision /\ receipts[k].material \in Material
      BY <2>1 DEF Receipt
    <2>3. revisions[receipts[k].revision] # None
      BY <1>3 DEF MaterialsInv, ReceiptsTellTheTruth
    <2>4. ASSUME receipts[k].fingerprint.op = "delete"
          PROVE  materials'[receipts[k].material] = materials[receipts[k].material]
      <3>1. materials[receipts[k].material]
                = [current |-> receipts[k].revision, deleted |-> TRUE]
        BY <1>3, <2>4 DEF MaterialsInv, ReceiptsTellTheTruth
      <3>2. materials[receipts[k].material] \in MaterialRow
        BY <2>2, <3>1 DEF MaterialRow
      <3>3. materials[receipts[k].material] # None
        BY <3>2, NoneIsNoRow
      <3>4. QED
        BY <2>2, <3>1, <3>3
    <2>5. QED
      BY <2>1, <2>2, <2>3, <2>4
  <1>4. ASSUME NEW k \in Key, receipts'[k] # None
        PROVE  LET f == receipts'[k].fingerprint
                   n == receipts'[k].material
                   q == receipts'[k].revision
               IN  /\ f.op # "create" => f.material = n
                   /\ revisions'[q] # None /\ revisions'[q].material = n
                   /\ f.op # "delete" => revisions'[q].content = f.content
                   /\ f.op = "delete" => materials'[n] = [current |-> q, deleted |-> TRUE]
    <2>1. CASE k = key
      <3>1. /\ receipts'[k].fingerprint = Fingerprint(RequestOf(c))
            /\ receipts'[k].material = m /\ receipts'[k].revision = r
        BY <1>1, <2>1
      <3>2. /\ Fingerprint(RequestOf(c)).op = RequestOf(c).op
            /\ Fingerprint(RequestOf(c)).material = RequestOf(c).material
            /\ RequestOf(c).op # "delete" =>
                   Fingerprint(RequestOf(c)).content = Prepare(RequestOf(c).draft)
        BY <1>2, FingerprintFacts
      <3>3. QED
        BY <3>1, <3>2
    <2>2. CASE k # key
      BY <1>1, <1>3, <1>4, <2>2 DEF MaterialsInv, ReceiptsTellTheTruth
    <2>3. QED
      BY <2>1, <2>2
  <1>5. QED
    BY <1>4 DEF ReceiptsTellTheTruth

-----------------------------------------------------------------------------
(* The four commits *)

LEMMA CreateKeeps ==
  ASSUME MaterialsInv, NEW c \in Call, Commit(c), WriteCreate(c)
  PROVE  MaterialsInv'
  <1> DEFINE body == Prepare(RequestOf(c).draft)
  <1>1. PICK m \in Material, r \in Revision :
            /\ materials[m] = None /\ revisions[r] = None
            /\ materials' = [materials EXCEPT ![m] = [current |-> r, deleted |-> FALSE]]
            /\ InsertRevision(r, m, 1, body)
            /\ FileReceipt(c, m, r)
    <2>1. HasFresh(materials) /\ HasFresh(revisions)
      BY DEF WriteCreate
    <2>2. Fresh(materials) \in Material /\ Fresh(revisions) \in Revision
      BY <2>1, FreshFacts DEF MaterialsInv
    <2>3. QED
      BY <2>1, <2>2, FreshFacts DEF WriteCreate, MaterialsInv
  <1>2. RequestOf(c).op = "create" /\ RequestOf(c) \in Request /\ body \in Content
    BY WriterFacts, RequestFacts DEF WriteCreate
  <1>3. /\ materials' \in [Material -> MaterialRow \cup {None}]
        /\ materials'[m] = [current |-> r, deleted |-> FALSE]
        /\ \A n \in Material : n # m => materials'[n] = materials[n]
    BY <1>1 DEF MaterialsInv, MaterialsTypeOK, MaterialRow
  <1>4. /\ revisions' \in [Revision -> RevisionRow \cup {None}]
        /\ revisions'[r] = [material |-> m, number |-> 1, content |-> body]
        /\ \A q \in Revision : q # r => revisions'[q] = revisions[q]
        /\ DOMAIN chunks' = Revision
    BY <1>1, <1>2 DEF InsertRevision, MaterialsInv, MaterialsTypeOK, RevisionRow
  <1>5. materials'[m] # None /\ revisions'[r] # None
    <2>1. materials'[m] \in MaterialRow
      BY <1>3 DEF MaterialRow
    <2>2. revisions'[r] \in RevisionRow
      BY <1>2, <1>4 DEF RevisionRow
    <2>3. QED
      BY <2>1, <2>2, NoneIsNoRow
  <1>6. Answer(c, Saved(m, r)) /\ At(c, "writing")
    BY <1>1 DEF FileReceipt, Commit
  <1>7. MaterialsTypeOK'
    BY <1>1, <1>3, <1>4, <1>6, CallsAfterCommit, ReceiptsAfterCommit
    DEF MaterialsTypeOK, CallRow
  <1>8. ReceiptsTellTheTruth' /\ OneRequestPerRevision'
    <2>1. /\ \A q \in Revision : revisions[q] # None => revisions'[q] = revisions[q]
          /\ \A n \in Material : materials[n] # None /\ materials[n].deleted =>
                 materials'[n] = materials[n]
      BY <1>1, <1>3, <1>4
    <2>2. revisions'[r].material = m /\ revisions'[r].content = body
      BY <1>4
    <2>3. QED
      BY <1>1, <1>2, <1>4, <1>5, <2>1, <2>2, ReceiptsStayTrue, NewRevisionHasOneMaker
  <1>9. RowsAgree'
    <2>1. \A q \in Revision : revisions[q] # None =>
              q # r /\ revisions[q].material # m /\ revisions[q].material \in Material
      BY <1>1 DEF MaterialsInv, RowsAgree, MaterialsTypeOK, RevisionRow
    <2>2. ASSUME NEW n \in Material, materials'[n] # None
          PROVE  revisions'[materials'[n].current] # None
                 /\ revisions'[materials'[n].current].material = n
      <3>1. CASE n = m
        BY <1>3, <1>4, <1>5, <3>1
      <3>2. CASE n # m
        <4>1. /\ materials[n] # None /\ materials'[n] = materials[n]
              /\ materials[n].current \in Revision
          BY <1>3, <2>2, <3>2 DEF MaterialsInv, MaterialsTypeOK, MaterialRow
        <4>2. revisions[materials[n].current] # None /\ revisions[materials[n].current].material = n
          BY <4>1 DEF MaterialsInv, RowsAgree, Current
        <4>3. QED
          BY <1>4, <2>1, <4>1, <4>2
      <3>3. QED
        BY <3>1, <3>2
    <2>3. ASSUME NEW q \in Revision, revisions'[q] # None
          PROVE  LET n == revisions'[q].material
                 IN  /\ materials'[n] # None
                     /\ q # materials'[n].current =>
                            revisions'[q].number < revisions'[materials'[n].current].number
      <3>1. CASE q = r
        BY <1>3, <1>4, <1>5, <3>1
      <3>2. CASE q # r
        <4>1. /\ revisions[q] # None /\ revisions'[q] = revisions[q]
              /\ revisions[q].material # m /\ revisions[q].material \in Material
          BY <1>4, <2>1, <2>3, <3>2
        <4>2. /\ materials'[revisions[q].material] = materials[revisions[q].material]
              /\ materials[revisions[q].material] # None
              /\ materials[revisions[q].material].current \in Revision
          BY <1>3, <4>1 DEF MaterialsInv, RowsAgree, MaterialsTypeOK, MaterialRow
        <4>3. revisions[materials[revisions[q].material].current] # None
          BY <4>1, <4>2 DEF MaterialsInv, RowsAgree, Current
        <4>4. revisions'[materials[revisions[q].material].current]
                  = revisions[materials[revisions[q].material].current]
          BY <1>4, <2>1, <4>2, <4>3
        <4>5. QED
          BY <4>1, <4>2, <4>4 DEF MaterialsInv, RowsAgree, Current
      <3>3. QED
        BY <3>1, <3>2
    <2>4. QED
      BY <2>2, <2>3 DEF RowsAgree, Current
  <1>10. HoldersChecked'
    <2>1. \A d \in Call : d # c /\ At(d, "writing") /\ RequestOf(d).op # "create" =>
              RequestOf(d).material # m
      BY <1>1, WriterFacts DEF Live
    <2>2. QED
      BY <1>3, <1>6, <2>1, HoldersSpared
  <1>11. QED
    BY <1>1, <1>6, <1>7, <1>8, <1>9, <1>10, CallsAfterCommit, ReceiptsAfterCommit
    DEF MaterialsInv

LEMMA UnchangedKeeps ==
  ASSUME MaterialsInv, NEW c \in Call, Commit(c), WriteUnchanged(c)
  PROVE  MaterialsInv'
  <1>1. /\ RequestOf(c).op = "update" /\ RequestOf(c) \in Request
        /\ UNCHANGED <<materials, revisions, chunks>>
    BY WriterFacts DEF WriteUnchanged
  <1>2. PICK m \in Material, r \in Revision :
            /\ m = RequestOf(c).material /\ r = RequestOf(c).expected /\ r = Current(m)
            /\ revisions[r] # None /\ revisions[r].material = m
            /\ revisions[r].content = Prepare(RequestOf(c).draft)
            /\ FileReceipt(c, m, r)
    BY <1>1, WriterFacts, NoneIsNoRow DEF WriteUnchanged
  <1>3. Answer(c, Saved(m, r)) /\ At(c, "writing")
    BY <1>2 DEF FileReceipt, Commit
  <1>4. MaterialsTypeOK'
    BY <1>1, <1>2, <1>3, CallsAfterCommit, ReceiptsAfterCommit
    DEF MaterialsTypeOK, MaterialsInv, CallRow
  <1>5. ReceiptsTellTheTruth'
    BY <1>1, <1>2, ReceiptsStayTrue
  <1>6. OneRequestPerRevision'
    BY <1>1, <1>2, OldRevisionsKeepTheirMakers
  <1>7. RowsAgree'
    BY <1>1 DEF MaterialsInv, RowsAgree, Current
  <1>8. HoldersChecked'
    BY <1>1, <1>2, <1>3, WriterFacts, HoldersSpared
  <1>9. QED
    BY <1>2, <1>3, <1>4, <1>5, <1>6, <1>7, <1>8, CallsAfterCommit, ReceiptsAfterCommit
    DEF MaterialsInv

LEMMA DeleteKeeps ==
  ASSUME MaterialsInv, NEW c \in Call, Commit(c), WriteDelete(c)
  PROVE  MaterialsInv'
  <1>1. /\ RequestOf(c).op = "delete" /\ RequestOf(c) \in Request
        /\ UNCHANGED <<revisions, chunks>>
    BY WriterFacts DEF WriteDelete
  <1>2. PICK m \in Material, r \in Revision :
            /\ m = RequestOf(c).material /\ r = Current(m)
            /\ Live(m) /\ materials[m] \in MaterialRow
            /\ revisions[r] # None /\ revisions[r].material = m
            /\ materials' = [materials EXCEPT ![m].deleted = TRUE]
            /\ FileReceipt(c, m, r)
    BY <1>1, WriterFacts, NoneIsNoRow DEF WriteDelete
  <1>3. Answer(c, Saved(m, r)) /\ At(c, "writing")
    BY <1>2 DEF FileReceipt, Commit
  <1>4. materials'[m] = [current |-> r, deleted |-> TRUE] /\ materials'[m] \in MaterialRow
    BY <1>2 DEF MaterialsInv, MaterialsTypeOK, MaterialRow, Current
  <1>5. /\ materials' \in [Material -> MaterialRow \cup {None}]
        /\ \A n \in Material : n # m => materials'[n] = materials[n]
    BY <1>2, <1>4 DEF MaterialsInv, MaterialsTypeOK
  <1>6. MaterialsTypeOK'
    BY <1>1, <1>2, <1>3, <1>5, CallsAfterCommit, ReceiptsAfterCommit
    DEF MaterialsTypeOK, MaterialsInv, CallRow
  <1>7. ReceiptsTellTheTruth'
    <2>1. \A n \in Material : materials[n] # None /\ materials[n].deleted =>
              materials'[n] = materials[n]
      BY <1>2, <1>5 DEF Live
    <2>2. QED
      BY <1>1, <1>2, <1>4, <2>1, ReceiptsStayTrue
  <1>8. OneRequestPerRevision'
    <2>1. UNCHANGED revisions
      BY <1>1
    <2>2. r \in Revision /\ m \in Material /\ FileReceipt(c, m, r)
      BY <1>2
    <2>3. QED
      BY <1>1, <2>1, <2>2, OldRevisionsKeepTheirMakers
  <1>9. RowsAgree'
    <2>0. materials[m] # None /\ materials'[m] # None
      BY <1>2, <1>4, NoneIsNoRow
    <2>1. \A n \in Material :
              /\ materials'[n] # None <=> materials[n] # None
              /\ materials[n] # None => materials'[n].current = materials[n].current
      BY <1>2, <1>4, <1>5, <2>0 DEF Current
    <2>2. \A q \in Revision : revisions[q] # None => revisions[q].material \in Material
      BY DEF MaterialsInv, MaterialsTypeOK, RevisionRow
    <2>3. QED
      BY <1>1, <2>1, <2>2 DEF MaterialsInv, RowsAgree, Current
  <1>10. HoldersChecked'
    BY <1>1, <1>2, <1>3, <1>5, WriterFacts, HoldersSpared
  <1>11. QED
    BY <1>2, <1>3, <1>6, <1>7, <1>8, <1>9, <1>10, CallsAfterCommit, ReceiptsAfterCommit
    DEF MaterialsInv

LEMMA UpdateKeeps ==
  ASSUME MaterialsInv, NEW c \in Call, Commit(c), WriteUpdate(c)
  PROVE  MaterialsInv'
  <1> DEFINE body == Prepare(RequestOf(c).draft)
  <1>1. RequestOf(c).op = "update" /\ RequestOf(c) \in Request /\ body \in Content
    BY WriterFacts, RequestFacts DEF WriteUpdate
  <1>2. PICK m \in Material, old \in Revision, r \in Revision :
            /\ m = RequestOf(c).material /\ old = Current(m)
            /\ Live(m) /\ materials[m] \in MaterialRow
            /\ revisions[old] \in RevisionRow /\ revisions[old].material = m
            /\ revisions[r] = None
            /\ InsertRevision(r, m, revisions[old].number + 1, body)
            /\ materials' = [materials EXCEPT ![m].current = r]
            /\ FileReceipt(c, m, r)
    <2>1. HasFresh(revisions)
      BY DEF WriteUpdate
    <2>2. Fresh(revisions) \in Revision /\ revisions[Fresh(revisions)] = None
      BY <2>1, FreshFacts DEF MaterialsInv
    <2>3. QED
      BY <1>1, <2>2, WriterFacts DEF WriteUpdate
  <1>3. Answer(c, Saved(m, r)) /\ At(c, "writing")
    BY <1>2 DEF FileReceipt, Commit
  <1>4. /\ materials'[m].current = r /\ materials'[m] \in MaterialRow
        /\ \A n \in Material : n # m => materials'[n] = materials[n]
        /\ materials' \in [Material -> MaterialRow \cup {None}]
    BY <1>2 DEF MaterialsInv, MaterialsTypeOK, MaterialRow
  <1>5. /\ revisions' \in [Revision -> RevisionRow \cup {None}]
        /\ revisions'[r] = [material |-> m, number |-> revisions[old].number + 1,
                            content |-> body]
        /\ revisions'[r] \in RevisionRow
        /\ \A q \in Revision : q # r => revisions'[q] = revisions[q]
        /\ DOMAIN chunks' = Revision
    BY <1>1, <1>2 DEF InsertRevision, MaterialsInv, MaterialsTypeOK, RevisionRow
  <1>6. materials'[m] # None /\ revisions'[r] # None /\ revisions[old] # None
    BY <1>2, <1>4, <1>5, NoneIsNoRow
  <1>7. MaterialsTypeOK'
    BY <1>2, <1>3, <1>4, <1>5, CallsAfterCommit, ReceiptsAfterCommit
    DEF MaterialsTypeOK, CallRow
  <1>8. ReceiptsTellTheTruth' /\ OneRequestPerRevision'
    <2>1. /\ \A q \in Revision : revisions[q] # None => revisions'[q] = revisions[q]
          /\ \A n \in Material : materials[n] # None /\ materials[n].deleted =>
                 materials'[n] = materials[n]
      BY <1>2, <1>4, <1>5 DEF Live
    <2>2. revisions'[r].material = m /\ revisions'[r].content = body
      BY <1>5
    <2>3. QED
      BY <1>1, <1>2, <1>5, <1>6, <2>1, <2>2, ReceiptsStayTrue, NewRevisionHasOneMaker
  <1>9. RowsAgree'
    <2>1. ASSUME NEW n \in Material, materials'[n] # None
          PROVE  revisions'[materials'[n].current] # None
                 /\ revisions'[materials'[n].current].material = n
      <3>1. CASE n = m
        BY <1>4, <1>5, <1>6, <3>1
      <3>2. CASE n # m
        <4>1. /\ materials[n] # None /\ materials'[n] = materials[n]
              /\ materials[n].current \in Revision
          BY <1>4, <2>1, <3>2 DEF MaterialsInv, MaterialsTypeOK, MaterialRow
        <4>2. revisions[materials[n].current] # None /\ revisions[materials[n].current].material = n
          BY <4>1 DEF MaterialsInv, RowsAgree, Current
        <4>3. QED
          BY <1>2, <1>5, <4>1, <4>2
      <3>3. QED
        BY <3>1, <3>2
    <2>2. ASSUME NEW q \in Revision, revisions'[q] # None
          PROVE  LET n == revisions'[q].material
                 IN  /\ materials'[n] # None
                     /\ q # materials'[n].current =>
                            revisions'[q].number < revisions'[materials'[n].current].number
      <3>1. CASE q = r
        BY <1>4, <1>5, <1>6, <3>1
      <3>2. CASE q # r
        <4>1. /\ revisions[q] # None /\ revisions'[q] = revisions[q]
              /\ revisions[q] \in RevisionRow /\ revisions[q].material \in Material
              /\ revisions[q].number \in Nat
          BY <1>5, <2>2, <3>2 DEF MaterialsInv, MaterialsTypeOK, RevisionRow
        <4>2. CASE revisions[q].material = m
          <5>1. q # old => revisions[q].number < revisions[old].number
            BY <1>2, <4>1, <4>2 DEF MaterialsInv, RowsAgree
          <5>2. revisions[q].number < revisions[old].number + 1
            BY <1>2, <4>1, <5>1 DEF RevisionRow
          <5>3. QED
            BY <1>4, <1>5, <1>6, <4>1, <4>2, <5>2
        <4>3. CASE revisions[q].material # m
          <5>1. /\ materials'[revisions[q].material] = materials[revisions[q].material]
                /\ materials[revisions[q].material] # None
                /\ materials[revisions[q].material].current \in Revision
            BY <1>4, <4>1, <4>3 DEF MaterialsInv, RowsAgree, MaterialsTypeOK, MaterialRow
          <5>2. revisions[materials[revisions[q].material].current] # None
            BY <4>1, <5>1 DEF MaterialsInv, RowsAgree, Current
          <5>3. revisions'[materials[revisions[q].material].current]
                    = revisions[materials[revisions[q].material].current]
            BY <1>2, <1>5, <5>1, <5>2
          <5>4. QED
            BY <4>1, <5>1, <5>3 DEF MaterialsInv, RowsAgree, Current
        <4>4. QED
          BY <4>2, <4>3
      <3>3. QED
        BY <3>1, <3>2
    <2>3. QED
      BY <2>1, <2>2 DEF RowsAgree, Current
  <1>10. HoldersChecked'
    BY <1>1, <1>2, <1>3, <1>4, WriterFacts, HoldersSpared
  <1>11. QED
    BY <1>2, <1>3, <1>7, <1>8, <1>9, <1>10, CallsAfterCommit, ReceiptsAfterCommit
    DEF MaterialsInv

-----------------------------------------------------------------------------
(* What the API promises *)

LEMMA StepKeeps == MaterialsInv /\ [MaterialsNext]_materialsVars => MaterialsInv'
  <1> SUFFICES ASSUME MaterialsInv, [MaterialsNext]_materialsVars PROVE MaterialsInv'
    OBVIOUS
  <1>1. CASE MaterialsNext
    <2>1. PICK c \in Call : Quiet(c) \/ Commit(c)
      BY <1>1, StepKinds DEF MaterialsInv
    <2>2. CASE Commit(c)
      BY <2>2, CreateKeeps, UnchangedKeeps, UpdateKeeps, DeleteKeeps DEF Commit
    <2>3. QED
      BY <2>1, <2>2, QuietKeeps
  <1>2. CASE UNCHANGED materialsVars
    BY <1>2 DEF materialsVars, MaterialsInv, MaterialsTypeOK, ReceiptsTellTheTruth,
                OneRequestPerRevision, Made, RowsAgree, HoldersChecked, OneHolder, Holds,
                LosersHaveWinner, At, RequestOf, Filed, Live, Current
  <1>3. QED
    BY <1>1, <1>2

\* What the API keeps true of its rows and of the calls it is serving.
THEOREM Invariance == MaterialsSpec => []MaterialsInv
  BY InitOK, StepKeeps, PTL DEF MaterialsSpec

LEMMA InvariantIsAtomic == MaterialsInv => RequestsAreAtomic
  <1>1. ASSUME MaterialsInv PROVE ChecksHoldAtCommit
    <2>1. SUFFICES ASSUME NEW c \in Call, At(c, "writing"), RequestOf(c).op # "create"
                   PROVE  LET m == RequestOf(c).material
                          IN  /\ Live(m)
                              /\ Current(m) = RequestOf(c).expected
                              /\ NumberIsFree(m, revisions[Current(m)].number + 1)
      BY DEF ChecksHoldAtCommit
    <2>2. PICK m \in Material : /\ m = RequestOf(c).material /\ Live(m)
                                /\ Current(m) = RequestOf(c).expected
                                /\ Current(m) \in Revision
      BY <1>1, <2>1, FiledIsTyped, RequestFacts DEF MaterialsInv, HoldersChecked, At
    <2>3. revisions[Current(m)] # None
      BY <1>1, <2>2 DEF MaterialsInv, RowsAgree, Live
    <2>4. \A q \in Revision : revisions[q] # None => revisions[q].number \in Nat
      BY <1>1 DEF MaterialsInv, MaterialsTypeOK, RevisionRow
    <2>5. \A q \in Revision : revisions[q] # None /\ revisions[q].material = m =>
              revisions[q].number # revisions[Current(m)].number + 1
      BY <1>1, <2>2, <2>3, <2>4 DEF MaterialsInv, RowsAgree
    <2>6. QED
      BY <2>2, <2>5 DEF NumberIsFree
  <1>2. QED
    BY <1>1 DEF MaterialsInv, RequestsAreAtomic

(* Each request happens as a whole or not at all and at most once, and what *)
(* it has checked still holds when it commits.                              *)
THEOREM RequestsHappenOnce == MaterialsSpec => []RequestsAreAtomic
  BY InvariantIsAtomic, Invariance, PTL

LEMMA LockAnswersOrContinues ==
  ASSUME NEW c \in Call, LockMaterial(c)
  PROVE  (\E reply : Answer(c, reply)) \/ Continue(c, "writing")
  <1> DEFINE m == RequestOf(c).material
  <1>1. CASE Filed(c) # None
    BY <1>1 DEF LockMaterial
  <1>2. CASE Filed(c) = None /\ ~Live(m)
    BY <1>2 DEF LockMaterial
  <1>3. CASE Filed(c) = None /\ Live(m) /\ Current(m) # RequestOf(c).expected
    BY <1>3 DEF LockMaterial
  <1>4. CASE Filed(c) = None /\ Live(m) /\ Current(m) = RequestOf(c).expected
    BY <1>4 DEF LockMaterial
  <1>5. QED
    BY <1>1, <1>2, <1>3, <1>4

LEMMA RepetitionStep ==
  ASSUME MaterialsInv, [MaterialsNext]_materialsVars, NEW c \in Call,
         calls[c] # None, calls[c].step # "answered",
         Filed(c) # None, Filed(c).fingerprint = Fingerprint(RequestOf(c)),
         calls'[c] # None, calls'[c].step = "answered"
  PROVE  calls'[c].reply \in
             {Saved(Filed(c).material, Filed(c).revision), Refused("unavailable")}
  <1>0. calls \in [Call -> CallRow \cup {None}]
    BY DEF MaterialsInv, MaterialsTypeOK, CallRow
  <1>1. ReplayOf(c) = Saved(Filed(c).material, Filed(c).revision)
    BY DEF ReplayOf
  <1>2. ASSUME NEW reply, Answer(c, reply)
        PROVE  calls'[c].reply = reply
    BY <1>0, <1>2 DEF Answer, CallRow
  <1>3. ASSUME NEW d \in Call, d # c, calls' = [calls EXCEPT ![d] = calls'[d]]
        PROVE  FALSE
    BY <1>0, <1>3
  <1>4. PICK d \in Call : \/ \E request \in Request : Arrive(d, request)
                          \/ Serve(d)
                          \/ Leave(d)
    BY DEF MaterialsNext, materialsVars
  <1>5. \/ \E reply : Answer(d, reply)
        \/ \E step \in Steps \ {"answered"} : Continue(d, step)
        \/ \E request \in Request : Arrive(d, request)
        \/ Leave(d)
    BY <1>4, LockAnswersOrContinues
    DEF Serve, ReadReceipt, Write, WriteCreate, WriteUnchanged, WriteUpdate, WriteDelete,
        FileReceipt, ReadWinner, Fail, Steps
  <1>6. calls' = [calls EXCEPT ![d] = calls'[d]]
    BY <1>0, <1>5 DEF Answer, Continue, Arrive, Leave
  <1>7. d = c
    BY <1>3, <1>6
  <1>8. CASE ReadReceipt(c)
    <2>1. Answer(c, ReplayOf(c))
      BY <1>8 DEF ReadReceipt
    <2>2. QED
      BY <1>1, <1>2, <2>1
  <1>9. CASE LockMaterial(c)
    <2>1. Answer(c, ReplayOf(c))
      BY <1>9 DEF LockMaterial
    <2>2. QED
      BY <1>1, <1>2, <2>1
  <1>10. CASE Write(c)
    <2>1. Continue(c, "lost")
      BY <1>10 DEF Write
    <2>2. calls'[c].step = "lost"
      BY <1>0, <2>1 DEF Continue, CallRow
    <2>3. QED
      BY <2>2
  <1>11. CASE ReadWinner(c)
    BY <1>1, <1>2, <1>11 DEF ReadWinner
  <1>12. CASE Fail(c)
    BY <1>2, <1>12 DEF Fail
  <1>13. CASE \E request \in Request : Arrive(c, request)
    BY <1>13 DEF Arrive
  <1>14. CASE Leave(c)
    BY <1>14 DEF Leave, At
  <1>15. QED
    BY <1>4, <1>7, <1>8, <1>9, <1>10, <1>11, <1>12, <1>13, <1>14 DEF Serve

(* A request that has been carried out is not refused when it comes again,  *)
(* wherever its repetition overlaps with the first attempt.                 *)
THEOREM RepetitionIsAnswered == MaterialsSpec => RepeatedRequestIsNotRefused
  <1>1. MaterialsInv /\ [MaterialsNext]_materialsVars =>
            [\A c \in Call :
                /\ calls[c] # None /\ calls[c].step # "answered"
                /\ Filed(c) # None /\ Filed(c).fingerprint = Fingerprint(RequestOf(c))
                /\ calls'[c] # None /\ calls'[c].step = "answered"
                => calls'[c].reply \in
                      {Saved(Filed(c).material, Filed(c).revision), Refused("unavailable")}
            ]_materialsVars
    BY RepetitionStep
  <1>2. QED
    BY <1>1, Invariance, PTL DEF MaterialsSpec, RepeatedRequestIsNotRefused

-----------------------------------------------------------------------------
(* The tabs.  What the browser and the API keep between them. *)

\* What the last attempt of a form asked for, as the API receives it.
Asked(form) ==
    [op |-> form.kind, material |-> IF form.kind = "create" THEN None ELSE Document,
     expected |-> form.request.expected, draft |-> form.request.draft, key |-> form.key]

\* A revision of the document.
Known(r) == r \in Revision /\ revisions[r] # None /\ revisions[r].material = Document

(* Every key has one use: calls under it, the receipt filed under it and   *)
(* the form that has drawn it ask for the same.                            *)
Agreed(use) ==
    /\ \A c \in Call : calls[c] # None => use[RequestOf(c).key] = Fingerprint(RequestOf(c))
    /\ \A k \in Key : receipts[k] # None => use[k] = receipts[k].fingerprint
    /\ \A t \in Tab : FormOf(t) # None /\ FormOf(t).key # None =>
           use[FormOf(t).key] = Fingerprint(Asked(FormOf(t)))
KeysAgree ==
    /\ \E use : Agreed(use)
    /\ \A k \in Key : receipts[k] # None => k \in drawn

(* Changes and deletions are about the document, and their users were      *)
(* looking at the revision they expect.                                    *)
CallsKnown ==
    /\ materials[Document] # None
    /\ \A c \in Call : calls[c] # None /\ RequestOf(c).op # "create" =>
           /\ RequestOf(c).material = Document
           /\ Known(RequestOf(c).expected) /\ based[c] = RequestOf(c).expected
    /\ \A c \in Call : At(c, "locking") => RequestOf(c).op # "create"

(* An answer that reports success goes back to the receipt.  A refusal     *)
(* stays right: what was refused cannot be carried out any more.           *)
Outdated(c) == ~Live(Document) \/ Current(Document) # RequestOf(c).expected
AnswersLast ==
    \A c \in Call : At(c, "answered") =>
        /\ calls[c].reply \in Replies /\ calls[c].reply.kind # "conflict"
        /\ calls[c].reply.kind = "saved" =>
               Filed(c) # None /\ Filed(c).revision = calls[c].reply.revision
        /\ calls[c].reply.kind \in {"revision_conflict", "not_found"} =>
               Filed(c) = None /\ RequestOf(c).op # "create" /\ Outdated(c)

(* A form expects the revision its fields were filled from, has drawn one  *)
(* key at most since its request changed last, and its fields stay as they *)
(* were sent while it waits.                                               *)
FormOK(t, form) ==
    /\ t \in Reader <=> form.kind # "create"
    /\ form.expected = form.base
    /\ form.kind = "update" => Known(form.base)
    /\ form.kind # "update" => form.base = None
    /\ form.kind # "delete" <=> form.draft # None
    /\ form.request = None <=> form.key = None
    /\ form.key = None => form.series = {}
    /\ form.key # None =>
           /\ form.key \in drawn /\ form.series = {form.key}
           /\ form.kind = "create" <=> form.request.expected = None
           /\ form.kind # "create" => Known(form.request.expected)
           /\ form.kind = "delete" <=> form.request.draft = None
    /\ form.call # None =>
           /\ form.state = "sending" /\ form.key # None
           /\ calls[form.call] # None /\ RequestOf(form.call) = Asked(form)
           /\ form.request.draft = form.draft

(* A tab that reads the document knows a revision of it, and once it has   *)
(* saved one, nothing earlier is on its way or shown without a warning.    *)
NotBefore(r, s) == revisions[r].number >= revisions[s].number
ScreenOK(t, screen) ==
    /\ screen.form # None => FormOK(t, screen.form)
    /\ screen.fetch \notin {None, "missing"} => Known(screen.fetch)
    /\ t \in Reader /\ ~screen.gone => Known(screen.shown)
    /\ t \in Reader /\ ~screen.gone /\ screen.saved # None =>
           /\ Known(screen.saved)
           /\ screen.fetch \notin {None, "missing"} => NotBefore(screen.fetch, screen.saved)
           /\ \/ screen.failed
              \/ screen.form # None /\ screen.form.state = "closing"
              \/ NotBefore(screen.shown, screen.saved)
ScreensOK == \A t \in Tab : ScreenOK(t, tabs[t])

DocumentsInv ==
    MaterialsInv /\ DocumentsTypeOK /\ KeysAgree /\ CallsKnown /\ AnswersLast /\ ScreensOK

LEMMA ConstantsOK ==
  /\ Document \in Material /\ FirstRevision \in Revision /\ FirstKey \in Key
  /\ FirstDraft \in Typed /\ FirstDraft \in Draft /\ Prepare(FirstDraft) \in Content
  <1>1. Material # {} /\ Revision # {} /\ Key # {} /\ Typed # {} /\ Typed \subseteq Draft
    BY DocumentsAssumption
  <1>2. /\ Document \in Material /\ FirstRevision \in Revision /\ FirstKey \in Key
        /\ FirstDraft \in Typed
    BY <1>1 DEF Document, FirstRevision, FirstKey, FirstDraft
  <1>3. QED
    BY <1>1, <1>2 DEF Content

LEMMA ContentIsDraft == Content \subseteq Draft
  BY DocumentsAssumption DEF Content

\* A form as it is opened.
LEMMA NewFormOK ==
  ASSUME NEW kind \in {"create", "update", "delete"}, NEW base \in Revision \cup {None},
         NEW draft \in Draft \cup {None}
  PROVE  LET form == NewForm(kind, base, draft)
         IN  /\ form \in Form /\ form # None
             /\ form.kind = kind /\ form.base = base /\ form.expected = base
             /\ form.draft = draft /\ form.request = None /\ form.key = None
             /\ form.series = {} /\ form.call = None /\ form.state = "editing"
  <1> DEFINE form == NewForm(kind, base, draft)
  <1>1. /\ form.kind = kind /\ form.base = base /\ form.expected = base
        /\ form.draft = draft /\ form.request = None /\ form.key = None
        /\ form.series = {} /\ form.call = None /\ form.state = "editing"
    BY DEF NewForm
  <1>2. form \in Form
    BY DEF NewForm, Form, FormStates
  <1>3. QED
    BY <1>1, <1>2, NoneIsNoForm

LEMMA DocumentsInitRows == DocumentsInit => MaterialsInv
  <1> SUFFICES ASSUME DocumentsInit PROVE MaterialsInv
    OBVIOUS
  <1> DEFINE first == [current |-> FirstRevision, deleted |-> FALSE]
             text == [material |-> Document, number |-> 1, content |-> Prepare(FirstDraft)]
             asked == [op |-> "create", material |-> None, expected |-> None,
                       content |-> Prepare(FirstDraft)]
             receipt == [fingerprint |-> asked, material |-> Document,
                         revision |-> FirstRevision]
  <1>1. /\ materials = [m \in Material |-> IF m = Document THEN first ELSE None]
        /\ revisions = [r \in Revision |-> IF r = FirstRevision THEN text ELSE None]
        /\ receipts = [k \in Key |-> IF k = FirstKey THEN receipt ELSE None]
        /\ calls = [c \in Call |-> None] /\ DOMAIN chunks = Revision
    BY DEF DocumentsInit
  <1>2. first \in MaterialRow /\ text \in RevisionRow /\ asked \in Fingerprints
    BY ConstantsOK DEF MaterialRow, RevisionRow, Fingerprints
  <1>3. receipt \in Receipt
    BY <1>2, ConstantsOK DEF Receipt
  <1>4. /\ first.current = FirstRevision /\ ~first.deleted
        /\ text.material = Document /\ text.number = 1 /\ text.content = Prepare(FirstDraft)
        /\ asked.op = "create" /\ asked.expected = None /\ asked.content = Prepare(FirstDraft)
        /\ receipt.fingerprint = asked /\ receipt.material = Document
        /\ receipt.revision = FirstRevision
        /\ first # None /\ text # None /\ receipt # None /\ FirstRevision # None
    BY <1>2, <1>3, NoneIsNoRow, ConstantsOK, MaterialsAssumption
  <1> HIDE DEF first, text, asked, receipt
  <1>5. MaterialsTypeOK
    BY <1>1, <1>2, <1>3 DEF MaterialsTypeOK
  <1>6. ReceiptsTellTheTruth
    BY <1>1, <1>4, ConstantsOK DEF ReceiptsTellTheTruth
  <1>7. OneRequestPerRevision
    BY <1>1, <1>4, ConstantsOK DEF OneRequestPerRevision, Made
  <1>8. RowsAgree
    BY <1>1, <1>4, ConstantsOK DEF RowsAgree, Current
  <1>9. HoldersChecked /\ OneHolder /\ LosersHaveWinner
    BY <1>1 DEF HoldersChecked, OneHolder, Holds, LosersHaveWinner, At
  <1>10. QED
    BY <1>5, <1>6, <1>7, <1>8, <1>9 DEF MaterialsInv

LEMMA DocumentsInitOK == DocumentsInit => DocumentsInv
  <1> SUFFICES ASSUME DocumentsInit PROVE DocumentsInv
    OBVIOUS
  <1> DEFINE new == NewForm("create", None, FirstDraft)
  <1>1. /\ new \in Form /\ new # None /\ new.kind = "create" /\ new.base = None
        /\ new.expected = None /\ new.draft = FirstDraft /\ new.request = None
        /\ new.key = None /\ new.series = {} /\ new.call = None
    BY NewFormOK, ConstantsOK
  <1> HIDE DEF new
  <1>2. PICK open \in Tab :
            tabs = [t \in Tab |->
               [gone |-> t # open, shown |-> IF t \in Reader THEN FirstRevision ELSE None,
                failed |-> FALSE, fetch |-> None,
                form |-> IF t = open /\ t \in Library THEN new ELSE None, saved |-> None]]
    BY DEF DocumentsInit, new
  <1>3. /\ calls = [c \in Call |-> None] /\ drawn = {FirstKey} /\ sent = 0
        /\ based = [c \in Call |-> None]
        /\ materials = [m \in Material |->
               IF m = Document THEN [current |-> FirstRevision, deleted |-> FALSE] ELSE None]
        /\ revisions = [r \in Revision |->
               IF r = FirstRevision
               THEN [material |-> Document, number |-> 1, content |-> Prepare(FirstDraft)]
               ELSE None]
        /\ \A k \in Key : receipts[k] # None => k = FirstKey
    BY DEF DocumentsInit
  <1>4. MaterialsInv
    BY DocumentsInitRows
  <1>5. Known(FirstRevision) /\ materials[Document] # None
    <2>1. /\ [current |-> FirstRevision, deleted |-> FALSE] \in MaterialRow
          /\ [material |-> Document, number |-> 1, content |-> Prepare(FirstDraft)] \in RevisionRow
      BY ConstantsOK DEF MaterialRow, RevisionRow
    <2>2. QED
      BY <1>3, <2>1, ConstantsOK, NoneIsNoRow DEF Known
  <1>6. \A t \in Tab : /\ tabs[t].form \in {new, None} /\ (tabs[t].form = new => t \in Library)
                       /\ tabs[t].fetch = None /\ tabs[t].saved = None
                       /\ t \in Reader => tabs[t].shown = FirstRevision
    BY <1>1, <1>2
  <1>7. DocumentsTypeOK
    <2>1. tabs \in [Tab -> Screen]
      BY <1>1, <1>2, ConstantsOK DEF Screen
    <2>2. QED
      BY <1>3, <2>1, ConstantsOK, DocumentsAssumption DEF DocumentsTypeOK
  <1>8. KeysAgree
    <2> DEFINE use == [k \in Key |-> receipts[k].fingerprint]
    <2>1. Agreed(use)
      BY <1>1, <1>3, <1>6 DEF Agreed, FormOf
    <2>2. QED
      BY <1>3, <2>1 DEF KeysAgree
  <1>9. CallsKnown /\ AnswersLast
    BY <1>3, <1>5 DEF CallsKnown, AnswersLast, At
  <1>10. ScreensOK
    <2>1. FirstDraft # None
      BY ConstantsOK, MaterialsAssumption
    <2>2. \A t \in Library : FormOK(t, new)
      BY <1>1, <2>1, DocumentsAssumption DEF FormOK
    <2>3. QED
      BY <1>1, <1>5, <1>6, <2>2 DEF ScreensOK, ScreenOK
  <1>11. QED
    BY <1>4, <1>7, <1>8, <1>9, <1>10 DEF DocumentsInv

-----------------------------------------------------------------------------
(* What users do in one tab *)

\* The document's current revision is its last.
LEMMA CurrentIsLast ==
  ASSUME DocumentsInv
  PROVE  /\ Known(Current(Document))
         /\ \A r \in Revision : Known(r) => NotBefore(Current(Document), r)
  <1>t. MaterialsTypeOK /\ RowsAgree /\ materials[Document] # None
    BY DEF DocumentsInv, MaterialsInv, CallsKnown
  <1>1. Current(Document) \in Revision
    BY <1>t, ConstantsOK DEF MaterialsTypeOK, MaterialRow, Current
  <1>2. Known(Current(Document))
    BY <1>1, <1>t, ConstantsOK DEF RowsAgree, Known
  <1>3. ASSUME NEW r \in Revision, Known(r) PROVE NotBefore(Current(Document), r)
    <2>1. revisions[r].number \in Nat /\ revisions[Current(Document)].number \in Nat
      BY <1>1, <1>2, <1>3, <1>t DEF MaterialsTypeOK, RevisionRow, Known
    <2>2. r # Current(Document) => revisions[r].number < revisions[Current(Document)].number
      BY <1>3, <1>t DEF RowsAgree, Known
    <2>3. QED
      BY <2>1, <2>2 DEF NotBefore
  <1>4. QED
    BY <1>2, <1>3

LEMMA TextIsDraft ==
  ASSUME DocumentsInv, NEW r \in Revision, Known(r)
  PROVE  revisions[r].content \in Draft /\ revisions[r].content # None
  BY ContentIsDraft, MaterialsAssumption
     DEF DocumentsInv, MaterialsInv, MaterialsTypeOK, RevisionRow, Known

\* The other tabs, and what calls and receipts say, stay as they are.
LEMMA OnlyTabKeeps ==
  ASSUME DocumentsInv, NEW t \in Tab, NEW screen \in Screen, OnlyTab(t, screen),
         ScreenOK(t, screen),
         screen.form # None /\ screen.form.key # None =>
             /\ FormOf(t) # None
             /\ screen.form.key = FormOf(t).key /\ screen.form.kind = FormOf(t).kind
             /\ screen.form.request = FormOf(t).request
  PROVE  DocumentsInv'
  <1>t. /\ MaterialsInv /\ DocumentsTypeOK /\ KeysAgree /\ CallsKnown /\ AnswersLast /\ ScreensOK
        /\ tabs \in [Tab -> Screen]
    BY DEF DocumentsInv, DocumentsTypeOK
  <1>1. /\ UNCHANGED <<materials, revisions, chunks, receipts, calls, drawn, based, sent>>
        /\ tabs' = [tabs EXCEPT ![t] = screen]
    BY DEF OnlyTab, materialsVars
  <1>2. tabs' \in [Tab -> Screen] /\ tabs'[t] = screen
        /\ \A u \in Tab \ {t} : tabs'[u] = tabs[u]
    BY <1>1, <1>t
  <1>3. MaterialsInv'
    <2>1. UNCHANGED materialsVars
      BY <1>1 DEF materialsVars
    <2>2. QED
      BY <1>t, <2>1, StepKeeps
  <1>4. DocumentsTypeOK'
    BY <1>1, <1>2, <1>t DEF DocumentsTypeOK, RequestOf
  <1>5. KeysAgree'
    <2>1. PICK use : Agreed(use)
      BY <1>t DEF KeysAgree
    <2>2. ASSUME NEW u \in Tab, tabs'[u].form # None, tabs'[u].form.key # None
          PROVE  use[tabs'[u].form.key] = Fingerprint(Asked(tabs'[u].form))
      <3>1. CASE u # t
        BY <1>2, <2>1, <2>2, <3>1 DEF Agreed, FormOf
      <3>2. CASE u = t
        <4>1. Asked(screen.form) = Asked(FormOf(t))
          BY <1>2, <2>2, <3>2 DEF Asked
        <4>2. QED
          BY <1>2, <2>1, <2>2, <3>2, <4>1 DEF Agreed, FormOf
      <3>3. QED
        BY <3>1, <3>2
    <2>3. Agreed(use)'
      <3>1. \A u \in Tab : FormOf(u)' # None /\ FormOf(u)'.key # None =>
                use[FormOf(u)'.key] = Fingerprint(Asked(FormOf(u)'))
        BY <2>2 DEF FormOf
      <3>2. QED
        BY <1>1, <2>1, <3>1 DEF Agreed, RequestOf, Fingerprint, Asked
    <2>4. QED
      BY <1>1, <1>t, <2>3 DEF KeysAgree
  <1>6. CallsKnown'
    BY <1>1, <1>t DEF CallsKnown, RequestOf, Known, At
  <1>7. AnswersLast'
    BY <1>1, <1>t DEF AnswersLast, At, Filed, RequestOf, Outdated, Live, Current
  <1>8. ScreensOK'
    <2>1. ASSUME NEW u \in Tab, ScreenOK(u, tabs'[u]) PROVE ScreenOK(u, tabs[u])'
      BY <1>1, <2>1 DEF ScreenOK, FormOK, Known, NotBefore, RequestOf, Asked
    <2>2. \A u \in Tab : ScreenOK(u, tabs'[u])
      BY <1>2, <1>t DEF ScreensOK
    <2>3. QED
      BY <2>1, <2>2 DEF ScreensOK
  <1>9. QED
    BY <1>3, <1>4, <1>5, <1>6, <1>7, <1>8 DEF DocumentsInv

\* A screen that opens a form, or closes the one it has.
LEMMA PutForm ==
  ASSUME NEW t \in Tab, NEW screen \in Screen, NEW form \in Form \cup {None},
         ScreenOK(t, screen), form # None => FormOK(t, form),
         screen.form # None => screen.form.state # "closing"
  PROVE  LET put == [screen EXCEPT !.form = form]
         IN  put \in Screen /\ ScreenOK(t, put) /\ put.form = form
  <1> DEFINE put == [screen EXCEPT !.form = form]
  <1>1. /\ put \in Screen /\ put.form = form /\ put.gone = screen.gone
        /\ put.shown = screen.shown /\ put.failed = screen.failed
        /\ put.fetch = screen.fetch /\ put.saved = screen.saved
    BY DEF Screen
  <1> HIDE DEF put
  <1>2. ScreenOK(t, put)
    BY <1>1 DEF ScreenOK
  <1>3. QED
    BY <1>1, <1>2 DEF put

\* The form of a tab, if it has one.
LEMMA FormFacts ==
  ASSUME DocumentsInv, NEW t \in Tab
  PROVE  /\ tabs[t] \in Screen /\ ScreenOK(t, tabs[t]) /\ FormOf(t) = tabs[t].form
         /\ FormOf(t) # None => FormOf(t) \in Form /\ FormOK(t, FormOf(t))
  <1>1. tabs[t] \in Screen /\ ScreenOK(t, tabs[t]) /\ FormOf(t) = tabs[t].form
    BY DEF DocumentsInv, DocumentsTypeOK, ScreensOK, FormOf
  <1>2. QED
    BY <1>1 DEF Screen, ScreenOK

LEMMA OpeningKeeps ==
  ASSUME DocumentsInv, NEW t \in Tab, OpenEditor(t) \/ OpenDialog(t) \/ Reload(t)
  PROVE  DocumentsInv'
  <1>t. tabs[t] \in Screen /\ ScreenOK(t, tabs[t]) /\ FormOf(t) = tabs[t].form
    BY FormFacts
  <1>1. \E kind \in {"update", "delete"}, base \in Revision \cup {None}, draft \in Draft \cup {None} :
            /\ t \in Reader
            /\ kind = "update" => Known(base) /\ draft # None
            /\ kind = "delete" => base = None /\ draft = None
            /\ OnlyTab(t, [tabs[t] EXCEPT !.form = NewForm(kind, base, draft)])
    <2>1. CASE OpenEditor(t)
      <3>1. Known(tabs[t].shown)
        BY <1>t, <2>1 DEF OpenEditor, ScreenOK
      <3>2. revisions[tabs[t].shown].content \in Draft /\ revisions[tabs[t].shown].content # None
            /\ tabs[t].shown \in Revision
        BY <3>1, TextIsDraft DEF Known
      <3>3. QED
        BY <2>1, <3>1, <3>2 DEF OpenEditor
    <2>2. CASE OpenDialog(t)
      BY <2>2 DEF OpenDialog
    <2>3. CASE Reload(t)
      <3>1. Known(Current(Document)) /\ Current(Document) \in Revision
        BY CurrentIsLast DEF Known
      <3>2. /\ revisions[Current(Document)].content \in Draft
            /\ revisions[Current(Document)].content # None
        BY <3>1, TextIsDraft
      <3>3. t \in Reader
        BY <2>3, FormFacts DEF Reload, Resting, Open, FormOK
      <3>4. QED
        BY <2>3, <3>1, <3>2, <3>3 DEF Reload
    <2>4. QED
      BY <2>1, <2>2, <2>3
  <1>2. PICK kind \in {"update", "delete"}, base \in Revision \cup {None}, draft \in Draft \cup {None} :
            /\ t \in Reader
            /\ kind = "update" => Known(base) /\ draft # None
            /\ kind = "delete" => base = None /\ draft = None
            /\ OnlyTab(t, [tabs[t] EXCEPT !.form = NewForm(kind, base, draft)])
    BY <1>1
  <1> DEFINE form == NewForm(kind, base, draft)
  <1>3. /\ form \in Form /\ form # None /\ form.kind = kind /\ form.base = base
        /\ form.expected = base /\ form.draft = draft /\ form.request = None
        /\ form.key = None /\ form.series = {} /\ form.call = None
    BY NewFormOK
  <1> HIDE DEF form
  <1>4. FormOK(t, form)
    BY <1>2, <1>3 DEF FormOK
  <1>5. tabs[t].form # None => tabs[t].form.state # "closing"
    BY <1>t DEF OpenEditor, OpenDialog, Reload, Resting
  <1> DEFINE put == [tabs[t] EXCEPT !.form = form]
  <1>6. put \in Screen /\ ScreenOK(t, put) /\ put.form = form
    BY <1>3, <1>4, <1>5, <1>t, PutForm
  <1>7. OnlyTab(t, put)
    BY <1>2 DEF form
  <1> HIDE DEF put
  <1>8. QED
    BY <1>3, <1>6, <1>7, OnlyTabKeeps

LEMMA EditingKeeps ==
  ASSUME DocumentsInv, NEW t \in Tab,
         (\E body \in Typed : Type(t, body)) \/ Cancel(t) \/ LoseConnection(t)
  PROVE  DocumentsInv'
  <1>t. tabs[t] \in Screen /\ ScreenOK(t, tabs[t]) /\ FormOf(t) = tabs[t].form
        /\ FormOf(t) # None /\ FormOf(t) \in Form /\ FormOK(t, FormOf(t))
        /\ FormOf(t).state # "closing"
    BY FormFacts DEF Type, Cancel, LoseConnection, Resting, Open
  <1> DEFINE form == FormOf(t)
  <1>1. ASSUME NEW put \in Form \cup {None}, OnlyTab(t, [tabs[t] EXCEPT !.form = put]),
               put # None => /\ FormOK(t, put) /\ put.key = form.key /\ put.kind = form.kind
                             /\ put.request = form.request
        PROVE  DocumentsInv'
    <2> DEFINE screen == [tabs[t] EXCEPT !.form = put]
    <2>1. screen \in Screen /\ ScreenOK(t, screen) /\ screen.form = put
      BY <1>1, <1>t, PutForm
    <2>2. OnlyTab(t, screen)
      BY <1>1
    <2> HIDE DEF screen
    <2>3. QED
      BY <1>1, <1>t, <2>1, <2>2, OnlyTabKeeps
  <1>2. ASSUME NEW body \in Typed, Type(t, body) PROVE DocumentsInv'
    <2> DEFINE put == [form EXCEPT !.draft = body]
    <2>1. body \in Draft /\ body # None /\ form.kind # "delete"
          /\ form.state \in {"editing", "failed", "conflict"}
      BY <1>2, DocumentsAssumption, MaterialsAssumption DEF Type, Resting
    <2>2. /\ put \in Form /\ put.draft = body /\ put.kind = form.kind /\ put.base = form.base
          /\ put.expected = form.expected /\ put.request = form.request
          /\ put.key = form.key /\ put.state = form.state /\ put.call = form.call
          /\ put.series = form.series
      BY <1>t, <2>1 DEF Form
    <2>3. [tabs[t] EXCEPT !.form.draft = body] = [tabs[t] EXCEPT !.form = put]
      BY <1>t DEF Screen
    <2> HIDE DEF put
    <2>4. form.call = None
      BY <1>t, <2>1 DEF FormOK
    <2>5. FormOK(t, put)
      BY <1>t, <2>1, <2>2, <2>4 DEF FormOK
    <2>6. QED
      BY <1>1, <1>2, <2>2, <2>3, <2>5 DEF Type
  <1>3. CASE Cancel(t)
    BY <1>1, <1>3 DEF Cancel
  <1>4. CASE LoseConnection(t)
    <2> DEFINE put == [form EXCEPT !.state = "failed", !.call = None]
    <2>1. /\ put \in Form /\ put.draft = form.draft /\ put.kind = form.kind /\ put.base = form.base
          /\ put.expected = form.expected /\ put.request = form.request
          /\ put.key = form.key /\ put.call = None /\ put.series = form.series
      BY <1>t DEF Form, FormStates
    <2>2. [tabs[t] EXCEPT !.form.state = "failed", !.form.call = None]
              = [tabs[t] EXCEPT !.form = put]
      BY <1>t DEF Screen, Form
    <2> HIDE DEF put
    <2>3. FormOK(t, put)
      BY <1>t, <2>1 DEF FormOK
    <2>4. QED
      BY <1>1, <1>4, <2>1, <2>2, <2>3 DEF LoseConnection
  <1>5. QED
    BY <1>2, <1>3, <1>4

LEMMA ReadOK ==
  ASSUME DocumentsInv
  PROVE  /\ ReadDocument \in Revision \cup {"missing"}
         /\ ReadDocument # "missing" =>
                /\ Known(ReadDocument)
                /\ \A r \in Revision : Known(r) => NotBefore(ReadDocument, r)
  BY CurrentIsLast DEF ReadDocument, Known

LEMMA ReadingKeeps ==
  ASSUME DocumentsInv, NEW t \in Tab,
         RecoverDelete(t) \/ Refetch(t) \/ FetchArrives(t) \/ FetchFails(t)
  PROVE  DocumentsInv'
  <1>t. tabs[t] \in Screen /\ ScreenOK(t, tabs[t]) /\ FormOf(t) = tabs[t].form
        /\ tabs[t].form \in Form \cup {None}
    BY FormFacts DEF Screen
  <1>c. Closed(tabs[t].form) \in {tabs[t].form, None}
        /\ (Closed(tabs[t].form) # None => tabs[t].form.state # "closing")
    BY DEF Closed
  <1>1. ASSUME NEW gone \in BOOLEAN, NEW shown \in Revision \cup {None}, NEW failed \in BOOLEAN,
               NEW fetch \in Revision \cup {None, "missing"}, NEW form \in {tabs[t].form, None},
               OnlyTab(t, [tabs[t] EXCEPT !.gone = gone, !.shown = shown, !.failed = failed,
                                          !.fetch = fetch, !.form = form]),
               fetch \notin {None, "missing"} => Known(fetch),
               t \in Reader /\ ~gone =>
                   /\ Known(shown) /\ (tabs[t].saved # None => Known(tabs[t].saved))
                   /\ tabs[t].saved # None =>
                          /\ fetch \notin {None, "missing"} => NotBefore(fetch, tabs[t].saved)
                          /\ \/ failed
                             \/ form # None /\ form.state = "closing"
                             \/ NotBefore(shown, tabs[t].saved)
        PROVE  DocumentsInv'
    <2> DEFINE screen == [tabs[t] EXCEPT !.gone = gone, !.shown = shown, !.failed = failed,
                                         !.fetch = fetch, !.form = form]
    <2>1. /\ screen \in Screen /\ screen.form = form /\ screen.gone = gone
          /\ screen.shown = shown /\ screen.failed = failed
          /\ screen.fetch = fetch /\ screen.saved = tabs[t].saved
      BY <1>t DEF Screen
    <2>2. OnlyTab(t, screen)
      BY <1>1
    <2> HIDE DEF screen
    <2>3. ScreenOK(t, screen)
      BY <1>1, <1>t, <2>1 DEF ScreenOK
    <2>4. QED
      BY <1>t, <2>1, <2>2, <2>3, OnlyTabKeeps
  <1>2. CASE RecoverDelete(t)
    <2>1. CASE Live(Document)
      <3>1. Known(Current(Document)) /\ Current(Document) \in Revision
        BY CurrentIsLast DEF Known
      <3>2. OnlyTab(t, [tabs[t] EXCEPT !.shown = Current(Document), !.failed = FALSE,
                                       !.form = None])
        BY <1>2, <2>1 DEF RecoverDelete
      <3>3. [tabs[t] EXCEPT !.shown = Current(Document), !.failed = FALSE, !.form = None]
                = [tabs[t] EXCEPT !.gone = tabs[t].gone, !.shown = Current(Document),
                                  !.failed = FALSE, !.fetch = tabs[t].fetch, !.form = None]
        BY <1>t DEF Screen
      <3>4. tabs[t].gone \in BOOLEAN /\ tabs[t].fetch = None
        BY <1>2, <1>t DEF RecoverDelete, Screen
      <3>5. t \in Reader /\ ~tabs[t].gone /\ tabs[t].saved # None =>
                Known(tabs[t].saved) /\ NotBefore(Current(Document), tabs[t].saved)
        BY <1>t, CurrentIsLast DEF ScreenOK, Known
      <3>6. OnlyTab(t, [tabs[t] EXCEPT !.gone = tabs[t].gone, !.shown = Current(Document),
                                       !.failed = FALSE, !.fetch = None, !.form = None])
        BY <3>2, <3>3, <3>4
      <3>7. QED
        BY <1>1, <3>1, <3>4, <3>5, <3>6
    <2>2. CASE ~Live(Document)
      <3>1. OnlyTab(t, [tabs[t] EXCEPT !.gone = TRUE, !.form = None])
        BY <1>2, <2>2 DEF RecoverDelete
      <3>2. [tabs[t] EXCEPT !.gone = TRUE, !.form = None]
                = [tabs[t] EXCEPT !.gone = TRUE, !.shown = tabs[t].shown,
                                  !.failed = tabs[t].failed, !.fetch = tabs[t].fetch,
                                  !.form = None]
        BY <1>t DEF Screen
      <3>3. /\ tabs[t].shown \in Revision \cup {None} /\ tabs[t].failed \in BOOLEAN
            /\ tabs[t].fetch \in Revision \cup {None, "missing"}
        BY <1>t DEF Screen
      <3>4. tabs[t].fetch \notin {None, "missing"} => Known(tabs[t].fetch)
        BY <1>t DEF ScreenOK
      <3>5. OnlyTab(t, [tabs[t] EXCEPT !.gone = TRUE, !.shown = tabs[t].shown,
                                       !.failed = tabs[t].failed, !.fetch = tabs[t].fetch,
                                       !.form = None])
        BY <3>1, <3>2
      <3>6. QED
        BY <1>1, <3>3, <3>4, <3>5
    <2>3. QED
      BY <2>1, <2>2
  <1>3. CASE Refetch(t)
    <2>1. OnlyTab(t, [tabs[t] EXCEPT !.fetch = ReadDocument]) /\ ~tabs[t].gone /\ t \in Reader
      BY <1>3 DEF Refetch
    <2>2. [tabs[t] EXCEPT !.fetch = ReadDocument]
              = [tabs[t] EXCEPT !.gone = tabs[t].gone, !.shown = tabs[t].shown,
                                !.failed = tabs[t].failed, !.fetch = ReadDocument,
                                !.form = tabs[t].form]
      BY <1>t DEF Screen
    <2>3. /\ tabs[t].shown \in Revision \cup {None} /\ tabs[t].failed \in BOOLEAN
          /\ tabs[t].gone \in BOOLEAN
      BY <1>t DEF Screen
    <2>4. tabs[t].saved # None => tabs[t].saved \in Revision /\ Known(tabs[t].saved)
      BY <1>t, <2>1 DEF ScreenOK, Known
    <2>5. /\ ReadDocument \in Revision \cup {None, "missing"}
          /\ ReadDocument \notin {None, "missing"} => Known(ReadDocument)
          /\ tabs[t].saved # None /\ ReadDocument \notin {None, "missing"} =>
                 NotBefore(ReadDocument, tabs[t].saved)
      BY <2>4, ReadOK
    <2>6. /\ Known(tabs[t].shown)
          /\ tabs[t].saved # None =>
                 \/ tabs[t].failed
                 \/ tabs[t].form # None /\ tabs[t].form.state = "closing"
                 \/ NotBefore(tabs[t].shown, tabs[t].saved)
      BY <1>t, <2>1 DEF ScreenOK
    <2>7. OnlyTab(t, [tabs[t] EXCEPT !.gone = tabs[t].gone, !.shown = tabs[t].shown,
                                     !.failed = tabs[t].failed, !.fetch = ReadDocument,
                                     !.form = tabs[t].form])
      BY <2>1, <2>2
    <2>8. QED
      BY <1>1, <2>3, <2>4, <2>5, <2>6, <2>7
  <1>4. CASE FetchArrives(t) /\ tabs[t].fetch = "missing"
    <2>1. OnlyTab(t, [tabs[t] EXCEPT !.fetch = None, !.gone = TRUE, !.form = None])
      BY <1>4 DEF FetchArrives
    <2>2. [tabs[t] EXCEPT !.fetch = None, !.gone = TRUE, !.form = None]
              = [tabs[t] EXCEPT !.gone = TRUE, !.shown = tabs[t].shown,
                                !.failed = tabs[t].failed, !.fetch = None, !.form = None]
      BY <1>t DEF Screen
    <2>3. tabs[t].shown \in Revision \cup {None} /\ tabs[t].failed \in BOOLEAN
      BY <1>t DEF Screen
    <2>4. QED
      BY <1>1, <2>1, <2>2, <2>3
  <1>5. CASE FetchArrives(t) /\ tabs[t].fetch # "missing"
    <2>1. /\ OnlyTab(t, [tabs[t] EXCEPT !.shown = tabs[t].fetch, !.failed = FALSE, !.fetch = None,
                                        !.form = Closed(@)])
          /\ tabs[t].fetch # None
      BY <1>5 DEF FetchArrives
    <2>2. [tabs[t] EXCEPT !.shown = tabs[t].fetch, !.failed = FALSE, !.fetch = None,
                          !.form = Closed(@)]
              = [tabs[t] EXCEPT !.gone = tabs[t].gone, !.shown = tabs[t].fetch, !.failed = FALSE,
                                !.fetch = None, !.form = Closed(tabs[t].form)]
      BY <1>t DEF Screen
    <2>3. Known(tabs[t].fetch) /\ tabs[t].fetch \in Revision /\ tabs[t].gone \in BOOLEAN
      BY <1>5, <1>t, <2>1 DEF ScreenOK, Screen, Known
    <2>4. t \in Reader /\ ~tabs[t].gone /\ tabs[t].saved # None =>
              Known(tabs[t].saved) /\ NotBefore(tabs[t].fetch, tabs[t].saved)
      BY <1>5, <1>t, <2>1 DEF ScreenOK
    <2>5. QED
      BY <1>1, <1>c, <2>1, <2>2, <2>3, <2>4
  <1>6. CASE FetchFails(t)
    <2>1. OnlyTab(t, [tabs[t] EXCEPT !.fetch = None, !.failed = TRUE, !.form = Closed(@)])
      BY <1>6 DEF FetchFails
    <2>2. [tabs[t] EXCEPT !.fetch = None, !.failed = TRUE, !.form = Closed(@)]
              = [tabs[t] EXCEPT !.gone = tabs[t].gone, !.shown = tabs[t].shown, !.failed = TRUE,
                                !.fetch = None, !.form = Closed(tabs[t].form)]
      BY <1>t DEF Screen
    <2>3. tabs[t].shown \in Revision \cup {None} /\ tabs[t].gone \in BOOLEAN
      BY <1>t DEF Screen
    <2>4. t \in Reader /\ ~tabs[t].gone =>
              Known(tabs[t].shown) /\ (tabs[t].saved # None => Known(tabs[t].saved))
      BY <1>t DEF ScreenOK
    <2>5. OnlyTab(t, [tabs[t] EXCEPT !.gone = tabs[t].gone, !.shown = tabs[t].shown,
                                     !.failed = TRUE, !.fetch = None,
                                     !.form = Closed(tabs[t].form)])
      BY <2>1, <2>2
    <2>6. QED
      BY <1>1, <1>c, <2>3, <2>4, <2>5
  <1>7. QED
    BY <1>2, <1>3, <1>4, <1>5, <1>6

-----------------------------------------------------------------------------
(* What the tabs and the API send each other *)

\* What a call that is sent asks for, whoever sends it.
CallOK(request, base) ==
    /\ request \in Request
    /\ request.op # "create" =>
           /\ request.material = Document /\ Known(request.expected) /\ base = request.expected

\* A call is new to the API, and its key unused or used for the same request.
LEMMA ArrivalKeeps ==
  ASSUME DocumentsInv, NEW c \in Call, NEW request, NEW base \in Revision \cup {None},
         CallOK(request, base), Arrive(c, request), UNCHANGED rows,
         based' = [based EXCEPT ![c] = base], drawn' = drawn \cup {request.key}
  PROVE  /\ MaterialsInv' /\ CallsKnown' /\ AnswersLast'
         /\ calls[c] = None /\ calls'[c] # None /\ RequestOf(c)' = request
         /\ \A d \in Call \ {c} : calls'[d] = calls[d]
         /\ drawn' \subseteq Key /\ based' \in [Call -> Revision \cup {None}]
         /\ \A d \in Call : calls'[d] # None => RequestOf(d)'.key \in drawn'
  <1>t. /\ MaterialsInv /\ CallsKnown /\ AnswersLast /\ based \in [Call -> Revision \cup {None}]
        /\ drawn \subseteq Key /\ calls \in [Call -> CallRow \cup {None}]
        /\ \A d \in Call : calls[d] # None => RequestOf(d).key \in drawn
    BY DEF DocumentsInv, DocumentsTypeOK, MaterialsInv, MaterialsTypeOK
  <1> DEFINE row == [request |-> request, step |-> "arrived", reply |-> None]
  <1>1. row \in CallRow /\ row # None /\ row.request = request /\ row.step = "arrived"
    BY NoneIsNoRow DEF CallOK, CallRow, Steps
  <1>2. calls[c] = None /\ calls' = [calls EXCEPT ![c] = row]
    BY DEF Arrive
  <1> HIDE DEF row
  <1>3. /\ calls'[c] = row /\ calls'[c] # None /\ RequestOf(c)' = request
        /\ \A d \in Call \ {c} : calls'[d] = calls[d]
    BY <1>1, <1>2, <1>t DEF RequestOf
  <1>4. MaterialsInv'
    <2>1. MaterialsNext
      BY DEF CallOK, MaterialsNext
    <2>2. QED
      BY <1>t, <2>1, StepKeeps
  <1>5. CallsKnown'
    BY <1>1, <1>2, <1>3, <1>t DEF CallsKnown, CallOK, RequestOf, Known, rows, At
  <1>6. AnswersLast'
    <2>1. \A d \in Call : At(d, "answered")' => d # c /\ At(d, "answered")
      BY <1>1, <1>3 DEF At
    <2>2. QED
      BY <1>3, <1>t, <2>1 DEF AnswersLast, At, Filed, RequestOf, Outdated, Live, Current, rows
  <1>7. request.key \in Key
    BY RequestFacts DEF CallOK
  <1>8. QED
    BY <1>2, <1>3, <1>4, <1>5, <1>6, <1>7, <1>t DEF RequestOf

\* A call is sent, by a tab whose form keeps what it has asked for, or elsewhere.
LEMMA SentKeeps ==
  ASSUME DocumentsInv, NEW c \in Call, NEW request, NEW base \in Revision \cup {None},
         CallOK(request, base), Arrive(c, request), UNCHANGED rows,
         based' = [based EXCEPT ![c] = base], drawn' = drawn \cup {request.key},
         sent < MaxCalls, sent' = sent + 1,
         NEW use, Agreed(use),
         request.key \notin drawn \/ use[request.key] = Fingerprint(request),
         tabs' \in [Tab -> Screen],
         \A u \in Tab : \/ tabs'[u] = tabs[u]
                        \/ /\ tabs'[u].form # None /\ Asked(tabs'[u].form) = request
                           /\ ScreenOK(u, tabs[u])'
  PROVE  DocumentsInv'
  <1>t. /\ KeysAgree /\ ScreensOK /\ sent \in 0..MaxCalls /\ MaxCalls \in Nat
        /\ \A d \in Call : calls[d] # None => RequestOf(d).key \in drawn
    BY DocumentsAssumption DEF DocumentsInv, DocumentsTypeOK
  <1>1. /\ MaterialsInv' /\ CallsKnown' /\ AnswersLast'
        /\ calls[c] = None /\ calls'[c] # None /\ RequestOf(c)' = request
        /\ \A d \in Call \ {c} : calls'[d] = calls[d]
        /\ drawn' \subseteq Key /\ based' \in [Call -> Revision \cup {None}]
        /\ \A d \in Call : calls'[d] # None => RequestOf(d)'.key \in drawn'
    BY ArrivalKeeps
  <1>2. /\ UNCHANGED <<materials, revisions, chunks, receipts>>
        /\ request.key \in Key /\ drawn' = drawn \cup {request.key}
    BY RequestFacts DEF rows, CallOK
  <1>3. DocumentsTypeOK'
    <2>1. sent' \in 0..MaxCalls
      BY <1>t
    <2>2. QED
      BY <1>1, <2>1 DEF DocumentsTypeOK
  <1>4. KeysAgree'
    <2> DEFINE use2 == [k \in Key |-> IF k = request.key THEN Fingerprint(request) ELSE use[k]]
    <2>1. use2[request.key] = Fingerprint(request) /\ \A k \in Key \cap drawn : use2[k] = use[k]
      BY <1>2
    <2> HIDE DEF use2
    <2>2. \A d \in Call : calls'[d] # None =>
              use2[RequestOf(d)'.key] = Fingerprint(RequestOf(d)')
      <3>1. ASSUME NEW d \in Call \ {c}, calls'[d] # None
            PROVE  use2[RequestOf(d)'.key] = Fingerprint(RequestOf(d)')
        <4>1. calls[d] # None /\ RequestOf(d)' = RequestOf(d)
          BY <1>1, <3>1 DEF RequestOf
        <4>2. RequestOf(d).key \in Key \cap drawn
          BY <1>t, <4>1 DEF DocumentsInv, DocumentsTypeOK
        <4>3. QED
          BY <2>1, <4>1, <4>2 DEF Agreed
      <3>2. QED
        BY <1>1, <2>1, <3>1
    <2>3. \A k \in Key : receipts[k] # None => use2[k] = receipts[k].fingerprint
      BY <1>t, <2>1 DEF Agreed, KeysAgree
    <2>4. ASSUME NEW u \in Tab, tabs'[u].form # None, tabs'[u].form.key # None
          PROVE  use2[tabs'[u].form.key] = Fingerprint(Asked(tabs'[u].form))
      <3>1. CASE tabs'[u] = tabs[u]
        <4>1. FormOf(u) # None /\ FormOf(u).key # None /\ FormOf(u) = tabs'[u].form
          BY <2>4, <3>1 DEF FormOf
        <4>2. FormOf(u).key \in drawn /\ drawn \subseteq Key
          BY <4>1, FormFacts DEF FormOK, DocumentsInv, DocumentsTypeOK
        <4>3. QED
          BY <2>1, <4>1, <4>2 DEF Agreed
      <3>2. CASE Asked(tabs'[u].form) = request
        <4>1. tabs'[u].form.key = request.key
          BY <3>2 DEF Asked
        <4>2. QED
          BY <2>1, <3>2, <4>1
      <3>3. QED
        BY <3>1, <3>2
    <2>5. Agreed(use2)'
      <3>1. \A u \in Tab : FormOf(u)' # None /\ FormOf(u)'.key # None =>
                use2[FormOf(u)'.key] = Fingerprint(Asked(FormOf(u)'))
        BY <2>4 DEF FormOf
      <3>2. QED
        BY <1>2, <2>2, <2>3, <3>1 DEF Agreed, Fingerprint, Asked
    <2>6. QED
      BY <1>2, <1>t, <2>5 DEF KeysAgree
  <1>5. ScreensOK'
    <2>1. ASSUME NEW u \in Tab, tabs'[u] = tabs[u] PROVE ScreenOK(u, tabs[u])'
      <3>1. ScreenOK(u, tabs[u]) /\ tabs[u].form \in Form \cup {None}
        BY FormFacts DEF Screen
      <3>2. tabs[u].form # None => FormOK(u, tabs[u].form)
        BY <3>1 DEF ScreenOK
      <3>3. tabs[u].form # None => FormOK(u, tabs[u].form)'
        <4>1. ASSUME tabs[u].form # None, tabs[u].form.call # None
              PROVE  RequestOf(tabs[u].form.call)' = RequestOf(tabs[u].form.call)
                     /\ calls'[tabs[u].form.call] = calls[tabs[u].form.call]
          <5>1. tabs[u].form.call \in Call
            BY <3>1, <4>1 DEF Form
          <5>2. calls[tabs[u].form.call] # None
            BY <3>2, <4>1 DEF FormOK
          <5>3. QED
            BY <1>1, <2>1, <5>1, <5>2 DEF RequestOf
        <4>2. QED
          BY <1>2, <2>1, <3>2, <4>1 DEF FormOK, Known, Asked
      <3>4. QED
        BY <1>2, <2>1, <3>1, <3>3 DEF ScreenOK, Known, NotBefore
    <2>2. QED
      BY <2>1 DEF ScreensOK
  <1>6. QED
    BY <1>1, <1>3, <1>4, <1>5 DEF DocumentsInv

\* What a form sends: its kind of request, its text, for a revision its user has seen.
LEMMA SendForm ==
  ASSUME DocumentsInv, NEW t \in Tab, NEW c \in Call, Save(t, c) \/ ConfirmDelete(t, c)
  PROVE  /\ Resting(t)
         /\ \E e \in Revision \cup {None} :
                /\ FormOf(t).kind = "create" => e = None
                /\ FormOf(t).kind # "create" => Known(e)
                /\ Send(t, c,
                        [op |-> FormOf(t).kind,
                         material |-> IF FormOf(t).kind = "create" THEN None ELSE Document,
                         expected |-> e, draft |-> FormOf(t).draft, key |-> None], e)
  <1>1. Resting(t) /\ FormOf(t) # None /\ ~tabs[t].gone
    BY DEF Save, ConfirmDelete, Resting, Open
  <1>2. FormOf(t) \in Form /\ FormOK(t, FormOf(t)) /\ ScreenOK(t, tabs[t]) /\ tabs[t] \in Screen
    BY <1>1, FormFacts
  <1>3. CASE Save(t, c)
    <2>1. FormOf(t).base \in Revision \cup {None} /\ FormOf(t).expected = FormOf(t).base
      BY <1>2 DEF Form, FormOK
    <2>2. /\ FormOf(t).kind = "create" => FormOf(t).base = None
          /\ FormOf(t).kind # "create" => Known(FormOf(t).base)
      BY <1>2, <1>3 DEF Save, FormOK
    <2>3. QED
      BY <1>1, <1>3, <2>1, <2>2 DEF Save
  <1>4. CASE ConfirmDelete(t, c)
    <2>1. FormOf(t).kind = "delete" /\ FormOf(t).draft = None /\ t \in Reader
      BY <1>2, <1>4 DEF ConfirmDelete, FormOK
    <2>2. Known(Confirmed(t)) /\ Confirmed(t) \in Revision
      <3>1. CASE FormOf(t).request = None
        BY <1>1, <1>2, <2>1, <3>1 DEF Confirmed, ScreenOK, Known
      <3>2. CASE FormOf(t).request # None
        BY <1>2, <2>1, <3>2 DEF Confirmed, FormOK, Known
      <3>3. QED
        BY <3>1, <3>2
    <2>3. QED
      BY <1>1, <1>4, <2>1, <2>2 DEF ConfirmDelete
  <1>5. QED
    BY <1>3, <1>4

LEMMA SendKeeps ==
  ASSUME DocumentsInv, NEW t \in Tab, NEW c \in Call, Save(t, c) \/ ConfirmDelete(t, c)
  PROVE  DocumentsInv'
  <1>1. /\ FormOf(t) # None /\ FormOf(t) \in Form /\ FormOf(t) = tabs[t].form
        /\ FormOK(t, FormOf(t)) /\ ScreenOK(t, tabs[t]) /\ tabs[t] \in Screen
        /\ FormOf(t).state \in {"editing", "failed", "conflict"}
        /\ tabs \in [Tab -> Screen]
    BY SendForm, FormFacts DEF Resting, Open, DocumentsInv, DocumentsTypeOK
  <1>2. PICK form \in Form : form = FormOf(t)
    BY <1>1
  <1>3. PICK e \in Revision \cup {None} :
            /\ form.kind = "create" => e = None
            /\ form.kind # "create" => Known(e)
            /\ Send(t, c,
                    [op |-> form.kind,
                     material |-> IF form.kind = "create" THEN None ELSE Document,
                     expected |-> e, draft |-> form.draft, key |-> None], e)
    BY <1>2, SendForm
  <1>4. /\ form.kind \in {"create", "update", "delete"}
        /\ form.kind = "delete" => form.draft = None
        /\ form.kind # "delete" => form.draft \in Draft /\ form.draft # None
        /\ e = None <=> form.kind = "create"
    BY <1>1, <1>2, <1>3, MaterialsAssumption DEF Form, FormOK, Known
  <1> DEFINE material == IF form.kind = "create" THEN None ELSE Document
             wanted == [draft |-> form.draft, expected |-> e]
             asked == [op |-> form.kind, material |-> material, expected |-> e,
                       draft |-> form.draft, key |-> None]
  <1>5. wanted \in Wanted /\ wanted # None /\ wanted.draft = form.draft /\ wanted.expected = e
    BY <1>4, NoneIsNoForm DEF Wanted
  <1>6. /\ sent < MaxCalls /\ sent' = sent + 1
        /\ form.request = wanted \/ drawn # Key
        /\ Arrive(c, [asked EXCEPT !.key = KeyFor(t, wanted)])
        /\ tabs' = [tabs EXCEPT ![t].form.request = wanted, ![t].form.key = KeyFor(t, wanted),
                                ![t].form.state = "sending", ![t].form.call = c,
                                ![t].form.series =
                                    IF form.request = wanted THEN @ \cup {KeyFor(t, wanted)}
                                    ELSE {KeyFor(t, wanted)}]
        /\ drawn' = drawn \cup {KeyFor(t, wanted)}
        /\ based' = [based EXCEPT ![c] = e]
        /\ UNCHANGED rows
    BY <1>2, <1>3 DEF Send
  <1>7. PICK key \in Key :
            /\ key = KeyFor(t, wanted) /\ key # None
            /\ form.request = wanted => key = form.key /\ form.series = {key}
            /\ form.request # wanted => key \notin drawn
    <2>1. CASE form.request = wanted
      <3>1. KeyFor(t, wanted) = form.key /\ form.key # None
        BY <1>1, <1>2, <1>5, <2>1 DEF KeyFor, FormOK
      <3>2. QED
        BY <1>1, <1>2, <2>1, <3>1 DEF FormOK, Form
    <2>2. CASE form.request # wanted
      <3>1. drawn \subseteq Key /\ drawn # Key
        BY <1>6, <2>2 DEF DocumentsInv, DocumentsTypeOK
      <3>2. DrawKey \in Key \ drawn
        BY <3>1 DEF DrawKey
      <3>3. QED
        BY <1>2, <2>2, <3>2, MaterialsAssumption DEF KeyFor
    <2>3. QED
      BY <2>1, <2>2
  <1> DEFINE request == [op |-> form.kind, material |-> material, expected |-> e,
                         draft |-> form.draft, key |-> key]
             put == [form EXCEPT !.request = wanted, !.key = key, !.state = "sending",
                                 !.call = c, !.series = {key}]
  <1>8. Arrive(c, request)
    <2>1. [asked EXCEPT !.key = key] = request
      OBVIOUS
    <2>2. QED
      BY <1>6, <1>7, <2>1
  <1>9. request \in Request /\ request.key = key
    BY <1>3, <1>4, ConstantsOK DEF Request
  <1>10. CallOK(request, e)
    BY <1>3, <1>9 DEF CallOK
  <1>11. /\ put \in Form /\ put.kind = form.kind /\ put.base = form.base
         /\ put.expected = form.expected /\ put.draft = form.draft /\ put.request = wanted
         /\ put.key = key /\ put.state = "sending" /\ put.call = c /\ put.series = {key}
         /\ put # None
    <2>1. put \in Form
      BY <1>5 DEF Form, FormStates
    <2>2. QED
      BY <2>1, NoneIsNoForm DEF Form
  <1>12. Asked(put) = request
    BY <1>5, <1>11 DEF Asked
  <1>13. PICK screen \in Screen : screen = [tabs[t] EXCEPT !.form = put]
    BY <1>1, <1>11 DEF Screen
  <1>14. tabs' = [tabs EXCEPT ![t] = screen]
    <2> DEFINE g1 == [form EXCEPT !.request = wanted]
               g2 == [g1 EXCEPT !.key = key]
               g3 == [g2 EXCEPT !.state = "sending"]
               g4 == [g3 EXCEPT !.call = c]
               g5 == [g4 EXCEPT !.series = {key}]
               Fits(f, g) ==
                   /\ f \in [Tab -> Screen] /\ f[t].form = g /\ f[t].gone = tabs[t].gone
                   /\ f[t].shown = tabs[t].shown /\ f[t].failed = tabs[t].failed
                   /\ f[t].fetch = tabs[t].fetch /\ f[t].saved = tabs[t].saved
                   /\ \A u \in Tab \ {t} : f[u] = tabs[u]
               f1 == [tabs EXCEPT ![t].form.request = wanted]
               f2 == [f1 EXCEPT ![t].form.key = key]
               f3 == [f2 EXCEPT ![t].form.state = "sending"]
               f4 == [f3 EXCEPT ![t].form.call = c]
               f5 == [f4 EXCEPT ![t].form.series = {key}]
    <2>1. tabs' = [tabs EXCEPT ![t].form.request = wanted, ![t].form.key = key,
                               ![t].form.state = "sending", ![t].form.call = c,
                               ![t].form.series = {key}]
      <3>1. tabs[t].form.series = form.series
        BY <1>1, <1>2
      <3>2. (IF form.request = wanted THEN tabs[t].form.series \cup {key} ELSE {key}) = {key}
        BY <1>7, <3>1
      <3> HIDE DEF wanted
      <3>3. tabs' = [tabs EXCEPT
                        ![t].form.request = wanted, ![t].form.key = key,
                        ![t].form.state = "sending", ![t].form.call = c,
                        ![t].form.series = IF form.request = wanted
                                           THEN tabs[t].form.series \cup {key} ELSE {key}]
        BY <1>6, <1>7
      <3>4. QED
        BY <3>2, <3>3
    <2>2. tabs' = f5
      BY <2>1
    <2> HIDE DEF f5
    <2>3. put = g5 /\ g5 \in Form
      BY <1>11
    <2>4. /\ g1 \in Form /\ g1.series = form.series
          /\ g2 \in Form /\ g2.series = form.series
          /\ g3 \in Form /\ g3.series = form.series
          /\ g4 \in Form /\ g4.series = form.series
      BY <1>5 DEF Form, FormStates
    <2>5. Fits(tabs, form)
      BY <1>1, <1>2
    <2> HIDE DEF put, wanted, g1, g2, g3, g4, g5
    <2>6. Fits(f1, g1)
      BY <1>1, <2>4, <2>5 DEF g1, Screen
    <2> HIDE DEF f1
    <2>7. Fits(f2, g2)
      BY <1>1, <2>4, <2>6 DEF g2, Screen
    <2> HIDE DEF f2
    <2>8. Fits(f3, g3)
      BY <1>1, <2>4, <2>7 DEF g3, Screen
    <2> HIDE DEF f3
    <2>9. Fits(f4, g4)
      BY <1>1, <2>4, <2>8 DEF g4, Screen
    <2> HIDE DEF f4
    <2>10. Fits(f5, g5)
      BY <1>1, <2>3, <2>4, <2>9 DEF f5, g5, Screen
    <2>11. f5[t] = screen
      BY <1>1, <1>13, <2>3, <2>10 DEF Screen
    <2>12. QED
      BY <1>1, <2>2, <2>10, <2>11
  <1> HIDE DEF put, request, wanted
  <1>15. /\ screen.form = put /\ screen.gone = tabs[t].gone
         /\ screen.shown = tabs[t].shown /\ screen.failed = tabs[t].failed
         /\ screen.fetch = tabs[t].fetch /\ screen.saved = tabs[t].saved
    BY <1>1, <1>13 DEF Screen
  <1>16. tabs' \in [Tab -> Screen] /\ tabs'[t] = screen /\ \A u \in Tab \ {t} : tabs'[u] = tabs[u]
    BY <1>1, <1>14
  <1>17. drawn' = drawn \cup {request.key}
    BY <1>6, <1>7, <1>9
  <1>18. calls'[c] # None /\ RequestOf(c)' = request
    BY <1>6, <1>8, <1>10, <1>17, ArrivalKeeps
  <1>19. UNCHANGED <<revisions, receipts>> /\ key \in drawn'
    BY <1>6, <1>7 DEF rows
  <1>20. FormOK(t, put)'
    <2>1. (Known(e)' <=> Known(e)) /\ (Known(form.base)' <=> Known(form.base))
      BY <1>19 DEF Known
    <2>2. RequestOf(c)' = Asked(put)
      BY <1>12, <1>18
    <2>3. QED
      BY <1>1, <1>2, <1>3, <1>4, <1>5, <1>7, <1>11, <1>18, <1>19, <2>1, <2>2 DEF FormOK, Asked
  <1>21. ScreenOK(t, screen)'
    <2>1. /\ screen.form # None /\ screen.form.state # "closing"
          /\ tabs[t].form # None => tabs[t].form.state # "closing"
      BY <1>1, <1>11, <1>15
    <2>2. QED
      BY <1>1, <1>15, <1>19, <1>20, <2>1 DEF ScreenOK, Known, NotBefore
  <1>22. PICK use : Agreed(use)
    BY DEF DocumentsInv, KeysAgree
  <1>23. request.key \notin drawn \/ use[request.key] = Fingerprint(request)
    <2>1. CASE form.request # wanted
      BY <1>7, <1>9, <2>1
    <2>2. CASE form.request = wanted
      <3>1. Asked(form) = request
        BY <1>5, <1>7, <2>2 DEF Asked, request
      <3>2. use[form.key] = Fingerprint(Asked(form))
        BY <1>1, <1>2, <1>7, <1>22, <2>2 DEF Agreed
      <3>3. QED
        BY <1>7, <1>9, <2>2, <3>1, <3>2
    <2>3. QED
      BY <2>1, <2>2
  <1>24. ScreenOK(t, tabs[t])'
    BY <1>16, <1>21 DEF ScreenOK
  <1>25. \A u \in Tab : \/ tabs'[u] = tabs[u]
                        \/ /\ tabs'[u].form # None /\ Asked(tabs'[u].form) = request
                           /\ ScreenOK(u, tabs[u])'
    BY <1>11, <1>12, <1>15, <1>16, <1>24
  <1>26. QED
    BY <1>6, <1>8, <1>10, <1>16, <1>17, <1>22, <1>23, <1>25, SentKeeps

LEMMA ElsewhereKeeps ==
  ASSUME DocumentsInv, NEW c \in Call, Elsewhere(c)
  PROVE  DocumentsInv'
  <1>1. PICK base \in Revision, op \in {"update", "delete"}, body \in Typed :
            /\ sent < MaxCalls /\ drawn # Key
            /\ revisions[base] # None /\ revisions[base].material = Document
            /\ Arrive(c, [op |-> op, material |-> Document, expected |-> base,
                          draft |-> IF op = "delete" THEN None ELSE body, key |-> DrawKey])
            /\ drawn' = drawn \cup {DrawKey}
            /\ based' = [based EXCEPT ![c] = base]
            /\ sent' = sent + 1
            /\ UNCHANGED <<rows, tabs>>
    BY DEF Elsewhere
  <1> DEFINE request == [op |-> op, material |-> Document, expected |-> base,
                         draft |-> IF op = "delete" THEN None ELSE body, key |-> DrawKey]
  <1>2. DrawKey \in Key \ drawn
    BY <1>1 DEF DocumentsInv, DocumentsTypeOK, DrawKey
  <1>3. request \in Request
    BY <1>2, ConstantsOK, DocumentsAssumption DEF Request
  <1>4. CallOK(request, base)
    BY <1>1, <1>3 DEF CallOK, Known
  <1>5. PICK use : Agreed(use)
    BY DEF DocumentsInv, KeysAgree
  <1>6. request.key = DrawKey /\ Arrive(c, request)
    BY <1>1
  <1> HIDE DEF request
  <1>7. UNCHANGED rows /\ tabs' = tabs /\ tabs \in [Tab -> Screen]
    BY <1>1 DEF DocumentsInv, DocumentsTypeOK
  <1>8. tabs' \in [Tab -> Screen] /\ \A u \in Tab : tabs'[u] = tabs[u]
    BY <1>7
  <1>9. QED
    BY <1>1, <1>2, <1>4, <1>5, <1>6, <1>7, <1>8, SentKeeps

\* What is filed under a call's key is its own request.
LEMMA FiledIsOwn ==
  ASSUME DocumentsInv, NEW c \in Call, calls[c] # None, Filed(c) # None
  PROVE  /\ Filed(c) \in Receipt /\ Filed(c).fingerprint = Fingerprint(RequestOf(c))
         /\ ReplayOf(c) = Saved(Filed(c).material, Filed(c).revision)
         /\ RequestOf(c).op # "create" => Known(Filed(c).revision)
         /\ revisions[Filed(c).revision] # None
         /\ RequestOf(c).op # "delete" =>
                revisions[Filed(c).revision].content = Prepare(RequestOf(c).draft)
  <1>t. MaterialsTypeOK /\ ReceiptsTellTheTruth /\ CallsKnown
    BY DEF DocumentsInv, MaterialsInv
  <1>1. RequestOf(c) \in Request /\ Filed(c) \in Receipt
    BY <1>t, FiledIsTyped
  <1>2. RequestOf(c).key \in Key
    BY <1>1, RequestFacts
  <1>3. Filed(c).fingerprint = Fingerprint(RequestOf(c))
    BY <1>2 DEF DocumentsInv, KeysAgree, Agreed, Filed
  <1>4. /\ Filed(c).revision \in Revision /\ revisions[Filed(c).revision] # None
        /\ revisions[Filed(c).revision].material = Filed(c).material
        /\ Filed(c).fingerprint.op # "create" =>
               Filed(c).fingerprint.material = Filed(c).material
        /\ Filed(c).fingerprint.op # "delete" =>
               revisions[Filed(c).revision].content = Filed(c).fingerprint.content
    BY <1>t, <1>1, <1>2 DEF ReceiptsTellTheTruth, Filed, Receipt
  <1>5. RequestOf(c).op # "create" => Known(Filed(c).revision)
    BY <1>1, <1>3, <1>4, <1>t, FingerprintFacts DEF Known, CallsKnown
  <1>6. QED
    BY <1>1, <1>3, <1>4, <1>5, FingerprintFacts DEF ReplayOf

\* A form whose call is answered.
LEMMA AnsweredOK ==
  ASSUME DocumentsInv, NEW t \in Tab, NEW c \in Call, At(c, "answered"),
         FormOf(t) # None, FormOf(t).call = c
  PROVE  LET screen == Answered(tabs[t], calls[c].reply)
         IN  /\ screen \in Screen /\ ScreenOK(t, screen)
             /\ screen.form # None =>
                    /\ screen.form.call = None
                    /\ screen.form.key # None =>
                           /\ screen.form.key = FormOf(t).key
                           /\ screen.form.kind = FormOf(t).kind
                           /\ screen.form.request = FormOf(t).request
  <1>1. /\ tabs[t] \in Screen /\ ScreenOK(t, tabs[t]) /\ FormOf(t) = tabs[t].form
        /\ FormOf(t) \in Form /\ FormOK(t, FormOf(t))
    BY FormFacts
  <1> DEFINE form == tabs[t].form
             reply == calls[c].reply
             screen == Answered(tabs[t], reply)
  <1>2. /\ form \in Form /\ FormOK(t, form) /\ form.call = c
        /\ form.state = "sending" /\ form.key # None /\ RequestOf(c).op = form.kind
        /\ form = FormOf(t) /\ form # None
    BY <1>1, MaterialsAssumption DEF FormOK, Asked
  <1>3. reply \in Replies /\ calls[c] # None
        /\ (reply.kind = "saved" => Filed(c) # None /\ Filed(c).revision = reply.revision)
    BY DEF DocumentsInv, AnswersLast, At
  <1>4. form.kind \in {"create", "update", "delete"}
    BY <1>2 DEF Form
  <1> HIDE DEF form
  <1>5. CASE reply.kind # "saved"
    <2> DEFINE state == IF reply.kind \in {"conflict", "revision_conflict"}
                        THEN "conflict" ELSE "failed"
               put == [form EXCEPT !.call = None, !.state = state]
    <2>1. /\ put \in Form /\ put.draft = form.draft /\ put.kind = form.kind
          /\ put.base = form.base /\ put.expected = form.expected
          /\ put.request = form.request /\ put.key = form.key /\ put.call = None
          /\ put.series = form.series
      BY <1>2 DEF Form, FormStates
    <2>2. screen = [tabs[t] EXCEPT !.form.call = None, !.form.state = state]
      BY <1>5 DEF Answered, Failed
    <2>3. [tabs[t] EXCEPT !.form.call = None, !.form.state = state]
              = [tabs[t] EXCEPT !.form = put]
      BY <1>1, <1>2 DEF Screen, Form, form
    <2> HIDE DEF put, state, screen
    <2>4. FormOK(t, put)
      BY <1>2, <2>1 DEF FormOK
    <2>5. form.state # "closing" /\ put \in Form \cup {None}
      BY <1>2, <2>1
    <2>6. tabs[t].form # None => tabs[t].form.state # "closing"
      BY <2>5 DEF form
    <2>7. /\ [tabs[t] EXCEPT !.form = put] \in Screen
          /\ ScreenOK(t, [tabs[t] EXCEPT !.form = put])
          /\ [tabs[t] EXCEPT !.form = put].form = put
      BY <1>1, <2>4, <2>5, <2>6, PutForm
    <2>8. screen = [tabs[t] EXCEPT !.form = put]
      BY <2>2, <2>3
    <2>9. screen \in Screen /\ ScreenOK(t, screen) /\ screen.form = put
      BY <2>7, <2>8
    <2>10. QED
      BY <1>2, <2>1, <2>9 DEF screen
  <1>6. CASE reply.kind = "saved" /\ form.kind = "update"
    <2> DEFINE put == [form EXCEPT !.state = "closing", !.call = None]
    <2>1. /\ put \in Form /\ put.draft = form.draft /\ put.kind = form.kind
          /\ put.base = form.base /\ put.expected = form.expected
          /\ put.request = form.request /\ put.key = form.key /\ put.call = None
          /\ put.series = form.series /\ put.state = "closing"
      BY <1>2 DEF Form, FormStates
    <2>2. screen = [[tabs[t] EXCEPT !.fetch = ReadDocument]
                        EXCEPT !.form.state = "closing", !.form.call = None,
                               !.saved = reply.revision]
      BY <1>6 DEF Answered, RefetchFrom, form
    <2>3. screen = [tabs[t] EXCEPT !.fetch = ReadDocument, !.form = put,
                                   !.saved = reply.revision]
      BY <1>1, <1>2, <2>2 DEF Screen, Form, form
    <2>4. put # None
      BY <2>1, NoneIsNoForm
    <2>5. FormOK(t, put)
      BY <1>2, <2>1 DEF FormOK
    <2>6. Known(reply.revision) /\ reply.revision \in Revision /\ reply.revision # None
      BY <1>2, <1>3, <1>6, FiledIsOwn, MaterialsAssumption DEF Known
    <2> HIDE DEF put
    <2>7. /\ screen \in Screen /\ screen.form = put /\ screen.fetch = ReadDocument
          /\ screen.saved = reply.revision /\ screen.shown = tabs[t].shown
          /\ screen.gone = tabs[t].gone /\ screen.failed = tabs[t].failed
      BY <1>1, <2>1, <2>3, <2>6, ReadOK DEF Screen
    <2> HIDE DEF screen
    <2>8. ScreenOK(t, screen)
      BY <1>1, <2>1, <2>4, <2>5, <2>6, <2>7, ReadOK DEF ScreenOK
    <2>9. QED
      BY <1>2, <2>1, <2>7, <2>8 DEF screen
  <1>7. CASE reply.kind = "saved" /\ form.kind = "delete"
    <2>1. screen = [tabs[t] EXCEPT !.gone = TRUE, !.form = None, !.shown = None, !.fetch = None]
      BY <1>7 DEF Answered, form
    <2>2. /\ screen \in Screen /\ screen.form = None /\ screen.gone /\ screen.fetch = None
      BY <1>1, <2>1 DEF Screen
    <2> HIDE DEF screen
    <2>3. ScreenOK(t, screen)
      BY <2>2 DEF ScreenOK
    <2>4. QED
      BY <2>2, <2>3 DEF screen
  <1>8. CASE reply.kind = "saved" /\ form.kind = "create"
    <2> DEFINE put == NewForm("create", None, FirstDraft)
    <2>1. /\ put \in Form /\ put # None /\ put.kind = "create" /\ put.base = None
          /\ put.expected = None /\ put.draft = FirstDraft /\ put.request = None
          /\ put.key = None /\ put.series = {} /\ put.call = None
      BY NewFormOK, ConstantsOK
    <2>2. screen = [tabs[t] EXCEPT !.form = put, !.saved = reply.revision]
      BY <1>8 DEF Answered, form
    <2> HIDE DEF put
    <2>3. reply.revision \in Revision /\ t \notin Reader /\ FirstDraft # None
      BY <1>2, <1>3, <1>8, ConstantsOK, MaterialsAssumption DEF Replies, Refusals, FormOK
    <2>4. FormOK(t, put)
      BY <2>1, <2>3 DEF FormOK
    <2>5. /\ screen \in Screen /\ screen.form = put /\ screen.fetch = tabs[t].fetch
      BY <1>1, <2>1, <2>2, <2>3 DEF Screen
    <2> HIDE DEF screen
    <2>6. ScreenOK(t, screen)
      BY <1>1, <2>3, <2>4, <2>5 DEF ScreenOK
    <2>7. QED
      BY <2>1, <2>5, <2>6 DEF screen
  <1>9. QED
    BY <1>4, <1>5, <1>6, <1>7, <1>8

LEMMA DeliverKeeps ==
  ASSUME DocumentsInv, NEW c \in Call, Deliver(c)
  PROVE  DocumentsInv'
  <1>t. /\ MaterialsInv /\ DocumentsTypeOK /\ KeysAgree /\ CallsKnown /\ AnswersLast /\ ScreensOK
        /\ tabs \in [Tab -> Screen] /\ calls \in [Call -> CallRow \cup {None}]
    BY DEF DocumentsInv, DocumentsTypeOK, MaterialsInv, MaterialsTypeOK
  <1>1. /\ At(c, "answered") /\ calls' = [calls EXCEPT ![c] = None]
        /\ UNCHANGED <<materials, revisions, chunks, receipts, drawn, sent>>
        /\ based' = [based EXCEPT ![c] = None]
        /\ tabs' = [t \in Tab |->
               IF FormOf(t) # None /\ FormOf(t).call = c
               THEN Answered(tabs[t], calls[c].reply) ELSE tabs[t]]
    BY DEF Deliver, Leave, rows
  <1>2. calls'[c] = None /\ \A d \in Call \ {c} : calls'[d] = calls[d] /\ based'[d] = based[d]
    BY <1>1, <1>t DEF DocumentsTypeOK
  <1>3. ASSUME NEW t \in Tab
        PROVE  /\ tabs'[t] \in Screen /\ ScreenOK(t, tabs'[t])
               /\ tabs'[t].form # None =>
                      /\ tabs'[t].form.call # None =>
                             tabs'[t].form.call # c /\ tabs'[t].form = FormOf(t)
                      /\ tabs'[t].form.key # None =>
                             /\ tabs'[t].form.key = FormOf(t).key
                             /\ tabs'[t].form.kind = FormOf(t).kind
                             /\ tabs'[t].form.request = FormOf(t).request
                             /\ FormOf(t) # None
    <2>1. CASE FormOf(t) # None /\ FormOf(t).call = c
      <3>1. tabs'[t] = Answered(tabs[t], calls[c].reply)
        BY <1>1, <2>1
      <3>2. QED
        BY <1>1, <2>1, <3>1, AnsweredOK
    <2>2. CASE ~(FormOf(t) # None /\ FormOf(t).call = c)
      <3>1. tabs'[t] = tabs[t]
        BY <1>1, <2>2
      <3>2. QED
        BY <2>2, <3>1, FormFacts
    <2>3. QED
      BY <2>1, <2>2
  <1>4. MaterialsInv'
    <2>1. MaterialsNext
      BY DEF Deliver, MaterialsNext
    <2>2. QED
      BY <1>t, <2>1, StepKeeps
  <1>5. DocumentsTypeOK'
    <2>1. tabs' \in [Tab -> Screen]
      BY <1>1, <1>3
    <2>2. based' \in [Call -> Revision \cup {None}]
      BY <1>1, <1>t DEF DocumentsTypeOK
    <2>3. QED
      BY <1>1, <1>2, <1>t, <2>1, <2>2 DEF DocumentsTypeOK, RequestOf
  <1>6. KeysAgree'
    <2>1. PICK use : Agreed(use)
      BY <1>t DEF KeysAgree
    <2>2. ASSUME NEW t \in Tab, tabs'[t].form # None, tabs'[t].form.key # None
          PROVE  use[tabs'[t].form.key] = Fingerprint(Asked(tabs'[t].form))
      <3>1. Asked(tabs'[t].form) = Asked(FormOf(t))
        BY <1>3, <2>2 DEF Asked
      <3>2. QED
        BY <1>3, <2>1, <2>2, <3>1 DEF Agreed
    <2>3. \A d \in Call : calls'[d] # None =>
              use[RequestOf(d)'.key] = Fingerprint(RequestOf(d)')
      BY <1>2, <2>1 DEF Agreed, RequestOf
    <2>4. Agreed(use)'
      <3>1. \A t \in Tab : FormOf(t)' # None /\ FormOf(t)'.key # None =>
                use[FormOf(t)'.key] = Fingerprint(Asked(FormOf(t)'))
        BY <2>2 DEF FormOf
      <3>2. QED
        BY <1>1, <2>1, <2>3, <3>1 DEF Agreed, Fingerprint, Asked
    <2>5. QED
      BY <1>1, <1>t, <2>4 DEF KeysAgree
  <1>7. CallsKnown'
    BY <1>1, <1>2, <1>t DEF CallsKnown, RequestOf, Known, At
  <1>8. AnswersLast'
    BY <1>1, <1>2, <1>t DEF AnswersLast, At, Filed, RequestOf, Outdated, Live, Current
  <1>9. ScreensOK'
    <2>1. ASSUME NEW t \in Tab PROVE ScreenOK(t, tabs[t])'
      <3>1. ScreenOK(t, tabs'[t]) /\ tabs'[t] \in Screen
        BY <1>3
      <3>2. ASSUME tabs'[t].form # None PROVE FormOK(t, tabs[t].form)'
        <4>1. FormOK(t, tabs'[t].form) /\ tabs'[t].form \in Form
          BY <3>1, <3>2 DEF ScreenOK, Screen
        <4>2. ASSUME tabs'[t].form.call # None
              PROVE  /\ calls'[tabs'[t].form.call] = calls[tabs'[t].form.call]
                     /\ calls'[tabs'[t].form.call].request = RequestOf(tabs'[t].form.call)
          BY <1>2, <1>3, <3>2, <4>1, <4>2 DEF Form, RequestOf
        <4>3. QED
          BY <1>1, <4>1, <4>2 DEF FormOK, Known, Asked, RequestOf
      <3>3. QED
        BY <1>1, <3>1, <3>2 DEF ScreenOK, Known, NotBefore
    <2>2. QED
      BY <2>1 DEF ScreensOK
  <1>10. QED
    BY <1>4, <1>5, <1>6, <1>7, <1>8, <1>9 DEF DocumentsInv

-----------------------------------------------------------------------------
(* What the API does meanwhile *)

\* Texts stay, materials stay, and only a live material moves on, to a new revision.
LEMMA CommitMoves ==
  ASSUME MaterialsInv, NEW c \in Call, Commit(c)
  PROVE  /\ \E m \in Material, r \in Revision : FileReceipt(c, m, r)
         /\ \A q \in Revision : revisions[q] # None => revisions'[q] = revisions[q]
         /\ \A n \in Material : materials[n] # None =>
                /\ materials'[n] # None
                /\ \/ materials'[n] = materials[n]
                   \/ /\ Live(n) /\ RequestOf(c).op # "create" /\ RequestOf(c).material = n
                      /\ materials'[n].deleted \/ revisions[materials'[n].current] = None
  <1>t. /\ materials \in [Material -> MaterialRow \cup {None}]
        /\ revisions \in [Revision -> RevisionRow \cup {None}]
    BY DEF MaterialsInv, MaterialsTypeOK
  <1>1. CASE WriteCreate(c)
    <2>1. PICK m \in Material, r \in Revision :
              /\ materials[m] = None /\ revisions[r] = None /\ FileReceipt(c, m, r)
              /\ materials' = [materials EXCEPT ![m] = [current |-> r, deleted |-> FALSE]]
              /\ InsertRevision(r, m, 1, Prepare(RequestOf(c).draft))
      <3>1. HasFresh(materials) /\ HasFresh(revisions)
        BY <1>1 DEF WriteCreate
      <3>2. /\ Fresh(materials) \in Material /\ materials[Fresh(materials)] = None
            /\ Fresh(revisions) \in Revision /\ revisions[Fresh(revisions)] = None
        BY <3>1, FreshFacts DEF MaterialsInv
      <3>3. QED
        BY <1>1, <3>2 DEF WriteCreate
    <2>2. \A n \in Material : materials[n] # None => materials'[n] = materials[n]
      BY <1>t, <2>1
    <2>3. \A q \in Revision : revisions[q] # None => revisions'[q] = revisions[q]
      BY <1>t, <2>1 DEF InsertRevision
    <2>4. QED
      BY <2>1, <2>2, <2>3
  <1>2. CASE WriteUnchanged(c)
    <2>1. /\ RequestOf(c).op = "update" /\ FileReceipt(c, RequestOf(c).material,
                                                       Current(RequestOf(c).material))
          /\ UNCHANGED <<materials, revisions>>
      BY <1>2 DEF WriteUnchanged
    <2>2. RequestOf(c).material \in Material /\ Current(RequestOf(c).material) \in Revision
      BY <2>1, WriterFacts
    <2>3. QED
      BY <2>1, <2>2
  <1>3. CASE WriteUpdate(c)
    <2>1. PICK m \in Material, r \in Revision :
              /\ m = RequestOf(c).material /\ RequestOf(c).op = "update"
              /\ Live(m) /\ revisions[r] = None /\ FileReceipt(c, m, r)
              /\ materials' = [materials EXCEPT ![m].current = r]
              /\ \E number, content : InsertRevision(r, m, number, content)
      <3>1. HasFresh(revisions) /\ RequestOf(c).op = "update"
        BY <1>3 DEF WriteUpdate
      <3>2. Fresh(revisions) \in Revision /\ revisions[Fresh(revisions)] = None
        BY <3>1, FreshFacts DEF MaterialsInv
      <3>3. RequestOf(c).material \in Material /\ Live(RequestOf(c).material)
        BY <3>1, WriterFacts
      <3>4. /\ FileReceipt(c, RequestOf(c).material, Fresh(revisions))
            /\ materials' = [materials EXCEPT ![RequestOf(c).material].current = Fresh(revisions)]
            /\ \E number, content :
                   InsertRevision(Fresh(revisions), RequestOf(c).material, number, content)
        BY <1>3 DEF WriteUpdate
      <3>5. QED
        BY <3>1, <3>2, <3>3, <3>4
    <2>2. materials[m] \in MaterialRow
      BY <1>t, <2>1 DEF Live
    <2>3. materials'[m] \in MaterialRow /\ materials'[m].current = r
      BY <1>t, <2>1, <2>2 DEF MaterialRow
    <2>4. materials'[m] # None
      BY <2>3, NoneIsNoRow
    <2>5. \A n \in Material : n # m => materials'[n] = materials[n]
      BY <1>t, <2>1
    <2>6. \A q \in Revision : revisions[q] # None => revisions'[q] = revisions[q]
      BY <1>t, <2>1 DEF InsertRevision
    <2>7. QED
      BY <2>1, <2>3, <2>4, <2>5, <2>6
  <1>4. CASE WriteDelete(c)
    <2>1. /\ RequestOf(c).op = "delete" /\ UNCHANGED revisions
          /\ FileReceipt(c, RequestOf(c).material, Current(RequestOf(c).material))
          /\ materials' = [materials EXCEPT ![RequestOf(c).material].deleted = TRUE]
      BY <1>4 DEF WriteDelete
    <2>2. PICK m \in Material : m = RequestOf(c).material /\ Live(m) /\ Current(m) \in Revision
      BY <2>1, WriterFacts
    <2>3. materials[m] \in MaterialRow
      BY <1>t, <2>2 DEF Live
    <2>4. materials'[m] \in MaterialRow /\ materials'[m].deleted
      BY <1>t, <2>1, <2>2, <2>3 DEF MaterialRow
    <2>5. materials'[m] # None
      BY <2>4, NoneIsNoRow
    <2>6. \A n \in Material : n # m => materials'[n] = materials[n]
      BY <1>t, <2>1, <2>2
    <2>7. QED
      BY <2>1, <2>2, <2>4, <2>5, <2>6
  <1>5. QED
    BY <1>1, <1>2, <1>3, <1>4 DEF Commit

\* Why a call is answered without a commit.
Reason(c, reply) ==
    \/ Filed(c) # None /\ reply = ReplayOf(c)
    \/ reply = Refused("unavailable")
    \/ /\ Filed(c) = None /\ At(c, "locking")
       /\ \/ reply = Refused("not_found") /\ ~Live(RequestOf(c).material)
          \/ /\ reply = Refused("revision_conflict")
             /\ Current(RequestOf(c).material) # RequestOf(c).expected

LEMMA ServeMoves ==
  ASSUME MaterialsInv, NEW c \in Call, Serve(c)
  PROVE  /\ calls[c] # None /\ calls[c].step # "answered"
         /\ \/ Commit(c)
            \/ /\ UNCHANGED rows
               /\ \/ \E step \in {"writing", "lost"} : Continue(c, step)
                  \/ Continue(c, "locking") /\ RequestOf(c).op # "create"
                  \/ \E reply : Reason(c, reply) /\ Answer(c, reply)
  <1>1. CASE ReadReceipt(c)
    BY <1>1 DEF ReadReceipt, At, Reason
  <1>2. CASE LockMaterial(c)
    <2> DEFINE m == RequestOf(c).material
    <2>0. At(c, "locking") /\ UNCHANGED rows
      BY <1>2 DEF LockMaterial
    <2>1. CASE Filed(c) # None
      <3>1. Answer(c, ReplayOf(c))
        BY <1>2, <2>1 DEF LockMaterial
      <3>2. QED
        BY <2>0, <2>1, <3>1 DEF At, Reason
    <2>2. CASE Filed(c) = None /\ ~Live(m)
      <3>1. Answer(c, Refused("not_found"))
        BY <1>2, <2>2 DEF LockMaterial
      <3>2. QED
        BY <2>0, <2>2, <3>1 DEF At, Reason
    <2>3. CASE Filed(c) = None /\ Live(m) /\ Current(m) # RequestOf(c).expected
      <3>1. Answer(c, Refused("revision_conflict"))
        BY <1>2, <2>3 DEF LockMaterial
      <3>2. QED
        BY <2>0, <2>3, <3>1 DEF At, Reason
    <2>4. CASE Filed(c) = None /\ Live(m) /\ Current(m) = RequestOf(c).expected
      <3>1. Continue(c, "writing")
        BY <1>2, <2>4 DEF LockMaterial
      <3>2. QED
        BY <2>0, <3>1 DEF At
    <2>5. QED
      BY <2>1, <2>2, <2>3, <2>4
  <1>3. CASE Write(c)
    BY <1>3 DEF Write, Commit, At
  <1>4. CASE ReadWinner(c)
    <2>1. Filed(c) # None
      BY <1>4 DEF ReadWinner, MaterialsInv, LosersHaveWinner
    <2>2. QED
      BY <1>4, <2>1 DEF ReadWinner, At, Reason
  <1>5. CASE Fail(c)
    BY <1>5 DEF Fail, Reason
  <1>6. QED
    BY <1>1, <1>2, <1>3, <1>4, <1>5 DEF Serve

LEMMA ReasonIsReply ==
  ASSUME MaterialsTypeOK, NEW c \in Call, calls[c] # None, NEW reply, Reason(c, reply)
  PROVE  reply \in Replies
  <1>1. \A kind \in {"unavailable", "not_found", "revision_conflict"} : Refused(kind) \in Replies
    BY RefusedIsReply DEF Refusals
  <1>2. QED
    BY <1>1, FiledIsTyped DEF Reason

\* The call moves on with its request; nothing the tabs know of is taken back.
LEMMA ServeSpares ==
  ASSUME DocumentsInv, NEW c \in Call, Serve(c)
  PROVE  /\ calls[c] # None /\ calls[c].step # "answered"
         /\ \A d \in Call \ {c} : calls'[d] = calls[d]
         /\ calls'[c] # None /\ calls'[c].request = calls[c].request
         /\ \A q \in Revision : revisions[q] # None => revisions'[q] = revisions[q]
         /\ materials'[Document] # None
  <1>t. /\ MaterialsInv /\ MaterialsTypeOK /\ materials[Document] # None
        /\ calls \in [Call -> CallRow \cup {None}]
    BY DEF DocumentsInv, MaterialsInv, MaterialsTypeOK, CallsKnown
  <1>1. /\ calls[c] # None /\ calls[c].step # "answered"
        /\ \/ Commit(c)
           \/ /\ UNCHANGED rows
              /\ \/ \E step \in Steps : Continue(c, step)
                 \/ \E reply \in Replies : Answer(c, reply)
    <2>1. {"writing", "lost", "locking"} \subseteq Steps
      BY DEF Steps
    <2>2. QED
      BY <1>t, <2>1, ServeMoves, ReasonIsReply
  <1>2. \/ \E step \in Steps : Continue(c, step)
        \/ \E reply \in Replies : Answer(c, reply)
    <2>1. CASE Commit(c)
      <3>1. PICK m \in Material, r \in Revision : Answer(c, Saved(m, r))
        BY <1>t, <2>1, CommitMoves DEF FileReceipt
      <3>2. Saved(m, r) \in Replies
        BY DEF Saved, Replies
      <3>3. QED
        BY <3>1, <3>2
    <2>2. QED
      BY <1>1, <2>1
  <1>3. /\ \A d \in Call \ {c} : calls'[d] = calls[d]
        /\ calls'[c].request = calls[c].request /\ calls'[c] # None
    <2>1. calls[c] \in CallRow
      BY <1>1, <1>t
    <2>2. ASSUME NEW step \in Steps, Continue(c, step)
          PROVE  /\ \A d \in Call \ {c} : calls'[d] = calls[d]
                 /\ calls'[c].request = calls[c].request /\ calls'[c] # None
      <3>1. calls'[c] \in CallRow /\ calls'[c].request = calls[c].request
        BY <1>1, <1>t, <2>2, ContinueIsTyped
      <3>2. QED
        BY <1>t, <2>2, <3>1, NoneIsNoRow DEF Continue
    <2>3. ASSUME NEW reply \in Replies, Answer(c, reply)
          PROVE  /\ \A d \in Call \ {c} : calls'[d] = calls[d]
                 /\ calls'[c].request = calls[c].request /\ calls'[c] # None
      <3>1. calls'[c] \in CallRow
        BY <1>1, <1>t, <2>3, AnswerIsTyped
      <3>2. calls'[c].request = calls[c].request
        BY <1>t, <2>1, <2>3 DEF Answer, CallRow
      <3>3. QED
        BY <1>t, <2>3, <3>1, <3>2, NoneIsNoRow DEF Answer
    <2>4. QED
      BY <1>2, <2>2, <2>3
  <1>4. CASE Commit(c)
    BY <1>1, <1>3, <1>4, <1>t, CommitMoves, ConstantsOK
  <1>5. CASE UNCHANGED rows
    BY <1>1, <1>3, <1>5, <1>t DEF rows
  <1>6. QED
    BY <1>1, <1>4, <1>5

\* A commit leaves what other calls were told as it is.
LEMMA CommitAnswers ==
  ASSUME DocumentsInv, NEW c \in Call, Serve(c), Commit(c)
  PROVE  AnswersLast'
  <1>t. /\ MaterialsInv /\ MaterialsTypeOK /\ AnswersLast /\ CallsKnown /\ KeysAgree
        /\ calls \in [Call -> CallRow \cup {None}]
        /\ receipts \in [Key -> Receipt \cup {None}]
    BY DEF DocumentsInv, MaterialsInv, MaterialsTypeOK
  <1>c. calls[c] # None /\ At(c, "writing") /\ Filed(c) = None /\ RequestOf(c) \in Request
    BY <1>t, FiledIsTyped DEF Commit, At
  <1>1. PICK m \in Material, r \in Revision : FileReceipt(c, m, r)
    BY <1>t, CommitMoves
  <1> DEFINE row == [fingerprint |-> Fingerprint(RequestOf(c)), material |-> m, revision |-> r]
  <1>2. /\ RequestOf(c).key \in Key /\ receipts'[RequestOf(c).key] = row
        /\ \A k \in Key : k # RequestOf(c).key => receipts'[k] = receipts[k]
    BY <1>1, <1>c, <1>t, ReceiptsAfterCommit
  <1>3. row \in Receipt /\ row # None /\ row.revision = r
    BY <1>c, FingerprintFacts, NoneIsNoRow DEF Receipt
  <1> HIDE DEF row
  <1>4. /\ \A d \in Call \ {c} : calls'[d] = calls[d]
        /\ calls'[c].request = calls[c].request /\ calls'[c].reply = Saved(m, r)
    <2>1. Saved(m, r) \in Replies
      BY DEF Saved, Replies
    <2>2. calls'[c].reply = Saved(m, r)
      BY <1>1, <1>c, <1>t, <2>1, AnswerIsTyped DEF FileReceipt
    <2>3. QED
      BY <2>2, ServeSpares
  <1>5. Filed(c)' # None /\ Filed(c)'.revision = r
    BY <1>2, <1>3, <1>4 DEF Filed, RequestOf
  <1>6. ASSUME At(c, "answered")'
        PROVE  /\ calls'[c].reply \in Replies /\ calls'[c].reply.kind = "saved"
               /\ calls'[c].reply.revision = r
    BY <1>4 DEF Saved, Replies
  <1>7. ASSUME NEW d \in Call \ {c}, At(d, "answered")
        PROVE  /\ Filed(d) # None => Filed(d)' = Filed(d)
               /\ Filed(d) = None /\ RequestOf(d).op # "create" /\ Outdated(d) =>
                      Filed(d)' = None /\ Outdated(d)'
    <2>1. /\ RequestOf(d)' = RequestOf(d) /\ RequestOf(d) \in Request /\ calls[d] # None
          /\ RequestOf(d).key \in Key
      BY <1>4, <1>7, <1>t, FiledIsTyped, RequestFacts DEF RequestOf, At
    <2>2. RequestOf(d).key # RequestOf(c).key => Filed(d)' = Filed(d)
      BY <1>2, <2>1 DEF Filed
    <2>3. ASSUME RequestOf(d).op # "create", Outdated(d), RequestOf(d).key = RequestOf(c).key
          PROVE  FALSE
      <3>1. Fingerprint(RequestOf(d)) = Fingerprint(RequestOf(c))
        BY <1>c, <1>t, <2>1, <2>3 DEF KeysAgree, Agreed
      <3>2. RequestOf(c).op # "create" /\ RequestOf(c).expected = RequestOf(d).expected
        BY <1>c, <2>1, <2>3, <3>1, FingerprintFacts
      <3>3. RequestOf(c).material = Document
        BY <1>c, <1>t, <3>2 DEF CallsKnown
      <3>4. Live(Document) /\ Current(Document) = RequestOf(c).expected
        BY <1>c, <1>t, <3>2, <3>3 DEF MaterialsInv, HoldersChecked
      <3>5. QED
        BY <2>3, <3>2, <3>4 DEF Outdated
    <2>4. ASSUME RequestOf(d).op # "create", Outdated(d) PROVE Outdated(d)'
      <3>1. /\ materials'[Document] # None /\ materials[Document] # None
            /\ \/ materials'[Document] = materials[Document]
               \/ Live(Document) /\ materials'[Document].deleted
               \/ Live(Document) /\ revisions[materials'[Document].current] = None
        BY <1>t, CommitMoves, ConstantsOK DEF CallsKnown
      <3>2. revisions[RequestOf(d).expected] # None
        BY <1>t, <2>1, <2>4 DEF CallsKnown, Known
      <3>3. QED
        BY <2>1, <2>4, <3>1, <3>2 DEF Outdated, Live, Current
    <2>5. Filed(d) # None => RequestOf(d).key # RequestOf(c).key
      BY <1>c DEF Filed
    <2>6. QED
      BY <2>2, <2>3, <2>4, <2>5
  <1>8. SUFFICES ASSUME NEW d \in Call, At(d, "answered")'
                 PROVE  /\ calls'[d].reply \in Replies /\ calls'[d].reply.kind # "conflict"
                        /\ calls'[d].reply.kind = "saved" =>
                               Filed(d)' # None /\ Filed(d)'.revision = calls'[d].reply.revision
                        /\ calls'[d].reply.kind \in {"revision_conflict", "not_found"} =>
                               /\ Filed(d)' = None /\ RequestOf(d)'.op # "create"
                               /\ Outdated(d)'
    BY DEF AnswersLast
  <1>9. CASE d = c
    BY <1>5, <1>6, <1>8, <1>9
  <1>10. CASE d # c
    <2>1. At(d, "answered") /\ calls'[d] = calls[d] /\ RequestOf(d)' = RequestOf(d)
      BY <1>4, <1>8, <1>10 DEF At, RequestOf
    <2>2. /\ calls[d].reply \in Replies /\ calls[d].reply.kind # "conflict"
          /\ calls[d].reply.kind = "saved" =>
                 Filed(d) # None /\ Filed(d).revision = calls[d].reply.revision
          /\ calls[d].reply.kind \in {"revision_conflict", "not_found"} =>
                 Filed(d) = None /\ RequestOf(d).op # "create" /\ Outdated(d)
      BY <1>t, <2>1 DEF AnswersLast
    <2>3. QED
      BY <1>7, <1>10, <2>1, <2>2
  <1>11. QED
    BY <1>9, <1>10

\* An answer without a commit has a reason that lasts.
LEMMA QuietAnswers ==
  ASSUME DocumentsInv, NEW c \in Call, Serve(c), ~Commit(c)
  PROVE  UNCHANGED rows /\ AnswersLast' /\ (At(c, "locking")' => RequestOf(c).op # "create")
  <1>t. /\ MaterialsInv /\ MaterialsTypeOK /\ AnswersLast /\ CallsKnown
        /\ calls \in [Call -> CallRow \cup {None}]
    BY DEF DocumentsInv, MaterialsInv, MaterialsTypeOK
  <1>1. /\ calls[c] # None /\ UNCHANGED rows
        /\ \/ \E step \in {"writing", "lost"} : Continue(c, step)
           \/ Continue(c, "locking") /\ RequestOf(c).op # "create"
           \/ \E reply : Reason(c, reply) /\ Answer(c, reply)
    BY <1>t, ServeMoves
  <1>2. calls[c] \in CallRow /\ RequestOf(c) \in Request
    BY <1>1, <1>t, FiledIsTyped
  <1>3. \A d \in Call : RequestOf(d)' = RequestOf(d) /\ Filed(d)' = Filed(d)
                        /\ (Outdated(d)' <=> Outdated(d))
    <2>1. \A d \in Call : calls'[d].request = calls[d].request
      BY ServeSpares
    <2>2. QED
      BY <1>1, <2>1 DEF RequestOf, Filed, Outdated, Live, Current, rows
  <1>4. ASSUME At(c, "answered")'
        PROVE  Reason(c, calls'[c].reply)
    <2>1. ASSUME NEW step \in {"writing", "lost", "locking"}, Continue(c, step)
          PROVE  FALSE
      BY <1>2, <1>4, <1>t, <2>1 DEF Continue, At, CallRow
    <2>2. PICK reply : Reason(c, reply) /\ Answer(c, reply)
      BY <1>1, <2>1
    <2>3. calls'[c].reply = reply
      BY <1>2, <1>t, <2>2 DEF Answer, CallRow
    <2>4. QED
      BY <2>2, <2>3
  <1>5. At(c, "locking")' => RequestOf(c).op # "create"
    <2>1. ASSUME NEW step \in {"writing", "lost"}, Continue(c, step)
          PROVE  ~At(c, "locking")'
      BY <1>2, <1>t, <2>1 DEF Continue, At, CallRow
    <2>2. ASSUME NEW reply, Answer(c, reply)
          PROVE  ~At(c, "locking")'
      BY <1>2, <1>t, <2>2 DEF Answer, At, CallRow
    <2>3. QED
      BY <1>1, <2>1, <2>2
  <1>6. ASSUME NEW reply, Reason(c, reply)
        PROVE  /\ reply \in Replies /\ reply.kind # "conflict"
               /\ reply.kind = "saved" => Filed(c) # None /\ Filed(c).revision = reply.revision
               /\ reply.kind \in {"revision_conflict", "not_found"} =>
                      Filed(c) = None /\ RequestOf(c).op # "create" /\ Outdated(c)
    <2>0. reply \in Replies
      BY <1>1, <1>6, <1>t, ReasonIsReply
    <2>1. CASE Filed(c) # None /\ reply = ReplayOf(c)
      <3>1. reply = Saved(Filed(c).material, Filed(c).revision)
        BY <1>1, <2>1, FiledIsOwn
      <3>2. reply.kind = "saved" /\ reply.revision = Filed(c).revision
        BY <3>1 DEF Saved
      <3>3. QED
        BY <2>0, <2>1, <3>2
    <2>2. CASE reply = Refused("unavailable")
      BY <2>0, <2>2 DEF Refused
    <2>3. CASE /\ Filed(c) = None /\ At(c, "locking")
               /\ \/ reply = Refused("not_found") /\ ~Live(RequestOf(c).material)
                  \/ /\ reply = Refused("revision_conflict")
                     /\ Current(RequestOf(c).material) # RequestOf(c).expected
      <3>1. RequestOf(c).op # "create" /\ RequestOf(c).material = Document
        BY <1>1, <1>t, <2>3 DEF CallsKnown
      <3>2. reply.kind \in {"not_found", "revision_conflict"}
        BY <2>3 DEF Refused
      <3>3. QED
        BY <2>0, <2>3, <3>1, <3>2 DEF Outdated
    <2>4. QED
      BY <1>6, <2>1, <2>2, <2>3 DEF Reason
  <1>7. AnswersLast'
    <2>1. ASSUME NEW d \in Call, At(d, "answered")'
          PROVE  /\ calls'[d].reply \in Replies /\ calls'[d].reply.kind # "conflict"
                 /\ calls'[d].reply.kind = "saved" =>
                        Filed(d)' # None /\ Filed(d)'.revision = calls'[d].reply.revision
                 /\ calls'[d].reply.kind \in {"revision_conflict", "not_found"} =>
                        /\ Filed(d)' = None /\ RequestOf(d)'.op # "create"
                        /\ Outdated(d)'
      <3>1. CASE d = c
        <4>1. Reason(c, calls'[c].reply)
          BY <1>4, <2>1, <3>1
        <4>2. QED
          BY <1>3, <1>6, <3>1, <4>1
      <3>2. CASE d # c
        <4>1. calls'[d] = calls[d]
          BY <3>2, ServeSpares
        <4>2. At(d, "answered")
          BY <2>1, <4>1 DEF At
        <4>3. QED
          BY <1>3, <1>t, <4>1, <4>2 DEF AnswersLast
      <3>3. QED
        BY <3>1, <3>2
    <2>2. QED
      BY <2>1 DEF AnswersLast
  <1>8. QED
    BY <1>1, <1>5, <1>7

LEMMA ServeKeeps ==
  ASSUME DocumentsInv, NEW c \in Call, Serve(c), UNCHANGED tabVars
  PROVE  DocumentsInv'
  <1>t. /\ MaterialsInv /\ DocumentsTypeOK /\ KeysAgree /\ CallsKnown /\ AnswersLast /\ ScreensOK
        /\ MaterialsTypeOK
    BY DEF DocumentsInv, MaterialsInv
  <1>1. UNCHANGED <<tabs, drawn, based, sent>>
    BY DEF tabVars
  <1>2. /\ calls[c] # None /\ calls[c].step # "answered"
        /\ \A d \in Call \ {c} : calls'[d] = calls[d]
        /\ calls'[c] # None /\ calls'[c].request = calls[c].request
        /\ \A q \in Revision : revisions[q] # None => revisions'[q] = revisions[q]
        /\ materials'[Document] # None
    BY ServeSpares
  <1>3. /\ \A d \in Call : RequestOf(d)' = RequestOf(d) /\ (calls'[d] # None <=> calls[d] # None)
        /\ \A q \in Revision : Known(q) => Known(q)'
        /\ \A q, s \in Revision : Known(q) /\ Known(s) /\ NotBefore(q, s) => NotBefore(q, s)'
    BY <1>2 DEF RequestOf, Known, NotBefore
  <1>4. MaterialsInv'
    <2>1. MaterialsNext
      BY DEF MaterialsNext
    <2>2. QED
      BY <1>t, <2>1, StepKeeps
  <1>5. DocumentsTypeOK'
    BY <1>1, <1>3, <1>t DEF DocumentsTypeOK
  <1>6. KeysAgree'
    <2>1. PICK use : Agreed(use)
      BY <1>t DEF KeysAgree
    <2>2. /\ RequestOf(c) \in Request /\ RequestOf(c).key \in Key /\ RequestOf(c).key \in drawn
          /\ use[RequestOf(c).key] = Fingerprint(RequestOf(c))
      BY <1>2, <1>t, <2>1, FiledIsTyped, RequestFacts DEF DocumentsTypeOK, Agreed
    <2>3. ASSUME NEW k \in Key, receipts'[k] # None
          PROVE  use[k] = receipts'[k].fingerprint /\ k \in drawn
      <3>1. CASE receipts'[k] = receipts[k]
        BY <1>t, <2>1, <2>3, <3>1 DEF Agreed, KeysAgree
      <3>2. CASE receipts'[k] # receipts[k]
        <4>1. Commit(c)
          BY <3>2, QuietAnswers DEF rows
        <4>2. PICK m \in Material, r \in Revision : FileReceipt(c, m, r)
          BY <1>t, <4>1, CommitMoves
        <4>3. k = RequestOf(c).key /\ receipts'[k] = [fingerprint |-> Fingerprint(RequestOf(c)),
                                                      material |-> m, revision |-> r]
          BY <1>t, <3>2, <4>1, <4>2, ReceiptsAfterCommit DEF Commit
        <4>4. QED
          BY <2>2, <4>3
      <3>3. QED
        BY <3>1, <3>2
    <2>4. Agreed(use)'
      <3>1. \A t \in Tab : FormOf(t)' = FormOf(t)
        BY <1>1 DEF FormOf
      <3>2. \A d \in Call : calls'[d] # None =>
                use[RequestOf(d)'.key] = Fingerprint(RequestOf(d)')
        BY <1>3, <2>1 DEF Agreed
      <3>3. \A t \in Tab : FormOf(t)' # None /\ FormOf(t)'.key # None =>
                use[FormOf(t)'.key] = Fingerprint(Asked(FormOf(t)'))
        BY <2>1, <3>1 DEF Agreed
      <3>4. QED
        BY <2>3, <3>2, <3>3 DEF Agreed, Fingerprint, Asked
    <2>5. QED
      BY <1>1, <2>3, <2>4 DEF KeysAgree
  <1>7. CallsKnown'
    <2>1. ASSUME NEW d \in Call, calls'[d] # None, RequestOf(d)'.op # "create"
          PROVE  /\ RequestOf(d)'.material = Document /\ Known(RequestOf(d).expected)'
                 /\ based'[d] = RequestOf(d)'.expected
      <3>1. /\ RequestOf(d).material = Document /\ Known(RequestOf(d).expected)
            /\ based[d] = RequestOf(d).expected /\ RequestOf(d).expected \in Revision
        BY <1>3, <1>t, <2>1 DEF CallsKnown, Known
      <3>2. revisions'[RequestOf(d).expected] = revisions[RequestOf(d).expected]
        BY <1>2, <3>1 DEF Known
      <3>3. QED
        BY <1>1, <1>3, <3>1, <3>2 DEF Known
    <2>2. ASSUME NEW d \in Call, At(d, "locking")' PROVE RequestOf(d)'.op # "create"
      <3>1. CASE d # c
        BY <1>2, <1>3, <1>t, <2>2, <3>1 DEF CallsKnown, At
      <3>2. CASE d = c
        <4>1. ASSUME Commit(c) PROVE ~At(c, "locking")'
          <5>1. PICK m \in Material, r \in Revision : FileReceipt(c, m, r)
            BY <1>t, <4>1, CommitMoves
          <5>2. Answer(c, Saved(m, r)) /\ Saved(m, r) \in Replies
            BY <5>1 DEF FileReceipt, Saved, Replies
          <5>3. calls'[c].step = "answered"
            BY <1>2, <1>t, <5>2, AnswerIsTyped
          <5>4. QED
            BY <5>3 DEF At
        <4>2. QED
          BY <1>3, <2>2, <3>2, <4>1, QuietAnswers
      <3>3. QED
        BY <3>1, <3>2
    <2>3. QED
      BY <1>2, <2>1, <2>2 DEF CallsKnown
  <1>8. AnswersLast'
    BY CommitAnswers, QuietAnswers
  <1>9. ScreensOK'
    <2>1. ASSUME NEW t \in Tab PROVE ScreenOK(t, tabs[t])'
      <3>1. tabs'[t] = tabs[t] /\ tabs[t] \in Screen /\ ScreenOK(t, tabs[t])
        BY <1>1, FormFacts
      <3>2. ASSUME tabs[t].form # None PROVE FormOK(t, tabs[t].form)'
        <4>1. FormOK(t, tabs[t].form) /\ tabs[t].form \in Form
          BY <3>1, <3>2 DEF ScreenOK, Screen
        <4>2. ASSUME tabs[t].form.call # None
              PROVE  calls'[tabs[t].form.call] # None
                     /\ calls'[tabs[t].form.call].request = RequestOf(tabs[t].form.call)
          <5>1. tabs[t].form.call \in Call /\ calls[tabs[t].form.call] # None
            BY <4>1, <4>2 DEF Form, FormOK
          <5>2. QED
            BY <1>2, <5>1 DEF RequestOf
        <4>3. /\ \A q \in Revision : Known(q) =>
                     /\ revisions'[q] # None /\ revisions'[q].material = Document
          BY <1>2 DEF Known
        <4>4. QED
          BY <1>1, <3>1, <4>1, <4>2, <4>3 DEF FormOK, Known, Asked, RequestOf
      <3>3. /\ \A q \in Revision : Known(q) =>
                   /\ revisions'[q] # None /\ revisions'[q].material = Document
                   /\ revisions'[q].number = revisions[q].number
        BY <1>2 DEF Known
      <3>4. QED
        BY <3>1, <3>2, <3>3 DEF ScreenOK, Known, NotBefore
    <2>2. QED
      BY <2>1 DEF ScreensOK
  <1>10. QED
    BY <1>4, <1>5, <1>6, <1>7, <1>8, <1>9 DEF DocumentsInv

-----------------------------------------------------------------------------
(* What users of the browser can rely on *)

LEMMA DocumentsStep ==
  DocumentsInv /\ [DocumentsNext]_documentsVars => DocumentsInv'
  <1> SUFFICES ASSUME DocumentsInv, [DocumentsNext]_documentsVars PROVE DocumentsInv'
    OBVIOUS
  <1>1. ASSUME NEW t \in Tab, Use(t) PROVE DocumentsInv'
    <2>1. CASE OpenEditor(t) \/ OpenDialog(t) \/ Reload(t)
      BY <2>1, OpeningKeeps
    <2>2. CASE (\E body \in Typed : Type(t, body)) \/ Cancel(t) \/ LoseConnection(t)
      BY <2>2, EditingKeeps
    <2>3. CASE RecoverDelete(t) \/ Refetch(t) \/ FetchArrives(t) \/ FetchFails(t)
      BY <2>3, ReadingKeeps
    <2>4. CASE \E c \in Call : Save(t, c) \/ ConfirmDelete(t, c)
      BY <2>4, SendKeeps
    <2>5. QED
      BY <1>1, <2>1, <2>2, <2>3, <2>4 DEF Use
  <1>2. CASE UNCHANGED documentsVars
    <2>1. UNCHANGED <<materials, revisions, chunks, receipts, calls, tabs, drawn, based, sent>>
      BY <1>2 DEF documentsVars, materialsVars, tabVars
    <2>2. MaterialsInv'
      <3>1. UNCHANGED materialsVars
        BY <2>1 DEF materialsVars
      <3>2. QED
        BY <3>1, StepKeeps DEF DocumentsInv
    <2>3. DocumentsTypeOK' /\ CallsKnown' /\ AnswersLast'
      BY <2>1 DEF DocumentsInv, DocumentsTypeOK, CallsKnown, AnswersLast, At, Filed, RequestOf,
                  Outdated, Live, Current, Known
    <2>4. KeysAgree'
      BY <2>1 DEF DocumentsInv, KeysAgree, Agreed, FormOf, RequestOf
    <2>5. ScreensOK'
      BY <2>1 DEF DocumentsInv, ScreensOK, ScreenOK, FormOK, Known, NotBefore, RequestOf
    <2>6. QED
      BY <2>2, <2>3, <2>4, <2>5 DEF DocumentsInv
  <1>3. ASSUME NEW c \in Call, Elsewhere(c) \/ Deliver(c) \/ (Serve(c) /\ UNCHANGED tabVars)
        PROVE  DocumentsInv'
    BY <1>3, ElsewhereKeeps, DeliverKeeps, ServeKeeps
  <1>4. QED
    BY <1>1, <1>2, <1>3 DEF DocumentsNext

\* What the browser and the API keep true between them.
THEOREM DocumentsInvariance == DocumentsSpec => []DocumentsInv
  BY DocumentsInitOK, DocumentsStep, PTL DEF DocumentsSpec

(* What the tabs send happens as a whole or not at all and at most once,    *)
(* also with everything they repeat.                                        *)
THEOREM TabsRequestsHappenOnce == DocumentsSpec => []RequestsAreAtomic
  <1>1. DocumentsInv => RequestsAreAtomic
    BY InvariantIsAtomic DEF DocumentsInv
  <1>2. QED
    BY <1>1, DocumentsInvariance, PTL

(* A form may be submitted again after any failure: its repetitions are     *)
(* carried out once, the one that finds this done is told so, and no key is *)
(* ever refused as another request's.                                       *)
THEOREM FormsMayRepeat == DocumentsSpec => []FormsRepeatSafely
  <1>1. ASSUME DocumentsInv PROVE KeysNameOneRequest
    BY <1>1 DEF DocumentsInv, AnswersLast, KeysNameOneRequest
  <1>2. ASSUME DocumentsInv, NEW t \in Tab, Open(t)
        PROVE  LET done == {k \in FormOf(t).series : receipts[k] # None}
                   c == FormOf(t).call
               IN  /\ Cardinality(done) <= 1
                   /\ done # {} /\ c # None /\ At(c, "answered")
                       => calls[c].reply.kind \in {"saved", "unavailable"}
    <2> DEFINE done == {k \in FormOf(t).series : receipts[k] # None}
               c == FormOf(t).call
    <2>1. FormOf(t) \in Form /\ FormOK(t, FormOf(t))
      BY <1>2, FormFacts DEF Open
    <2>2. /\ FormOf(t).key = None => done = {}
          /\ FormOf(t).key # None => done \in {{}, {FormOf(t).key}}
      BY <2>1 DEF FormOK
    <2>3. Cardinality(done) <= 1
      <3>1. done = {} => Cardinality(done) = 0
        BY FS_EmptySet
      <3>2. done = {FormOf(t).key} => Cardinality(done) = 1
        BY FS_Singleton
      <3>3. QED
        BY <2>2, <3>1, <3>2
    <2>4. ASSUME done # {}, c # None, At(c, "answered")
          PROVE  calls[c].reply.kind \in {"saved", "unavailable"}
      <3>1. receipts[FormOf(t).key] # None
        BY <2>2, <2>4
      <3>2. c \in Call /\ RequestOf(c).key = FormOf(t).key
        BY <2>1, <2>4 DEF Form, FormOK, Asked
      <3>3. Filed(c) # None
        BY <3>1, <3>2 DEF Filed
      <3>4. /\ calls[c].reply \in Replies
            /\ calls[c].reply.kind \notin {"conflict", "revision_conflict", "not_found"}
        BY <1>2, <2>4, <3>2, <3>3 DEF DocumentsInv, AnswersLast
      <3>5. calls[c].reply.kind \in {"saved"} \cup Refusals
        BY <3>4 DEF Replies
      <3>6. QED
        BY <3>4, <3>5 DEF Refusals
    <2>5. QED
      BY <2>3, <2>4
  <1>3. DocumentsInv => FormsRepeatSafely
    BY <1>1, <1>2 DEF DocumentsInv, FormsRepeatSafely, RepeatingCountsOnce
  <1>4. QED
    BY <1>3, DocumentsInvariance, PTL

(* After a saved edit a tab without an open form shows that revision or a   *)
(* later one, or a warning that its last read failed, whatever reads were   *)
(* under way.                                                               *)
THEOREM SavedEditIsShown == DocumentsSpec => []OwnSaveIsShown
  <1>1. DocumentsInv => OwnSaveIsShown
    BY DEF DocumentsInv, ScreensOK, ScreenOK, NotBefore, OwnSaveIsShown, FormOf, Tab
  <1>2. QED
    BY <1>1, DocumentsInvariance, PTL

\* Only a call that commits changes a row of materials, its own.
LEMMA ChangeIsCommit ==
  ASSUME DocumentsInv, DocumentsNext, NEW m \in Material,
         materials[m] # None, materials'[m] # materials[m]
  PROVE  \E c \in Call : /\ Serve(c) /\ Commit(c)
                         /\ RequestOf(c).op # "create" /\ RequestOf(c).material = m
  <1>1. ASSUME NEW t \in Tab, Use(t) PROVE materials' = materials
    <2>1. ASSUME NEW screen, OnlyTab(t, screen) PROVE materials' = materials
      BY <2>1 DEF OnlyTab, materialsVars
    <2>2. ASSUME NEW c \in Call, Save(t, c) \/ ConfirmDelete(t, c) PROVE materials' = materials
      BY <2>2 DEF Save, ConfirmDelete, Send, rows
    <2>3. QED
      BY <1>1, <2>1, <2>2 DEF Use, OpenEditor, OpenDialog, Cancel, Type, LoseConnection, Reload,
                              RecoverDelete, Refetch, FetchArrives, FetchFails
  <1>2. ASSUME NEW c \in Call, Elsewhere(c) \/ Deliver(c) PROVE materials' = materials
    BY <1>2 DEF Elsewhere, Deliver, rows
  <1>3. PICK c \in Call : Serve(c)
    BY <1>1, <1>2 DEF DocumentsNext
  <1>4. Commit(c)
    BY <1>3, QuietAnswers DEF rows
  <1>5. QED
    BY <1>3, <1>4, CommitMoves DEF DocumentsInv

(* A document changes only under a call whose user had the replaced         *)
(* revision before them.                                                    *)
THEOREM OverwritersHaveSeen == DocumentsSpec => NobodyOverwritesUnseen
  <1>1. ASSUME DocumentsInv, [DocumentsNext]_documentsVars, NEW m \in Material,
               materials[m] # None, materials'[m] # materials[m]
        PROVE  \E c \in Call :
                   /\ At(c, "writing") /\ calls'[c].step = "answered"
                   /\ based[c] = Current(m)
    <2>1. DocumentsNext
      BY <1>1 DEF documentsVars, materialsVars
    <2>2. PICK c \in Call : /\ Serve(c) /\ Commit(c)
                            /\ RequestOf(c).op # "create" /\ RequestOf(c).material = m
      BY <1>1, <2>1, ChangeIsCommit
    <2>3. At(c, "writing") /\ calls[c] # None
      BY <2>2 DEF Commit, At
    <2>4. Current(m) = RequestOf(c).expected /\ based[c] = RequestOf(c).expected
      BY <1>1, <2>2, <2>3 DEF DocumentsInv, CallsKnown, MaterialsInv, HoldersChecked
    <2>5. calls'[c].step = "answered"
      <3>1. PICK n \in Material, r \in Revision : Answer(c, Saved(n, r))
        BY <1>1, <2>2, CommitMoves DEF FileReceipt, DocumentsInv
      <3>2. Saved(n, r) \in Replies
        BY DEF Saved, Replies
      <3>3. QED
        BY <1>1, <2>3, <3>1, <3>2, AnswerIsTyped DEF DocumentsInv, MaterialsInv
    <2>6. QED
      BY <2>3, <2>4, <2>5
  <1>2. DocumentsInv /\ [DocumentsNext]_documentsVars =>
            [\A m \in Material : materials[m] # None /\ materials'[m] # materials[m] =>
                \E c \in Call :
                    /\ At(c, "writing") /\ calls'[c].step = "answered"
                    /\ based[c] = Current(m)
            ]_documentsVars
    BY <1>1
  <1>3. QED
    BY <1>2, DocumentsInvariance, PTL DEF DocumentsSpec, NobodyOverwritesUnseen

(* A form that is told its text was saved holds the text of the revision it *)
(* is told about.                                                           *)
THEOREM ReportedIsStored == DocumentsSpec => ReportedTextIsStored
  <1>1. ASSUME DocumentsInv, NEW t \in Tab, NEW c \in Call, Open(t), FormOf(t).kind # "delete",
               FormOf(t).call = c, At(c, "answered"), calls[c].reply.kind = "saved"
        PROVE  revisions[calls[c].reply.revision].content = Prepare(FormOf(t).draft)
    <2>1. FormOf(t) \in Form /\ FormOK(t, FormOf(t))
      BY <1>1, FormFacts DEF Open
    <2>2. /\ RequestOf(c) = Asked(FormOf(t)) /\ FormOf(t).request.draft = FormOf(t).draft
          /\ calls[c] # None
      BY <1>1, <2>1, MaterialsAssumption DEF FormOK
    <2>3. RequestOf(c).draft = FormOf(t).draft /\ RequestOf(c).op # "delete"
      BY <1>1, <2>2 DEF Asked
    <2>4. Filed(c) # None /\ Filed(c).revision = calls[c].reply.revision
      BY <1>1 DEF DocumentsInv, AnswersLast
    <2>5. QED
      BY <1>1, <2>2, <2>3, <2>4, FiledIsOwn
  <1>2. DocumentsInv =>
            [\A t \in Tab, c \in Call :
                /\ Open(t) /\ FormOf(t).kind # "delete" /\ FormOf(t).call = c
                /\ At(c, "answered") /\ calls'[c] = None /\ calls[c].reply.kind = "saved"
                => revisions[calls[c].reply.revision].content = Prepare(FormOf(t).draft)
            ]_documentsVars
    BY <1>1
  <1>3. QED
    BY <1>2, DocumentsInvariance, PTL DEF ReportedTextIsStored

(* What a tab sends again is not refused once it has been carried out,      *)
(* wherever the attempts overlap.                                           *)
THEOREM TabsRepetitionIsAnswered == DocumentsSpec => RepeatedRequestIsNotRefused
  <1>1. ASSUME DocumentsInv, [DocumentsNext]_documentsVars, NEW c \in Call,
               calls[c] # None, calls[c].step # "answered",
               Filed(c) # None, Filed(c).fingerprint = Fingerprint(RequestOf(c)),
               calls'[c] # None, calls'[c].step = "answered"
        PROVE  calls'[c].reply \in
                   {Saved(Filed(c).material, Filed(c).revision), Refused("unavailable")}
    <2>1. calls \in [Call -> CallRow \cup {None}]
      BY <1>1 DEF DocumentsInv, MaterialsInv, MaterialsTypeOK
    <2>2. ASSUME NEW t \in Tab, Use(t) PROVE FALSE
      <3>1. ASSUME NEW screen, OnlyTab(t, screen) PROVE FALSE
        BY <1>1, <3>1 DEF OnlyTab, materialsVars
      <3>2. ASSUME NEW d \in Call, Save(t, d) \/ ConfirmDelete(t, d) PROVE FALSE
        BY <1>1, <2>1, <3>2 DEF Save, ConfirmDelete, Send, Arrive
      <3>3. QED
        BY <2>2, <3>1, <3>2 DEF Use, OpenEditor, OpenDialog, Cancel, Type, LoseConnection,
                                Reload, RecoverDelete, Refetch, FetchArrives, FetchFails
    <2>3. ASSUME NEW d \in Call, Elsewhere(d) PROVE FALSE
      BY <1>1, <2>1, <2>3 DEF Elsewhere, Arrive
    <2>4. ASSUME NEW d \in Call, Deliver(d) PROVE FALSE
      BY <1>1, <2>1, <2>4 DEF Deliver, Leave
    <2>5. DocumentsNext
      BY <1>1 DEF documentsVars, materialsVars
    <2>6. PICK d \in Call : Serve(d)
      BY <2>2, <2>3, <2>4, <2>5 DEF DocumentsNext
    <2>7. MaterialsNext
      BY <2>6 DEF MaterialsNext
    <2>8. QED
      BY <1>1, <2>7, RepetitionStep DEF DocumentsInv
  <1>2. DocumentsInv /\ [DocumentsNext]_documentsVars =>
            [\A c \in Call :
                /\ calls[c] # None /\ calls[c].step # "answered"
                /\ Filed(c) # None /\ Filed(c).fingerprint = Fingerprint(RequestOf(c))
                /\ calls'[c] # None /\ calls'[c].step = "answered"
                => calls'[c].reply \in
                      {Saved(Filed(c).material, Filed(c).revision), Refused("unavailable")}
            ]_materialsVars
    BY <1>1
  <1>3. QED
    BY <1>2, DocumentsInvariance, PTL DEF DocumentsSpec, RepeatedRequestIsNotRefused

-----------------------------------------------------------------------------
(* Bodies and their chunks.  The functions that ChunkBody and the property *)
(* define by recursion exist and are what their equations say.             *)

Text == Seq(STRING)

Cuts(body, from) ==
    from = [start \in 0..Len(body) |->
               IF start = Len(body) THEN <<>>
               ELSE LET end == CutAfter(body, start)
                    IN  <<SubSeq(body, start + 1, end)>> \o from[end]]

Joins(parts, joined) ==
    joined = [n \in 0..Len(parts) |-> IF n = 0 THEN <<>> ELSE joined[n - 1] \o parts[n]]

LEMMA ChunksAreCuts ==
  ASSUME NEW body
  PROVE  ChunkBody(body) = (CHOOSE from : Cuts(body, from))[0]
  BY DEF ChunkBody, Cuts

\* A chunk is not empty, not too long, and does not end within a surrogate pair.
LEMMA CutFacts ==
  ASSUME NEW body \in Text, NEW start \in 0..(Len(body) - 1)
  PROVE  /\ CutAfter(body, start) \in (start + 1)..Len(body)
         /\ CutAfter(body, start) - start \in 1..ChunkSize
         /\ CutAfter(body, start) < Len(body) =>
                ~(/\ body[CutAfter(body, start)] = "high"
                  /\ body[CutAfter(body, start) + 1] = "low")
  <1> DEFINE L == Len(body)
             end == IF start + ChunkSize < L THEN start + ChunkSize ELSE L
  <1>1. L \in Nat /\ ChunkSize \in Nat /\ ChunkSize >= 2 /\ start \in Nat /\ start < L
    BY MaterialsAssumption DEF Text
  <1>2. CutAfter(body, start) = IF end < L /\ body[end] = "high" THEN end - 1 ELSE end
    BY DEF CutAfter
  <1>3. /\ end \in Nat /\ end <= L /\ end > start /\ end - start <= ChunkSize
        /\ end < L => end = start + ChunkSize
    BY <1>1
  <1> HIDE DEF L, end
  <1>4. CASE end < L /\ body[end] = "high"
    <2>1. CutAfter(body, start) = end - 1
      BY <1>2, <1>4
    <2>2. end - 1 + 1 = end
      BY <1>3
    <2>3. body[end] # "low"
      BY <1>4
    <2>4. end - 1 >= start + 1 /\ end - 1 <= L /\ end - 1 - start <= ChunkSize
      BY <1>1, <1>3, <1>4
    <2>5. QED
      BY <1>1, <1>3, <2>1, <2>2, <2>3, <2>4 DEF L
  <1>5. CASE ~(end < L /\ body[end] = "high")
    <2>1. CutAfter(body, start) = end
      BY <1>2, <1>5
    <2>2. QED
      BY <1>1, <1>3, <1>5, <2>1 DEF L
  <1>6. QED
    BY <1>4, <1>5

LEMMA CutsExist ==
  ASSUME NEW body \in Text
  PROVE  \E from : Cuts(body, from)
  <1> DEFINE L == Len(body)
             Next(start) == CutAfter(body, start)
             Part(k, f) ==
                 f = [start \in (L - k)..L |->
                         IF start = L THEN <<>>
                         ELSE <<SubSeq(body, start + 1, Next(start))>> \o f[Next(start)]]
             Q == {k \in 0..L : \E f : Part(k, f)}
  <1>1. L \in Nat /\ \A start \in 0..(L - 1) : Next(start) \in (start + 1)..L
    BY CutFacts DEF Text
  <1> HIDE DEF L, Next, Part
  <1>2. 0 \in Q
    <2> DEFINE f == [start \in L..L |-> <<>>]
    <2>1. f = [start \in (L - 0)..L |->
                  IF start = L THEN <<>>
                  ELSE <<SubSeq(body, start + 1, Next(start))>> \o f[Next(start)]]
      BY <1>1
    <2>2. Part(0, f)
      BY <2>1 DEF Part
    <2> HIDE DEF f
    <2>3. QED
      BY <1>1, <2>2
  <1>3. ASSUME NEW k \in 0..(L - 1), k \in Q
        PROVE  k + 1 \in Q
    <2>1. PICK f : Part(k, f)
      BY <1>3
    <2> DEFINE start0 == L - (k + 1)
               g == [start \in start0..L |->
                        IF start = start0
                        THEN <<SubSeq(body, start + 1, Next(start))>> \o f[Next(start)]
                        ELSE f[start]]
    <2>2. /\ start0 \in 0..(L - 1) /\ start0 # L
          /\ \A start \in start0..L : start # start0 => start \in (L - k)..L
          /\ \A start \in start0..L : start # L => Next(start) \in (L - k)..L
          /\ \A start \in (L - k)..L : start # start0 /\ start \in start0..L
      BY <1>1, <1>3
    <2>3. \A start \in (L - k)..L : g[start] = f[start]
      BY <2>2
    <2>4. \A start \in (L - k)..L :
              f[start] = IF start = L THEN <<>>
                         ELSE <<SubSeq(body, start + 1, Next(start))>> \o f[Next(start)]
      BY <2>1 DEF Part
    <2>5. \A start \in start0..L :
              g[start] = IF start = L THEN <<>>
                         ELSE <<SubSeq(body, start + 1, Next(start))>> \o g[Next(start)]
      <3>1. ASSUME NEW start \in start0..L
            PROVE  g[start] = IF start = L THEN <<>>
                              ELSE <<SubSeq(body, start + 1, Next(start))>> \o g[Next(start)]
        <4>1. CASE start = start0
          <5>1. g[start] = <<SubSeq(body, start + 1, Next(start))>> \o f[Next(start)]
            BY <4>1
          <5>2. g[Next(start)] = f[Next(start)] /\ start # L
            BY <2>2, <2>3, <4>1
          <5>3. QED
            BY <5>1, <5>2
        <4>2. CASE start # start0
          <5>1. start \in (L - k)..L
            BY <2>2, <4>2
          <5>2. start # L => g[Next(start)] = f[Next(start)]
            BY <2>2, <2>3
          <5> HIDE DEF g
          <5>3. QED
            BY <2>3, <2>4, <5>1, <5>2
        <4>3. QED
          BY <4>1, <4>2
      <3>2. QED
        BY <3>1
    <2>6. Part(k + 1, g)
      BY <2>5 DEF Part
    <2> HIDE DEF g
    <2>7. k + 1 \in 0..L
      BY <1>1, <1>3
    <2>8. QED
      BY <2>6, <2>7
  <1>4. \A k \in 0..L : k \in Q
    <2> HIDE DEF Q
    <2>1. QED
      BY <1>1, <1>2, <1>3, CountingUp
  <1>5. PICK f : Part(L, f)
    BY <1>1, <1>4
  <1>6. f = [start \in 0..L |->
                IF start = L THEN <<>>
                ELSE <<SubSeq(body, start + 1, Next(start))>> \o f[Next(start)]]
    <2>1. L - L = 0
      BY <1>1
    <2>2. QED
      BY <1>5, <2>1 DEF Part
  <1>7. Cuts(body, f)
    BY <1>6 DEF Cuts, L, Next
  <1>8. QED
    BY <1>7

LEMMA CutsRead ==
  ASSUME NEW body \in Text, NEW from, Cuts(body, from)
  PROVE  /\ from[Len(body)] = <<>>
         /\ \A start \in 0..(Len(body) - 1) :
                from[start] = <<SubSeq(body, start + 1, CutAfter(body, start))>>
                                  \o from[CutAfter(body, start)]
  <1>1. Len(body) \in Nat
    BY DEF Text
  <1>2. \A start \in 0..Len(body) :
            from[start] = IF start = Len(body) THEN <<>>
                          ELSE <<SubSeq(body, start + 1, CutAfter(body, start))>>
                                   \o from[CutAfter(body, start)]
    BY DEF Cuts
  <1>3. Len(body) \in 0..Len(body)
    BY <1>1
  <1>4. \A start \in 0..(Len(body) - 1) : start \in 0..Len(body) /\ start # Len(body)
    BY <1>1
  <1>5. from[Len(body)] = <<>>
    BY <1>2, <1>3
  <1>6. QED
    BY <1>2, <1>4, <1>5

LEMMA CutIsText ==
  ASSUME NEW body \in Text, NEW i \in 0..Len(body), NEW j \in 0..Len(body)
  PROVE  /\ SubSeq(body, i + 1, j) \in Text
         /\ Len(SubSeq(body, i + 1, j)) = IF i < j THEN j - i ELSE 0
         /\ \A n \in 1..(j - i) : SubSeq(body, i + 1, j)[n] = body[i + n]
  <1>1. Len(body) \in Nat /\ \A n \in (i + 1)..j : body[n] \in STRING
    BY DEF Text
  <1>2. /\ SubSeq(body, i + 1, j) \in Seq(STRING)
        /\ Len(SubSeq(body, i + 1, j)) = IF i + 1 <= j THEN j - (i + 1) + 1 ELSE 0
        /\ \A n \in 1..(j - (i + 1) + 1) : SubSeq(body, i + 1, j)[n] = body[(i + 1) + n - 1]
    BY <1>1, SubSeqProperties
  <1>3. QED
    BY <1>1, <1>2 DEF Text

LEMMA CutsAreTexts ==
  ASSUME NEW body \in Text, NEW from, Cuts(body, from)
  PROVE  \A start \in 0..Len(body) : from[start] \in Seq(Text)
  <1> DEFINE L == Len(body)
             Q == {k \in 0..L : \A start \in (L - k)..L : from[start] \in Seq(Text)}
  <1>1. L \in Nat
    BY DEF Text
  <1>2. 0 \in Q
    <2>1. from[L] \in Seq(Text)
      BY CutsRead, EmptySeq
    <2>2. QED
      BY <1>1, <2>1
  <1>3. ASSUME NEW k \in 0..(L - 1), k \in Q
        PROVE  k + 1 \in Q
    <2> DEFINE start == L - (k + 1)
               end == CutAfter(body, start)
    <2>1. start \in 0..(L - 1) /\ start \in 0..L
      BY <1>1, <1>3
    <2>2. end \in (start + 1)..L /\ end \in (L - k)..L /\ end \in 0..L
      <3>1. end \in (start + 1)..L
        BY <2>1, CutFacts
      <3>2. QED
        BY <1>1, <2>1, <3>1
    <2>3. from[end] \in Seq(Text)
      BY <1>3, <2>2
    <2>4. SubSeq(body, start + 1, end) \in Text
      BY <2>1, <2>2, CutIsText
    <2>5. from[start] = <<SubSeq(body, start + 1, end)>> \o from[end]
      BY <2>1, CutsRead
    <2>6. from[start] \in Seq(Text)
      BY <2>3, <2>4, <2>5, ConcatProperties
    <2>7. \A s \in (L - (k + 1))..L : s = start \/ s \in (L - k)..L
      BY <1>1, <1>3
    <2>8. \A s \in (L - (k + 1))..L : from[s] \in Seq(Text)
      BY <1>3, <2>6, <2>7
    <2>9. k + 1 \in 0..L
      BY <1>1, <1>3
    <2>10. QED
      BY <2>8, <2>9
  <1>4. \A k \in 0..L : k \in Q
    <2> HIDE DEF Q
    <2>1. QED
      BY <1>1, <1>2, <1>3, CountingUp
  <1>5. L \in Q
    BY <1>1, <1>4
  <1>6. QED
    BY <1>1, <1>5

\* Two sequences that begin with one element are equal part by part.
LEMMA FirstAndRest ==
  ASSUME NEW S, NEW a \in S, NEW b \in S, NEW s \in Seq(S), NEW t \in Seq(S),
         <<a>> \o s = <<b>> \o t
  PROVE  a = b /\ s = t
  <1>1. <<a>> \in Seq(S) /\ <<b>> \in Seq(S) /\ Len(<<a>>) = 1 /\ Len(<<b>>) = 1
    OBVIOUS
  <1>2. Len(s) \in Nat /\ Len(t) \in Nat
    BY LenProperties
  <1>3. /\ Len(<<a>> \o s) = 1 + Len(s)
        /\ \A i \in 1..(1 + Len(s)) : (<<a>> \o s)[i] = IF i <= 1 THEN <<a>>[i] ELSE s[i - 1]
    BY <1>1, ConcatProperties
  <1>4. /\ Len(<<b>> \o t) = 1 + Len(t)
        /\ \A i \in 1..(1 + Len(t)) : (<<b>> \o t)[i] = IF i <= 1 THEN <<b>>[i] ELSE t[i - 1]
    BY <1>1, ConcatProperties
  <1>5. Len(s) = Len(t)
    BY <1>2, <1>3, <1>4
  <1>6. a = b
    <2>1. 1 \in 1..(1 + Len(s)) /\ 1 \in 1..(1 + Len(t))
      BY <1>2
    <2>2. (<<a>> \o s)[1] = <<a>>[1] /\ (<<b>> \o t)[1] = <<b>>[1]
      BY <1>3, <1>4, <2>1
    <2>3. QED
      BY <2>2
  <1>7. ASSUME NEW i \in 1..Len(s) PROVE s[i] = t[i]
    <2>1. /\ i + 1 \in 1..(1 + Len(s)) /\ i + 1 \in 1..(1 + Len(t))
          /\ ~(i + 1 <= 1) /\ (i + 1) - 1 = i
      BY <1>2, <1>5
    <2>2. (<<a>> \o s)[i + 1] = s[i] /\ (<<b>> \o t)[i + 1] = t[i]
      BY <1>3, <1>4, <2>1
    <2>3. QED
      BY <2>2
  <1>8. s = t
    BY <1>5, <1>7, SeqEqual
  <1>9. QED
    BY <1>6, <1>8

\* The next chunk is what lies between one cut and the next.
LEMMA NextCut ==
  ASSUME NEW body \in Text, NEW from, Cuts(body, from),
         NEW s \in Seq(Text), NEW n \in 0..(Len(s) - 1), NEW p \in 0..Len(body),
         from[p] = SubSeq(s, n + 1, Len(s))
  PROVE  /\ p \in 0..(Len(body) - 1)
         /\ s[n + 1] = SubSeq(body, p + 1, CutAfter(body, p))
         /\ from[CutAfter(body, p)] = SubSeq(s, (n + 1) + 1, Len(s))
  <1> DEFINE end == CutAfter(body, p)
             rest == SubSeq(s, (n + 1) + 1, Len(s))
  <1>1. Len(body) \in Nat /\ Len(s) \in Nat /\ n \in Nat
    BY DEF Text
  <1>2. n + 1 \in 1..Len(s) /\ Len(s) \in (n + 1)..Len(s)
    BY <1>1
  <1>3. from[p] = <<s[n + 1]>> \o rest
    BY <1>2, SubSeqRecursiveFirst
  <1>4. s[n + 1] \in Text /\ rest \in Seq(Text)
    <2>1. \A i \in 1..Len(s) : s[i] \in Text
      BY <1>1
    <2>2. \A i \in ((n + 1) + 1)..Len(s) : s[i] \in Text
      BY <1>1, <2>1
    <2>3. (n + 1) + 1 \in Int /\ Len(s) \in Int
      BY <1>1
    <2>4. rest \in Seq(Text)
      BY <2>2, <2>3, SubSeqProperties
    <2>5. QED
      BY <1>2, <2>1, <2>4
  <1>5. p # Len(body)
    <2>1. <<s[n + 1]>> \in Seq(Text) /\ Len(<<s[n + 1]>>) = 1
      BY <1>4
    <2>2. Len(<<s[n + 1]>> \o rest) = 1 + Len(rest) /\ Len(rest) \in Nat
      BY <1>4, <2>1, ConcatProperties, LenProperties
    <2>3. SUFFICES ASSUME p = Len(body) PROVE FALSE
      OBVIOUS
    <2>4. from[p] = <<>>
      BY <2>3, CutsRead
    <2>5. Len(from[p]) = 0
      BY <2>4
    <2>6. QED
      BY <1>3, <2>2, <2>5
  <1>6. p \in 0..(Len(body) - 1)
    BY <1>1, <1>5
  <1>7. end \in (p + 1)..Len(body) /\ end \in 0..Len(body)
    <2>1. end \in (p + 1)..Len(body)
      BY <1>6, CutFacts
    <2>2. QED
      BY <1>1, <2>1
  <1>8. from[p] = <<SubSeq(body, p + 1, end)>> \o from[end]
    BY <1>6, CutsRead
  <1>9. SubSeq(body, p + 1, end) \in Text /\ from[end] \in Seq(Text)
    BY <1>7, CutIsText, CutsAreTexts
  <1>10. s[n + 1] = SubSeq(body, p + 1, end) /\ rest = from[end]
    <2> DEFINE a == s[n + 1]
               b == SubSeq(body, p + 1, end)
               t == from[end]
    <2>1. a \in Text /\ b \in Text /\ rest \in Seq(Text) /\ t \in Seq(Text)
      BY <1>4, <1>9
    <2>2. <<a>> \o rest = <<b>> \o t
      BY <1>3, <1>8
    <2> HIDE DEF a, b, t, rest
    <2>3. a = b /\ rest = t
      BY <2>1, <2>2, FirstAndRest
    <2>4. QED
      BY <2>3 DEF a, b, t
  <1>11. QED
    BY <1>6, <1>10

LEMMA JoinsExist ==
  ASSUME NEW parts, NEW N \in Nat, Len(parts) = N
  PROVE  \E joined : Joins(parts, joined)
  <1> DEFINE Part(k, f) ==
                 f = [n \in 0..k |-> IF n = 0 THEN <<>> ELSE f[n - 1] \o parts[n]]
             Q == {k \in 0..N : \E f : Part(k, f)}
  <1> HIDE DEF Part
  <1>1. 0 \in Q
    <2> DEFINE f == [n \in 0..0 |-> <<>>]
    <2>1. f = [n \in 0..0 |-> IF n = 0 THEN <<>> ELSE f[n - 1] \o parts[n]]
      OBVIOUS
    <2>2. Part(0, f)
      BY <2>1 DEF Part
    <2> HIDE DEF f
    <2>3. QED
      BY <2>2
  <1>2. ASSUME NEW k \in 0..(N - 1), k \in Q
        PROVE  k + 1 \in Q
    <2>1. PICK f : Part(k, f)
      BY <1>2
    <2> DEFINE g == [n \in 0..(k + 1) |->
                        IF n = k + 1 THEN f[k] \o parts[n] ELSE f[n]]
    <2>2. /\ \A n \in 0..(k + 1) : n # k + 1 => n \in 0..k
          /\ \A n \in 0..k : n \in 0..(k + 1) /\ n # k + 1
          /\ \A n \in 0..(k + 1) : n # 0 => n - 1 \in 0..k
          /\ k \in 0..k /\ (k + 1) - 1 = k /\ k + 1 # 0
      OBVIOUS
    <2>3. \A n \in 0..k : g[n] = f[n]
      BY <2>2
    <2>4. \A n \in 0..k : f[n] = IF n = 0 THEN <<>> ELSE f[n - 1] \o parts[n]
      BY <2>1 DEF Part
    <2>5. ASSUME NEW n \in 0..(k + 1)
          PROVE  g[n] = IF n = 0 THEN <<>> ELSE g[n - 1] \o parts[n]
      <3>1. CASE n = k + 1
        <4>1. g[n] = f[k] \o parts[n]
          BY <3>1
        <4>2. n # 0 /\ n - 1 = k /\ g[n - 1] = f[k]
          BY <2>2, <2>3, <3>1
        <4> HIDE DEF g
        <4>3. QED
          BY <4>1, <4>2
      <3>2. CASE n # k + 1
        <4>1. n \in 0..k
          BY <2>2, <3>2
        <4>2. n # 0 => g[n - 1] = f[n - 1]
          BY <2>2, <2>3
        <4> HIDE DEF g
        <4>3. QED
          BY <2>3, <2>4, <4>1, <4>2
      <3>3. QED
        BY <3>1, <3>2
    <2>6. Part(k + 1, g)
      BY <2>5 DEF Part
    <2> HIDE DEF g
    <2>7. k + 1 \in 0..N
      OBVIOUS
    <2>8. QED
      BY <2>6, <2>7
  <1>3. \A k \in 0..N : k \in Q
    <2> HIDE DEF Q
    <2>1. QED
      BY <1>1, <1>2, CountingUp
  <1>4. N \in 0..N
    OBVIOUS
  <1>5. PICK f : Part(N, f)
    BY <1>3, <1>4
  <1>6. QED
    BY <1>5 DEF Part, Joins

LEMMA JoinsRead ==
  ASSUME NEW parts, Len(parts) \in Nat, NEW joined, Joins(parts, joined)
  PROVE  /\ joined[0] = <<>>
         /\ \A n \in 0..(Len(parts) - 1) : joined[n + 1] = joined[n] \o parts[n + 1]
  <1>1. \A n \in 0..Len(parts) : joined[n] = IF n = 0 THEN <<>> ELSE joined[n - 1] \o parts[n]
    BY DEF Joins
  <1>2. 0 \in 0..Len(parts)
    OBVIOUS
  <1>3. \A n \in 0..(Len(parts) - 1) :
            n + 1 \in 0..Len(parts) /\ n + 1 # 0 /\ (n + 1) - 1 = n
    OBVIOUS
  <1>4. QED
    BY <1>1, <1>2, <1>3

\* After n chunks the text up to some position is restored, and the rest
\* of the chunks are the cuts of what follows.
Reached(body, from, s, joined, n, p) ==
    /\ p \in 0..Len(body)
    /\ joined[n] = SubSeq(body, 1, p)
    /\ from[p] = SubSeq(s, n + 1, Len(s))

LEMMA NextReached ==
  ASSUME NEW body \in Text, NEW from, Cuts(body, from), NEW s \in Seq(Text),
         NEW joined, Joins(s, joined),
         NEW n \in 0..(Len(s) - 1), NEW p, Reached(body, from, s, joined, n, p)
  PROVE  /\ p \in 0..(Len(body) - 1)
         /\ s[n + 1] = SubSeq(body, p + 1, CutAfter(body, p))
         /\ Reached(body, from, s, joined, n + 1, CutAfter(body, p))
  <1> DEFINE end == CutAfter(body, p)
  <1>1. /\ p \in 0..Len(body) /\ joined[n] = SubSeq(body, 1, p)
        /\ from[p] = SubSeq(s, n + 1, Len(s))
    BY DEF Reached
  <1>2. /\ p \in 0..(Len(body) - 1) /\ s[n + 1] = SubSeq(body, p + 1, end)
        /\ from[end] = SubSeq(s, (n + 1) + 1, Len(s))
    BY <1>1, NextCut
  <1>3. end \in (p + 1)..Len(body)
    BY <1>2, CutFacts
  <1>4. Len(body) \in Nat /\ Len(s) \in Nat
    BY DEF Text
  <1>5. joined[n + 1] = joined[n] \o s[n + 1]
    BY <1>4, JoinsRead
  <1>6. SubSeq(body, 1, p) \o SubSeq(body, p + 1, end) = SubSeq(body, 1, end)
    <2>1. 1 \in 1..(Len(body) + 1) /\ p \in (1 - 1)..Len(body) /\ end \in p..Len(body)
      BY <1>2, <1>3, <1>4
    <2> HIDE DEF end
    <2>2. QED
      BY <2>1, ConcatAdjacentSubSeq DEF Text
  <1>7. end \in 0..Len(body)
    BY <1>2, <1>3, <1>4
  <1>8. QED
    BY <1>1, <1>2, <1>5, <1>6, <1>7 DEF Reached

LEMMA AllReached ==
  ASSUME NEW body \in Text, NEW from, Cuts(body, from), NEW joined, Joins(from[0], joined)
  PROVE  \A n \in 0..Len(from[0]) : \E p : Reached(body, from, from[0], joined, n, p)
  <1> DEFINE s == from[0]
             N == Len(s)
             Q == {n \in 0..N : \E p : Reached(body, from, s, joined, n, p)}
  <1>1. s \in Seq(Text) /\ N \in Nat /\ Len(body) \in Nat
    <2>1. Len(body) \in Nat /\ 0 \in 0..Len(body)
      BY DEF Text
    <2>2. s \in Seq(Text)
      BY <2>1, CutsAreTexts
    <2>3. QED
      BY <2>1, <2>2, LenProperties
  <1>2. 0 \in Q
    <2>1. joined[0] = <<>>
      BY <1>1, JoinsRead
    <2>2. SubSeq(body, 1, 0) = <<>>
      BY SubSeqEmpty
    <2>3. SubSeq(s, 0 + 1, Len(s)) = s
      BY <1>1, SubSeqFull
    <2>4. Reached(body, from, s, joined, 0, 0)
      BY <1>1, <2>1, <2>2, <2>3 DEF Reached
    <2>5. QED
      BY <1>1, <2>4
  <1>3. ASSUME NEW n \in 0..(N - 1), n \in Q
        PROVE  n + 1 \in Q
    <2>1. PICK p : Reached(body, from, s, joined, n, p)
      BY <1>3
    <2>2. Reached(body, from, s, joined, n + 1, CutAfter(body, p))
      BY <1>1, <2>1, NextReached
    <2>3. n + 1 \in 0..N
      BY <1>1
    <2>4. QED
      BY <2>2, <2>3
  <1>4. \A n \in 0..N : n \in Q
    <2> HIDE DEF Q, N
    <2>1. QED
      BY <1>1, <1>2, <1>3, CountingUp
  <1>5. QED
    BY <1>4

\* Put together, the chunks of a text are the text; and each of them keeps
\* to the limits.
LEMMA ChunksRestore ==
  ASSUME NEW body \in Text, NEW joined, Joins(ChunkBody(body), joined)
  PROVE  /\ joined[Len(ChunkBody(body))] = body
         /\ \A n \in DOMAIN ChunkBody(body) :
                /\ Len(ChunkBody(body)[n]) \in 1..ChunkSize
                /\ n < Len(ChunkBody(body)) =>
                       ~(/\ ChunkBody(body)[n][Len(ChunkBody(body)[n])] = "high"
                         /\ ChunkBody(body)[n + 1][1] = "low")
  <1>0. PICK from : Cuts(body, from) /\ ChunkBody(body) = from[0]
    <2>1. Cuts(body, CHOOSE from : Cuts(body, from))
      BY CutsExist
    <2>2. QED
      BY <2>1, ChunksAreCuts
  <1> DEFINE s == from[0]
  <1>1. s \in Seq(Text) /\ Len(s) \in Nat /\ Len(body) \in Nat /\ DOMAIN s = 1..Len(s)
    <2>1. Len(body) \in Nat /\ 0 \in 0..Len(body)
      BY DEF Text
    <2>2. s \in Seq(Text)
      BY <1>0, <2>1, CutsAreTexts
    <2>3. QED
      BY <2>1, <2>2, LenProperties
  <1>2. Joins(s, joined)
    BY <1>0
  <1>3. \A n \in 0..Len(s) : \E p : Reached(body, from, s, joined, n, p)
    BY <1>0, <1>2, AllReached
  <1>4. joined[Len(s)] = body
    <2>1. Len(s) \in 0..Len(s)
      BY <1>1
    <2>2. PICK p : Reached(body, from, s, joined, Len(s), p)
      BY <1>3, <2>1
    <2>3. /\ p \in 0..Len(body) /\ joined[Len(s)] = SubSeq(body, 1, p)
          /\ from[p] = SubSeq(s, Len(s) + 1, Len(s))
      BY <2>2 DEF Reached
    <2>4. from[p] = <<>>
      BY <1>1, <2>3, SubSeqEmpty
    <2>5. p = Len(body)
      <3>1. SUFFICES ASSUME p \in 0..(Len(body) - 1) PROVE FALSE
        BY <1>1, <2>3
      <3> DEFINE first == SubSeq(body, p + 1, CutAfter(body, p))
                 rest == from[CutAfter(body, p)]
      <3>2. CutAfter(body, p) \in 0..Len(body)
        <4>1. CutAfter(body, p) \in (p + 1)..Len(body)
          BY <3>1, CutFacts
        <4>2. QED
          BY <1>1, <3>1, <4>1
      <3>3. first \in Text /\ rest \in Seq(Text)
        BY <1>0, <2>3, <3>2, CutIsText, CutsAreTexts
      <3>4. from[p] = <<first>> \o rest
        BY <1>0, <3>1, CutsRead
      <3> HIDE DEF first, rest
      <3>5. <<first>> \in Seq(Text) /\ Len(<<first>>) = 1
        BY <3>3
      <3>6. Len(<<first>> \o rest) = 1 + Len(rest) /\ Len(rest) \in Nat
        BY <3>3, <3>5, ConcatProperties, LenProperties
      <3>7. Len(from[p]) = 0
        BY <2>4
      <3>8. QED
        BY <3>4, <3>6, <3>7
    <2>6. SubSeq(body, 1, p) = body
      BY <2>5, SubSeqFull DEF Text
    <2>7. QED
      BY <2>3, <2>6
  <1>5. ASSUME NEW n \in 0..(Len(s) - 1)
        PROVE  \E p \in 0..(Len(body) - 1) :
                   /\ s[n + 1] = SubSeq(body, p + 1, CutAfter(body, p))
                   /\ Reached(body, from, s, joined, n + 1, CutAfter(body, p))
    <2>1. n \in 0..Len(s)
      BY <1>1
    <2>2. PICK p : Reached(body, from, s, joined, n, p)
      BY <1>3, <2>1
    <2>3. QED
      BY <1>0, <1>1, <1>2, <2>2, NextReached
  <1>6. ASSUME NEW m \in 1..Len(s)
        PROVE  /\ Len(s[m]) \in 1..ChunkSize
               /\ m < Len(s) => ~(s[m][Len(s[m])] = "high" /\ s[m + 1][1] = "low")
    <2>1. m - 1 \in 0..(Len(s) - 1) /\ (m - 1) + 1 = m
      BY <1>1
    <2>2. PICK p \in 0..(Len(body) - 1) :
              /\ s[m] = SubSeq(body, p + 1, CutAfter(body, p))
              /\ Reached(body, from, s, joined, m, CutAfter(body, p))
      BY <1>5, <2>1
    <2> DEFINE end == CutAfter(body, p)
    <2>3. /\ end \in (p + 1)..Len(body) /\ end - p \in 1..ChunkSize
          /\ end < Len(body) => ~(body[end] = "high" /\ body[end + 1] = "low")
      BY CutFacts
    <2>4. p \in 0..Len(body) /\ end \in 0..Len(body) /\ p < end
      BY <1>1, <2>3
    <2> HIDE DEF end
    <2>5. /\ Len(SubSeq(body, p + 1, end)) = end - p
          /\ \A k \in 1..(end - p) : SubSeq(body, p + 1, end)[k] = body[p + k]
      BY <2>4, CutIsText
    <2>6. Len(s[m]) = end - p
      BY <2>2, <2>5 DEF end
    <2>7. s[m][Len(s[m])] = body[end]
      <3>1. end - p \in 1..(end - p) /\ p + (end - p) = end
        BY <1>1, <2>3, <2>4
      <3>2. SubSeq(body, p + 1, end)[end - p] = body[p + (end - p)]
        BY <2>5, <3>1
      <3>3. QED
        BY <2>2, <2>6, <3>1, <3>2 DEF end
    <2>8. ASSUME m < Len(s)
          PROVE  end < Len(body) /\ s[m + 1][1] = body[end + 1]
      <3>1. m \in 0..(Len(s) - 1)
        BY <1>1, <2>8
      <3>2. /\ end \in 0..(Len(body) - 1)
            /\ s[m + 1] = SubSeq(body, end + 1, CutAfter(body, end))
        <4>1. Reached(body, from, s, joined, m, end)
          BY <2>2 DEF end
        <4>2. Cuts(body, from) /\ Joins(s, joined) /\ s \in Seq(Text)
          BY <1>0, <1>1, <1>2
        <4> HIDE DEF s
        <4>3. QED
          BY <3>1, <4>1, <4>2, NextReached
      <3> DEFINE next == CutAfter(body, end)
      <3>3. next \in (end + 1)..Len(body)
        BY <3>2, CutFacts
      <3>4. end \in 0..Len(body) /\ next \in 0..Len(body) /\ 1 \in 1..(next - end)
        BY <1>1, <3>2, <3>3
      <3> HIDE DEF next
      <3>5. SubSeq(body, end + 1, next)[1] = body[end + 1]
        BY <3>4, CutIsText
      <3>6. QED
        <4>1. end < Len(body)
          BY <1>1, <3>2
        <4>2. QED
          BY <3>2, <3>5, <4>1 DEF next
    <2>9. QED
      BY <2>3, <2>6, <2>7, <2>8
  <1>7. QED
    BY <1>0, <1>1, <1>4, <1>6

LEMMA ChunkCount ==
  ASSUME NEW body \in Text
  PROVE  Len(ChunkBody(body)) \in Nat
  <1>0. PICK from : Cuts(body, from) /\ ChunkBody(body) = from[0]
    <2>1. Cuts(body, CHOOSE from : Cuts(body, from))
      BY CutsExist
    <2>2. QED
      BY <2>1, ChunksAreCuts
  <1>1. 0 \in 0..Len(body)
    BY DEF Text
  <1>2. from[0] \in Seq(Text)
    BY <1>0, <1>1, CutsAreTexts
  <1>3. QED
    BY <1>0, <1>2, LenProperties

\* Chunks are written together with the body they are cut from.
ChunksAgree ==
    \A r \in Revision : revisions[r] # None => chunks[r] = ChunkBody(revisions[r].content)

LEMMA ChunksRestored ==
  ASSUME ChunksAgree,
         \A r \in Revision : revisions[r] # None => revisions[r].content \in Text
  PROVE  ChunksRestoreBody
  <1>1. ASSUME NEW r \in Revision, revisions[r] # None, NEW joined, Joins(chunks[r], joined)
        PROVE  /\ joined[Len(chunks[r])] = revisions[r].content
               /\ \A n \in DOMAIN chunks[r] :
                      /\ Len(chunks[r][n]) \in 1..ChunkSize
                      /\ n < Len(chunks[r]) =>
                             ~(/\ chunks[r][n][Len(chunks[r][n])] = "high"
                               /\ chunks[r][n + 1][1] = "low")
    <2> DEFINE body == revisions[r].content
    <2>1. body \in Text /\ chunks[r] = ChunkBody(body) /\ Joins(ChunkBody(body), joined)
      BY <1>1 DEF ChunksAgree
    <2> HIDE DEF body
    <2>2. /\ joined[Len(ChunkBody(body))] = body
          /\ \A n \in DOMAIN ChunkBody(body) :
                 /\ Len(ChunkBody(body)[n]) \in 1..ChunkSize
                 /\ n < Len(ChunkBody(body)) =>
                        ~(/\ ChunkBody(body)[n][Len(ChunkBody(body)[n])] = "high"
                          /\ ChunkBody(body)[n + 1][1] = "low")
      BY <2>1, ChunksRestore
    <2>3. QED
      BY <2>1, <2>2 DEF body
  <1>2. ASSUME NEW r \in Revision, revisions[r] # None
        PROVE  Joins(chunks[r], CHOOSE joined : Joins(chunks[r], joined))
    <2>1. revisions[r].content \in Text /\ chunks[r] = ChunkBody(revisions[r].content)
      BY <1>2 DEF ChunksAgree
    <2>2. Len(chunks[r]) \in Nat
      BY <2>1, ChunkCount
    <2>3. \E joined : Joins(chunks[r], joined)
      BY <2>2, JoinsExist
    <2>4. QED
      BY <2>3
  <1>3. ASSUME NEW r \in Revision, revisions[r] # None
        PROVE  LET joined == CHOOSE joined : Joins(chunks[r], joined)
               IN  /\ joined[Len(chunks[r])] = revisions[r].content
                   /\ \A n \in DOMAIN chunks[r] :
                          /\ Len(chunks[r][n]) \in 1..ChunkSize
                          /\ n < Len(chunks[r]) =>
                                 ~(/\ chunks[r][n][Len(chunks[r][n])] = "high"
                                   /\ chunks[r][n + 1][1] = "low")
    <2> DEFINE chosen == CHOOSE joined : Joins(chunks[r], joined)
    <2>1. Joins(chunks[r], chosen)
      BY <1>2, <1>3
    <2> HIDE DEF chosen
    <2>2. /\ chosen[Len(chunks[r])] = revisions[r].content
          /\ \A n \in DOMAIN chunks[r] :
                 /\ Len(chunks[r][n]) \in 1..ChunkSize
                 /\ n < Len(chunks[r]) =>
                        ~(/\ chunks[r][n][Len(chunks[r][n])] = "high"
                          /\ chunks[r][n + 1][1] = "low")
      BY <1>1, <1>3, <2>1
    <2>3. QED
      BY <2>2 DEF chosen
  <1>4. QED
    BY <1>3 DEF ChunksRestoreBody, Joins

LEMMA CommitKeepsChunks ==
  ASSUME MaterialsTypeOK, ChunksAgree, NEW c \in Call, Commit(c)
  PROVE  ChunksAgree'
  <1>1. ASSUME NEW q, NEW m, NEW number, NEW content, InsertRevision(q, m, number, content)
        PROVE  ChunksAgree'
    <2>1. ASSUME NEW r \in Revision, revisions'[r] # None
          PROVE  chunks'[r] = ChunkBody(revisions'[r].content)
      <3>t. r \in DOMAIN revisions /\ r \in DOMAIN chunks
        BY DEF MaterialsTypeOK
      <3>1. CASE r = q
        <4>1. /\ revisions'[r] = [material |-> m, number |-> number, content |-> content]
              /\ chunks'[r] = ChunkBody(content)
          BY <1>1, <3>t, <3>1 DEF InsertRevision
        <4>2. QED
          BY <4>1
      <3>2. CASE r # q
        <4>1. revisions'[r] = revisions[r] /\ chunks'[r] = chunks[r]
          BY <1>1, <3>t, <3>2 DEF InsertRevision
        <4>2. QED
          BY <2>1, <4>1 DEF ChunksAgree
      <3>3. QED
        BY <3>1, <3>2
    <2>2. QED
      BY <2>1 DEF ChunksAgree
  <1>2. CASE WriteCreate(c)
    BY <1>1, <1>2 DEF WriteCreate
  <1>3. CASE WriteUpdate(c)
    BY <1>1, <1>3 DEF WriteUpdate
  <1>4. CASE WriteUnchanged(c) \/ WriteDelete(c)
    <2>1. UNCHANGED <<revisions, chunks>>
      BY <1>4 DEF WriteUnchanged, WriteDelete
    <2>2. QED
      BY <2>1 DEF ChunksAgree
  <1>5. QED
    BY <1>2, <1>3, <1>4 DEF Commit

(* The chunks that search and answers are built from lose nothing of a      *)
(* material's body, whatever its text and wherever the cuts fall.           *)
THEOREM ChunksAreWhole == DocumentsSpec => []ChunksRestoreBody
  <1>1. DocumentsInit => ChunksAgree
    BY DEF DocumentsInit, ChunksAgree
  <1>2. ASSUME DocumentsInv, ChunksAgree, [DocumentsNext]_documentsVars
        PROVE  ChunksAgree'
    <2>1. CASE UNCHANGED <<revisions, chunks>>
      BY <1>2, <2>1 DEF ChunksAgree
    <2>2. ASSUME NEW t \in Tab, Use(t) PROVE UNCHANGED <<revisions, chunks>>
      <3>1. ASSUME NEW screen, OnlyTab(t, screen) PROVE UNCHANGED <<revisions, chunks>>
        BY <3>1 DEF OnlyTab, materialsVars
      <3>2. ASSUME NEW c \in Call, Save(t, c) \/ ConfirmDelete(t, c)
            PROVE  UNCHANGED <<revisions, chunks>>
        BY <3>2 DEF Save, ConfirmDelete, Send, rows
      <3>3. QED
        BY <2>2, <3>1, <3>2 DEF Use, OpenEditor, OpenDialog, Cancel, Type, LoseConnection, Reload,
                                RecoverDelete, Refetch, FetchArrives, FetchFails
    <2>3. ASSUME NEW c \in Call, Elsewhere(c) \/ Deliver(c) PROVE UNCHANGED <<revisions, chunks>>
      BY <2>3 DEF Elsewhere, Deliver, rows
    <2>4. ASSUME NEW c \in Call, Serve(c) PROVE ChunksAgree'
      <3>1. CASE Commit(c)
        BY <1>2, <3>1, CommitKeepsChunks DEF DocumentsInv, MaterialsInv
      <3>2. CASE ~Commit(c)
        <4>1. UNCHANGED rows
          BY <1>2, <2>4, <3>2, QuietAnswers
        <4>2. QED
          BY <2>1, <4>1 DEF rows
      <3>3. QED
        BY <3>1, <3>2
    <2>5. CASE UNCHANGED documentsVars
      BY <2>1, <2>5 DEF documentsVars, materialsVars
    <2>6. QED
      BY <1>2, <2>1, <2>2, <2>3, <2>4, <2>5 DEF DocumentsNext
  <1>3. DocumentsInv /\ ChunksAgree => ChunksRestoreBody
    <2>1. ASSUME DocumentsInv, NEW r \in Revision, revisions[r] # None
          PROVE  revisions[r].content \in Text
      <3>1. revisions[r].content \in Content
        BY <2>1 DEF DocumentsInv, MaterialsInv, MaterialsTypeOK, RevisionRow
      <3>2. QED
        BY <3>1, ContentIsDraft, MaterialsAssumption DEF Text
    <2>2. QED
      BY <2>1, ChunksRestored
  <1>4. QED
    BY <1>1, <1>2, <1>3, DocumentsInvariance, PTL DEF DocumentsSpec
=============================================================================
