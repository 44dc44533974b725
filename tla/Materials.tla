----------------------------- MODULE Materials -----------------------------
(***************************************************************************)
(* The materials of one owner as the API keeps them: every create, update  *)
(* and delete is one transaction that also files a receipt under the       *)
(* caller's idempotency key, so that a call repeated after a lost answer   *)
(* is answered again and not carried out again.                            *)
(*                                                                         *)
(* A call moves through the statements of its transaction.  Nothing of it  *)
(* is visible to others before Write, the commit; from LockMaterial to     *)
(* then an update or delete holds its material's row.  Callers are         *)
(* arbitrary here; Documents says what the browser sends.                  *)
(***************************************************************************)
EXTENDS Naturals, Sequences, FiniteSets

CONSTANTS
    Material,   \* ids a new material may get
    Revision,   \* ids a new revision may get
    Key,        \* idempotency keys
    Draft,      \* bodies as a caller sends them: sequences of code units
    ChunkSize,  \* longest chunk, in code units (1200 in the code)
    Call,       \* calls the API may serve at the same time
    None        \* SQL null; no row

ASSUME MaterialsAssumption ==
    /\ None \notin Material \cup Revision \cup Key \cup Call \cup Draft
    /\ Draft \subseteq Seq(STRING)
    /\ ChunkSize \in Nat \ {0, 1}

VARIABLES
    materials,  \* rows of materials
    revisions,  \* rows of material_revisions, with keywords and intents
    chunks,     \* rows of material_chunks, in the order of their ordinals
    receipts,   \* rows of material_request_receipts
    calls       \* what each call being served has done so far

rows == <<materials, revisions, chunks, receipts>>
materialsVars == <<materials, revisions, chunks, receipts, calls>>

-----------------------------------------------------------------------------
(* Preparing a body: "\r\n" and "\r" become "\n"; the result is cut into   *)
(* chunks that never separate a surrogate pair.                            *)

Prepare(body) ==
    LET prepared[i \in 0..Len(body)] ==
            IF i = 0 THEN <<>>
            ELSE IF body[i] = "cr" THEN Append(prepared[i - 1], "lf")
            ELSE IF body[i] = "lf" /\ i > 1 /\ body[i - 1] = "cr" THEN prepared[i - 1]
            ELSE Append(prepared[i - 1], body[i])
    IN  prepared[Len(body)]

\* A cut at the size alone, through a surrogate pair if need be.
CutAnywhere(body, start) ==
    IF start + ChunkSize < Len(body) THEN start + ChunkSize ELSE Len(body)

(* Where the chunk that starts after position start ends.                  *)
CutAfter(body, start) ==
    LET end == IF start + ChunkSize < Len(body) THEN start + ChunkSize ELSE Len(body)
    IN  IF end < Len(body) /\ body[end] = "high" THEN end - 1 ELSE end

ChunkBody(body) ==
    LET from[start \in 0..Len(body)] ==
            IF start = Len(body)
            THEN <<>>
            ELSE LET end == CutAfter(body, start)
                 IN  <<SubSeq(body, start + 1, end)>> \o from[end]
    IN  from[0]

-----------------------------------------------------------------------------

Content == {Prepare(body) : body \in Draft}

Request ==
    [op: {"create"}, material: {None}, expected: {None}, draft: Draft, key: Key]
    \cup [op: {"update"}, material: Material, expected: Revision, draft: Draft, key: Key]
    \cup [op: {"delete"}, material: Material, expected: Revision, draft: {None}, key: Key]

(* What two calls must agree on to be the same request.                    *)
Fingerprint(request) ==
    [op |-> request.op, material |-> request.material, expected |-> request.expected,
     content |-> IF request.op = "delete" THEN None ELSE Prepare(request.draft)]

Fingerprints ==
    [op: {"create", "update", "delete"}, material: Material \cup {None},
     expected: Revision \cup {None}, content: Content \cup {None}]

Receipt == [fingerprint: Fingerprints, material: Material, revision: Revision]

MaterialRow == [current: Revision, deleted: BOOLEAN]

\* number is the column revision, which counts a material's revisions.
RevisionRow == [material: Material, number: Nat \ {0}, content: Content]

Refusals == {"conflict", "revision_conflict", "not_found", "unavailable"}

Saved(material, revision) == [kind |-> "saved", material |-> material, revision |-> revision]
Refused(kind) == [kind |-> kind, material |-> None, revision |-> None]

Replies ==
    [kind: {"saved"}, material: Material, revision: Revision]
    \cup [kind: Refusals, material: {None}, revision: {None}]

Steps == {"arrived", "locking", "writing", "lost", "answered"}

CallRow == [request: Request, step: Steps, reply: Replies \cup {None}]

ASSUME NoneIsNoRow == None \notin Receipt \cup MaterialRow \cup RevisionRow \cup CallRow

MaterialsInit ==
    /\ materials = [m \in Material |-> None]
    /\ revisions = [r \in Revision |-> None]
    /\ chunks = [r \in Revision |-> None]
    /\ receipts = [k \in Key |-> None]
    /\ calls = [c \in Call |-> None]

Live(m) == materials[m] # None /\ ~materials[m].deleted
Current(m) == materials[m].current

At(c, step) == calls[c] # None /\ calls[c].step = step
RequestOf(c) == calls[c].request
Filed(c) == receipts[RequestOf(c).key]

Continue(c, step) == calls' = [calls EXCEPT ![c].step = step]
Answer(c, reply) ==
    calls' = [calls EXCEPT ![c].step = "answered", ![c].reply = reply]

(* A receipt answers the request it was filed for, and refuses any other   *)
(* under its key.                                                          *)
ReplayOf(c) ==
    IF Filed(c).fingerprint = Fingerprint(RequestOf(c))
    THEN Saved(Filed(c).material, Filed(c).revision)
    ELSE Refused("conflict")

Holds(c, m) == At(c, "writing") /\ RequestOf(c).op # "create" /\ RequestOf(c).material = m
-----------------------------------------------------------------------------

(* A request reaches the API.                                              *)
Arrive(c, request) ==
    /\ calls[c] = None
    /\ calls' = [calls EXCEPT ![c] = [request |-> request, step |-> "arrived", reply |-> None]]

(* The first read of the receipt, before any lock.                         *)
ReadReceipt(c) ==
    /\ At(c, "arrived")
    /\ \/ Filed(c) # None /\ Answer(c, ReplayOf(c))
       \/ /\ Filed(c) = None
          /\ Continue(c, IF RequestOf(c).op = "create" THEN "writing" ELSE "locking")
    /\ UNCHANGED rows

\* The row is locked and checked, the receipt is not read again.
LockOnly(c) ==
    LET m == RequestOf(c).material
    IN  /\ At(c, "locking")
        /\ \A other \in Call : ~Holds(other, m)
        /\ CASE ~Live(m) -> Answer(c, Refused("not_found"))
             [] Live(m) /\ Current(m) # RequestOf(c).expected ->
                    Answer(c, Refused("revision_conflict"))
             [] OTHER -> Continue(c, "writing")
        /\ UNCHANGED rows

(* The row lock of an update or delete, the second read of the receipt,    *)
(* which an earlier holder of the lock may have filed, and the checks.     *)
LockMaterial(c) ==
    LET m == RequestOf(c).material
    IN  /\ At(c, "locking")
        /\ \A other \in Call : ~Holds(other, m)
        /\ CASE Filed(c) # None -> Answer(c, ReplayOf(c))
             [] Filed(c) = None /\ ~Live(m) -> Answer(c, Refused("not_found"))
             [] Filed(c) = None /\ Live(m) /\ Current(m) # RequestOf(c).expected ->
                    Answer(c, Refused("revision_conflict"))
             [] OTHER -> Continue(c, "writing")
        /\ UNCHANGED rows

FileReceipt(c, m, r) ==
    /\ receipts' = [receipts EXCEPT ![RequestOf(c).key] =
                       [fingerprint |-> Fingerprint(RequestOf(c)), material |-> m, revision |-> r]]
    /\ Answer(c, Saved(m, r))

(* A random identity nobody has used.                                      *)
Fresh(table) == CHOOSE id \in DOMAIN table : table[id] = None
HasFresh(table) == \E id \in DOMAIN table : table[id] = None

InsertRevision(r, m, number, content) ==
    /\ revisions' = [revisions EXCEPT ![r] =
                        [material |-> m, number |-> number, content |-> content]]
    /\ chunks' = [chunks EXCEPT ![r] = ChunkBody(content)]

(* The unique index on (material_id, revision).                            *)
NumberIsFree(m, number) ==
    \A r \in Revision : revisions[r] # None =>
        ~(revisions[r].material = m /\ revisions[r].number = number)

WriteCreate(c) ==
    LET m == Fresh(materials)
        r == Fresh(revisions)
    IN  /\ RequestOf(c).op = "create"
        /\ HasFresh(materials) /\ HasFresh(revisions)
        /\ materials' = [materials EXCEPT ![m] = [current |-> r, deleted |-> FALSE]]
        /\ InsertRevision(r, m, 1, Prepare(RequestOf(c).draft))
        /\ FileReceipt(c, m, r)

(* The body is what the current revision already holds: only the receipt.  *)
WriteUnchanged(c) ==
    LET m == RequestOf(c).material
    IN  /\ RequestOf(c).op = "update"
        /\ revisions[Current(m)].content = Prepare(RequestOf(c).draft)
        /\ FileReceipt(c, m, Current(m))
        /\ UNCHANGED <<materials, revisions, chunks>>

WriteUpdate(c) ==
    LET m == RequestOf(c).material
        previous == revisions[RequestOf(c).expected]
        r == Fresh(revisions)
    IN  /\ RequestOf(c).op = "update"
        /\ previous.content # Prepare(RequestOf(c).draft)
        /\ HasFresh(revisions) /\ NumberIsFree(m, previous.number + 1)
        /\ InsertRevision(r, m, previous.number + 1, Prepare(RequestOf(c).draft))
        /\ materials' = [materials EXCEPT ![m].current = r]
        /\ FileReceipt(c, m, r)

WriteDelete(c) ==
    LET m == RequestOf(c).material
    IN  /\ RequestOf(c).op = "delete"
        /\ materials' = [materials EXCEPT ![m].deleted = TRUE]
        /\ FileReceipt(c, m, Current(m))
        /\ UNCHANGED <<revisions, chunks>>

\* The loser of a race for the receipt keeps what it has inserted.
WriteAnyway(c) ==
    /\ At(c, "writing")
    /\ WriteCreate(c) \/ WriteUnchanged(c) \/ WriteUpdate(c) \/ WriteDelete(c)

(* The writes, the receipt and the commit.  Another request may have filed *)
(* the key meanwhile; then everything is rolled back.                      *)
Write(c) ==
    /\ At(c, "writing")
    /\ \/ /\ Filed(c) = None
          /\ WriteCreate(c) \/ WriteUnchanged(c) \/ WriteUpdate(c) \/ WriteDelete(c)
       \/ /\ Filed(c) # None
          /\ Continue(c, "lost")
          /\ UNCHANGED rows

(* The loser of the race reads the winner's receipt.                       *)
ReadWinner(c) ==
    /\ At(c, "lost")
    /\ Answer(c, ReplayOf(c))
    /\ UNCHANGED rows

(* The database is unavailable, or the transaction fails.                  *)
Fail(c) ==
    /\ calls[c] # None /\ calls[c].step # "answered"
    /\ Answer(c, Refused("unavailable"))
    /\ UNCHANGED rows

(* The answer leaves the API.                                              *)
Leave(c) == At(c, "answered") /\ calls' = [calls EXCEPT ![c] = None]

Serve(c) == ReadReceipt(c) \/ LockMaterial(c) \/ Write(c) \/ ReadWinner(c) \/ Fail(c)

MaterialsNext ==
    \E c \in Call :
        \/ \E request \in Request : Arrive(c, request) /\ UNCHANGED rows
        \/ Serve(c)
        \/ Leave(c) /\ UNCHANGED rows

MaterialsSpec == MaterialsInit /\ [][MaterialsNext]_materialsVars

-----------------------------------------------------------------------------

(* Every row has its columns, and no call is past the end of its           *)
(* transaction without an answer.                                          *)
MaterialsTypeOK ==
    /\ materials \in [Material -> MaterialRow \cup {None}]
    /\ revisions \in [Revision -> RevisionRow \cup {None}]
    /\ DOMAIN chunks = Revision
    /\ receipts \in [Key -> Receipt \cup {None}]
    /\ calls \in [Call -> CallRow \cup {None}]

(* A receipt tells the truth about what became of its request: the         *)
(* revision it names belongs to the material and holds the body that was   *)
(* sent, and a receipt of a deletion means a deleted material that has     *)
(* not changed since.  Retries are answered from receipts alone.           *)
ReceiptsTellTheTruth ==
    \A k \in Key : receipts[k] # None =>
        LET f == receipts[k].fingerprint
            m == receipts[k].material
            r == receipts[k].revision
        IN  /\ f.op # "create" => f.material = m
            /\ revisions[r] # None /\ revisions[r].material = m
            /\ f.op # "delete" => revisions[r].content = f.content
            /\ f.op = "delete" => materials[m] = [current |-> r, deleted |-> TRUE]

(* One request, one effect: the revision that a receipt made is made by no *)
(* other request, and no revision is left behind by a request whose        *)
(* transaction lost the race for its receipt or failed.                    *)
Made(k, r) ==
    /\ receipts[k] # None /\ receipts[k].revision = r
    /\ receipts[k].fingerprint.op # "delete"
    /\ receipts[k].fingerprint.expected # r

OneRequestPerRevision ==
    \A r \in Revision : revisions[r] # None =>
        \E k \in Key : Made(k, r) /\ \A other \in Key \ {k} : ~Made(other, r)

(* What a call has checked under its material's lock still holds when it   *)
(* commits: the material is not deleted, the expected revision is current, *)
(* and the number of the next one is free, so that the unique index on     *)
(* (material, number) never has to refuse an edit.                         *)
ChecksHoldAtCommit ==
    \A c \in Call : At(c, "writing") /\ RequestOf(c).op # "create" =>
        LET m == RequestOf(c).material
        IN  /\ Live(m)
            /\ Current(m) = RequestOf(c).expected
            /\ NumberIsFree(m, revisions[Current(m)].number + 1)

(* Whatever calls overlap, repeat and break off, each request happens as a *)
(* whole or not at all, and at most once.                                  *)
RequestsAreAtomic ==
    MaterialsTypeOK /\ ReceiptsTellTheTruth /\ OneRequestPerRevision /\ ChecksHoldAtCommit

(* The chunks of every revision put together are its body, and none ends   *)
(* between the halves of a surrogate pair or is longer than ChunkSize.     *)
ChunksRestoreBody ==
    \A r \in Revision : revisions[r] # None =>
        LET body == revisions[r].content
            joined[n \in 0..Len(chunks[r])] ==
                IF n = 0 THEN <<>> ELSE joined[n - 1] \o chunks[r][n]
        IN  /\ joined[Len(chunks[r])] = body
            /\ \A n \in DOMAIN chunks[r] :
                   /\ Len(chunks[r][n]) \in 1..ChunkSize
                   /\ n < Len(chunks[r]) =>
                          ~(/\ chunks[r][n][Len(chunks[r][n])] = "high"
                            /\ chunks[r][n + 1][1] = "low")

(* A request that has been carried out is never refused when it comes      *)
(* again, however its repetition overlaps with the first attempt and with  *)
(* other requests.                                                         *)
RepeatedRequestIsNotRefused ==
    [][\A c \in Call :
          /\ calls[c] # None /\ calls[c].step # "answered"
          /\ Filed(c) # None /\ Filed(c).fingerprint = Fingerprint(RequestOf(c))
          /\ calls'[c] # None /\ calls'[c].step = "answered"
          => calls'[c].reply \in
                {Saved(Filed(c).material, Filed(c).revision), Refused("unavailable")}
      ]_materialsVars
=============================================================================
