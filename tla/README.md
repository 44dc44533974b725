# devfootnote in TLA+

devfootnote is a personal archive of learning material with keyword search, optional
semantic search and grounded answers.  This directory holds TLA+ specifications of the
parts whose correctness depends on the order in which independent actors commit:
API processes, worker processes, the database clock, the job queue, the AI provider
and several browser tabs.  Every definition is translated from the TypeScript source;
`PROJECT.json` ("map") names the lines.

## 1. Inventory

| Component | State | Operations | What is hard |
|---|---|---|---|
| Embedding activation (API, `modules/indexing`) | activation row per owner, receipts by request id, work rows, reservation | preview, activate, revoke, retry of failed works | replays, a request id used twice, two activations of one revision |
| Embedding execution (worker, `modules/indexing`) | work rows with state, lease, attempt count; attempt rows; vectors | claim, reuse, startAttempt, callInput, provider call, failAttempt, completeAttempt | stale handlers, late answers, crashes between commit and call, fences read before a call and used after it |
| Embedding repair and lifecycle (worker) | `delivery_after`, cursors | every 15 s: expireUnexposed, settleExpiredQueries, cleanVectors, cleanAudit, activateMissing, recover and redeliver | several processes repair at once; it is the only guarantee of progress |
| Delivery (API, worker, BullMQ) | jobs named by work id | add, retry of a finished job | lost and duplicated jobs; the database stays the authority |
| Usage retention (API and worker) | consent rows per purpose, budgets, reservations, call receipts | grant, revoke, reserve, expose, record, settle, expire, delete | money: bills of calls nobody heard the end of, limits shared by all owners, month boundaries |
| Answers (API and worker) | answer rows (RESERVED, RUNNING, terminal), question and text, receipts | generate, read, start, complete, sweep, clear, delete | one call at most per answer, results that arrive after a crash, consent or revision changes between admission, call and display |
| Semantic query (API) | reservation | begin, call, settle, read again | consent revoked during the call, crash between exposure and settlement |
| Materials (API) | materials, revisions, chunks, intents, idempotency receipts | create, update, delete | two tabs edit, a request is repeated, edit and delete race with embedding |
| Authentication (API) | one row per account with the hash of its refresh token, OAuth states | login, callback, refresh, logout | rotation in two tabs at once, rotation against logout, callbacks followed twice |
| CSRF and guards (API) | none: signed tokens in cookies | check of a token and its cookie, access token, OAuth state | a token drawn for a cookie that has been replaced since |
| Browser client (`apps/web/src/lib/api-client.ts`, `features/auth`) | CSRF request, last renewal, logout gate, abort controller | protected request, renewal and replay, logout, end of authentication | promises resumed in any order around a logout; other tabs with the same cookies |
| Document page (`features/documents`) | cached document, draft with the revision it was begun from, idempotency key | edit, delete, create, refetch | lost answers, repeated submissions, reads that come back late, other tabs |
| Answer panel (`features/answers`) | configuration, turns, results by consent epoch, event stream, pending approval | approve, ask, repeat, reread, follow, revoke | late answers and events after a withdrawal, lost calls of unknown fate, streams that end early |
| Keyword search, HTTP layer, health, other screens, generated client | none or UI only | reads, formatting | not modelled |

Interactions.  The API and the worker share PostgreSQL and meet in row locks: every
transaction that decides about a work locks consent, material, budget, reservation and
work in this order, reads the database clock after the locks, and keeps the locks until
it commits.  The API hands work ids to the worker through BullMQ; a job carries nothing
but the id.  The provider is called outside any transaction, after the attempt has been
committed.  The worker repairs periodically from database rows alone.  The browser holds
no authority either: cookies, an idempotency key or request id, and the consent epoch or
revision a user was looking at travel with every request, and the API decides on its rows.
Calls and their answers may be lost, delayed and repeated, and tabs coordinate nothing.

What makes each component correct.

* Execution: attempts never drift from their work; terminal rows never change; a text
  leaves the database, and a vector becomes searchable, only while consent, revision
  and reservation allow it; every work ends.
* Usage: whatever the provider charged is counted; reservations close exactly when the
  last of their works ends; settlement never exceeds the reserved maximum.
* Activation: at most one live work per revision, configuration and consent epoch.
* Answers: at most one call per answer; nothing is shown under a withdrawn consent or
  for another revision; a question is kept no longer than needed.
* Materials and the document page: a repeated request has the effect of one and is told
  so; no edit overwrites a text its author has not seen; what was saved is shown.
* Authentication and browser client: a refresh token and an OAuth state work once; a
  logout is final, on the server and in the browser; nobody is thrown out for sending two
  requests at once; nothing waits for ever.
* Answer panel: nothing is sent before the consent is stored or shown after it is
  withdrawn; a question is admitted once however often it is repeated; waiting ends.

## 2. Modules

| Module | Models |
|---|---|
| `EmbeddingWork` | life of a work and of its reservation, from activation to settlement |
| `BudgetAccount` | what the monthly AI budget promises, as atomic admissions |
| `BudgetLedger` | the transactions that reserve, expose, settle, expire and delete, statement by statement under the budget row's lock; refines `BudgetAccount` |
| `AnswerPromise` | what a request id promises: one call, no charge without it, no answer shown after its withdrawal |
| `Answers` | grounded answers from admission to deletion, over API, workers and clock; refines `AnswerPromise` |
| `Materials` | creation, update and deletion of materials with their receipts, statement by statement |
| `Documents` | the document page over `Materials`: drafts, keys, repetition, refetching |
| `Sessions` | refresh rotation, logout, OAuth states and login of one account |
| `BrowserClient` | the browser's transport and boundary over `Sessions`: CSRF, shared renewal, replay, logout gate, other tabs |
| `AnswerPanel` | the answer panel over what a browser can tell of the answers API |
| `MC...` | finite instances of the above for TLC |
| `EmbeddingWorkProofs`, `BudgetAccountProofs`, `BudgetLedgerProofs`, `AnswersProofs`, `BrowserClientProofs`, `DocumentsProofs`, `AnswerPanelProofs` | theorems about the module of that name; those about `Sessions` and `Materials` stand in front of those about the modules that extend them |
| `FiniteSums` | induction over the subsets of a finite set and over the numbers up to a bound; sums over finite sets |

`Documents` extends `Materials` and `BrowserClient` extends `Sessions`: the browser's
actions call the API's, so a run of the composed module checks both.  `AnswerPanel` has an
API of its own, because `Answers` knows much that no browser can observe.  An operator
whose comment says what is done wrong (`WriteAnyway`, `LeavesAtOnce`) is not part of a
specification: put in the place of the definition below it, it shows that the properties
would notice.

### EmbeddingWork

One action is one committed transaction, or one step of a claim handler outside a
transaction.  That is sound because every worker transaction takes its row locks before
it reads what it decides on (`withFencedWork`), so concurrent transactions on one owner's
rows are serial.  `runner` holds what a handler remembers between transactions: the work,
the attempt number, the provider's answer.  Anything may happen between two of its steps.

| State | Rows |
|---|---|
| `consent` | `usage_embedding_consents`: granted, epoch, configuration |
| `current` | the current revision of each material, 0 once deleted |
| `work` | `indexing_embedding_works` |
| `attempts`, `receipts` | `indexing_embedding_attempts`, `usage_embedding_call_receipts` |
| `reservations`, `reservedMaximum`, `settledAmount` | `usage_embedding_reservations` |
| `runner` | local variables of `EmbeddingProcessorService.process` |
| `billed` | what the provider really charged; no row holds it |

| Action | Code |
|---|---|
| `Activate`, `ActivateMissing` | `EmbeddingActivationService.activate`, `EmbeddingLifecycleService.activateMissing` |
| `Claim` | `EmbeddingWorkRepository.claimLease` from the queue consumer |
| `Reuse`, `StartAttempt`, `CallInput`, `FailAttempt`, `CompleteAttempt` | the methods of `EmbeddingExecutionService`, each with the settlement at the end of `withFencedWork` |
| `Embed` | `GeminiEmbedding.embed`: any result, any bill up to the maximum, a usage that may be missing or too large |
| `Abandon` | crash, shutdown, missing key, a transaction that fails and is rolled back |
| `Recover`, `ExpireUnexposed` | `recover`, `expireUnexposed` of the periodic repair |
| `LeaseLapses`, `RetryFallsDue`, `ReservationLapses` | the database clock passes a deadline |

Abstractions.

* Clocks are flags that may turn at any time, so every length of lease, delay and
  deadline is covered.  A deadline that passes between the lock and an update of the
  same transaction rolls the transaction back (`startAttempt`) or refuses it, which is
  what `Abandon` after the flag has turned does; where the code commits something
  nevertheless (`completeAttempt` keeps the receipt) there is a disjunct of its own.
* A lease token is the slot that drew it; a slot is on one claim at a time.
* Delivery: any pending work that is due may be claimed at any time, by any slot.  This
  contains every loss, duplicate and delay of a BullMQ job.
* A work embeds one chunk: `CallMax` is the price of the largest call for one work, and
  `reservedMaximum` is the number of works times `MaxAttempts * CallMax`, as
  `maximumPerChunk` is five times the price of 8192 tokens.  The budget limit is not
  part of this module: refusing a reservation changes nothing here.
* The provider charges at most `CallMax` for a call and, when it reports usage, reports
  what it charged or more than the input can have.  This is the assumption behind the
  ledger properties; it is about the provider, not about the code.  `CheckedResponse` is
  the client's check that refuses the second (`gemini-embedding.ts:105`): the call fails
  for good, without a known usage.  `FitsReservation` is the throw in `recordCall` behind it.
* `heartbeat()` is left out because nothing calls it.  `reservation_missing` cannot
  occur before audit detachment, which only touches terminal works.
* A receipt row whose amount is null says the same as no row, so both are `None`.

### BudgetAccount and BudgetLedger

`EmbeddingWork` takes the budget for granted; these two modules are about nothing else.
All owners, both purposes, the API and the worker draw from one budget row per UTC month.
`reserveAiBudget` chooses the month, locks that month's row, reads the clock again, sums
the reservations and inserts its own.  Each of these statements is a step of
`BudgetLedger`, because what other transactions commit between two of them is the
question; the writes of a transaction become visible at its commit.

| State | Rows |
|---|---|
| `month` | the UTC month of the database clock |
| `limit` | `usage_embedding_budgets.limit` of the month's row, `None` without a row |
| `row` | `usage_embedding_reservations` of every purpose |
| `holder` | who holds the lock of a budget row |
| `tx` | an open transaction: its month and policy, the rows it saw alive, what it summed |

| Action | Code |
|---|---|
| `Begin`, `LockBudget`, `ReadClock`, `SumCommitted` | the statements of `reserveAiBudget` |
| `CommitAdmission` | the insert and the caller's commit; a query is exposed in the same transaction |
| `CommitRefusal` | the worker's scan commits after a refusal, with the row or the lower limit it wrote |
| `Rollback` | the API throws after a refusal; crashes and lost connections |
| `Expose`, `CommitExposure` | `lockReservation`, then `markExposure` or the answers' `expose` |
| `Settle` | the worker's `settle` for embeddings and answers, the API's `settleQuery` |
| `ExpireUnexposed`, `SettleExpiredQuery` | the repair, without the budget lock |
| `DeleteReservation`, `DeleteBudget` | audit cleanup and `deleteExpiredBudgets` |
| `Lapse`, `MonthEnds` | the database clock |

Abstractions.

* A policy is its purpose, limit and share.  Budget identity, currency and unit scale
  are the same for every approved policy of a month and are left out; so are policies
  with fixed periods and policies without a share, which only drop conjuncts.
* The 90 days of retention are "some time after the month has ended".
* A reservation identity stands for the transaction that inserts it and for the ones
  that expose it later.  Exposing an exposed reservation again changes no amount and is
  left out.
* Settlement may write any price up to the maximum, as the code closes a larger one at
  the maximum.
* `Charge` counts a reservation whose exposure has passed its deadline check and is not
  committed yet (`Standing`).  That is what the budget lock in `lockReservation` is for,
  and `SumStillCovers` fails without it.

`BudgetAccount` is the promise: an admission compares and adds in one step, a lower
limit may be adopted at any time, amounts otherwise only return.  `KeepsThePromise`
states that `BudgetLedger` implements it under the mapping of `committed` to the sums
of charges.

### Answers and AnswerPromise

A question is admitted by the API in one transaction that reserves its whole price.
Every worker process runs a scanner that visits requests every 15 seconds; a visit
starts the call of a reserved request, ends a request that may not go on, erases what
may no longer be kept, or deletes the receipt.  The call itself happens outside any
transaction, and its result is committed under the fences of the moment.

| State | Rows |
|---|---|
| `consent` | `usage_answer_consents`: granted, epoch, configuration |
| `current` | the current revision of each material, 0 once deleted |
| `request` | `answer_requests`; deadlines are the flags `live`, `kept`, `deduped` |
| `attempts` | `answer_call_attempts` |
| `reservation` | the rows of `usage_embedding_reservations` that belong to these requests |
| `slot` | local variables of the worker's `AnswersService.process` |
| `billed` | what the provider really charged; no row holds it |

| Action | Code |
|---|---|
| `Grant`, `Revoke` | the API's `AnswerUsageService.grant`, `revoke` |
| `Generate` | the API's `AnswersService.generate`, with its evidence, history and reservation |
| `Report` (an operator) | the API's `read`, which writes nothing |
| `Start`, `Call`, `Complete`, `CompleteTooLate` | the worker's `start`, the provider, `complete` with `finish` and `settle` |
| `End`, `ClearContent`, `DeleteReceipt` | the branches of `start` for a request it does not call for |
| `Abandon` | crash, or a completion that fails and rolls back |
| `EditMaterial`, `DeleteMaterial` | the materials component |
| `ReservationLapses`, `RequestLapses`, `AnswerLapses`, `ReceiptLapses`, `UsageAges` | the database clock passes a deadline |

Abstractions.

* One owner.  Every transaction about answers locks the owner's consent row first and
  keeps it, so the transactions of one owner are serial and a transaction is an action.
  `start` and `complete` read the request once before that lock; what they use of that
  reading does not change while the request is active, so they may as well read it after.
* The evidence of a request is of one material.  `sources` adds the earlier answers whose
  claims the question repeats, which may be of any request of the owner.
* The result of a call is chosen at `Complete`, because nothing observes it before; the
  bill is chosen at `Call`, because money is spent then.  `Bills` may exceed
  `RequestMax`: the code closes such a reservation at its maximum.
* An attempt is identified by the slot that drew it.
* A request's deadline never passes before its reservation's: both are computed in one
  transaction with the same length, the reservation first.  The 90 days after which a
  usage receipt may go are the flag `aged`.
* A request id that is known already is a replay or a conflict and changes nothing, so
  `Generate` requires an absent one.  Whether the month's budget admits the reservation
  is `BudgetLedger`'s subject; a refusal changes nothing here.
* A worker may run another configuration than the API, or none (`None`).

`AnswerPromise` has two variables per request: what its owner is told and what it may
cost.  `KeepsThePromise` states that `Answers` implements it, where `answered` means that
`read` shows an answer to a process of the request's own configuration.

### Materials and Documents

A mutation of a material is one transaction: read the receipt of the idempotency key, lock
the material's row and compare its revision, insert the revision with its chunks and the
receipt.  Each of these is a step of `Materials`, since a repetition of the same request
may run beside it; what the transaction writes becomes visible at its commit, `Write`, and
the unique key of the receipts decides which of two transactions commits.

| State | Code |
|---|---|
| `materials`, `revisions`, `chunks`, `receipts` | the tables of `packages/db/src/schema/materials.ts` |
| `calls` | requests being served, and answers that have not arrived |
| `tabs` | what a page shows (React Query's cached document and its fetch) and its open form |
| `drawn` | keys drawn with `crypto.randomUUID()` |
| `based`, `sent` | the revision a user had before them; a counter.  No code has them |

| Action | Code |
|---|---|
| `ReadReceipt`, `LockMaterial`, `Write`, `ReadWinner` | the statements of `create`, `update`, `delete` and `writeWithReceipt` |
| `Fail` | the database is unavailable, or a transaction is rolled back |
| `OpenEditor`, `OpenDialog`, `Type`, `Cancel`, `Save`, `ConfirmDelete` | the editor, the dialog and the form of a new material |
| `Deliver`, `LoseConnection` | an answer arrives, or the browser gives up while the API may go on |
| `Refetch`, `FetchArrives`, `FetchFails` | the query of the document |
| `Reload`, `RecoverDelete` | what the page offers after a conflict |
| `Elsewhere` | another tab saves or deletes, from any revision of the document |

Abstractions.

* A body is a sequence of a few kinds of code units (a letter, a line break, the halves of
  a surrogate pair) and `ChunkSize` is 2 instead of 1200; normalisation and chunking are
  carried out on it.  Title, source, concepts and keywords are written together with the
  body, compared with it in the fingerprint, and left out.
* A fingerprint is what is hashed: operation, material, expected revision, prepared
  content.  Hashes do not collide and keys are drawn once.
* A read of the document is answered at once and arrives later: `fetch` holds what it
  will show.  `based` is what `NobodyOverwritesUnseen` is about.
* After a conflict the editor offers to discard the draft and load the latest revision; in
  the code the draft goes when that read has arrived.  `Reload` is one step.
* A transaction that finds its receipt's key taken by one that has not committed waits for
  it.  Here a transaction that has not committed has written nothing, `Write` decides, and
  the wait is the interval before the loser's step.

### Sessions and BrowserClient

`Sessions` is the API: a call is looked at by the middleware when it arrives, decided by one
compare-and-set or delete on the account's row, and answered.  Who calls, with which of
all tokens ever issued, is arbitrary.  `BrowserClient` lets one page and other tabs with
the same cookies call it.

| State | Code |
|---|---|
| `row`, `oauth` | `auth_refresh_tokens` of the account, `auth_oauth_states` |
| `tokens` | what is signed into each issued pair of tokens |
| `stale`, `lapsed` | access and refresh tokens whose time is over |
| `jar` | the cookies: access, refresh, CSRF token and its binding, login state |
| `client`, `refreshes` | the variables of `createBrowserApiClient`; `lastRefresh` and the promises before it |
| `requests`, `logout` | requests of the screens and the logout, by the await they stand at |
| `page` | what `AuthBoundary` shows, and whether private answers are cached |
| `ended`, `acts`, `elsewhere` | logged-out logins, what users did, calls of other tabs.  No code has them |

| Action | Code |
|---|---|
| `ServeRefresh`, `ServeLogout` | `AuthService.refresh`, `logout` |
| `BeginLogin`, `ConsumeState`, `RefuseState`, `CompleteLogin` | the login and its callback |
| `Start`, `RequestArrives`, `RequestLost` | `sendProtected`, with `Recover` for its 401 |
| `CsrfArrives`, `CsrfFails` | the shared bootstrap of a CSRF token |
| `SendRefresh`, `RefreshArrives`, `RefreshLost` | `refreshSession` |
| `ClickLogout`, `SendLogout`, `LogoutArrives`, `LogoutLost` | `sendLogout` behind its gate |
| `Redirect`, `Reopen` | `AuthBoundary` leaves the page; a new page is loaded |
| `OtherTab`, `GoToGoogle`, `FollowCallback`, `AnswerElsewhere` | calls of other tabs, and their cookies |
| `AccessRunsOut`, `LoginLapses`, `StateExpires` | time |

Abstractions.

* One account.  A CSRF token is the cookie it is bound to: signatures hold, and the
  cookie's own expiry is left out, as is the batch that deletes expired OAuth states.
* An access token outlives the requests that were sent again with it (`AccessRunsOut`):
  15 minutes against one round trip.
* `AbortController` aborts at once what is on the wire; what waits for a promise fails
  when it goes on (`throwIfAborted`).  A replaced controller stays aborted.
* The transport says of itself that tabs are not coordinated (`api-client.ts:110`), and a
  renewal whose answer was lost logs the browser out at the next one.  `NotThrownOut` and
  `SignedOut` are therefore about a page that is alone (`acts.alone`) and, the first of
  them, heard the answers to its renewals (`acts.unheard`).

### AnswerPanel

One action is one event of the panel: a user's click, a call served by the API, its answer
arriving, a call failing.  After each the panel is rendered and its effects run (`Render`):
the conversation ends when the consent's epoch has changed, queries of answers start under
the new key, a stream is opened or aborted.

| State | Code |
|---|---|
| `consent`, `policy`, `admitted` | the owner's consent, the API's policy, `answer_requests` as a browser sees it |
| `page` | hooks of `AnswerPanel` and `useAnswerEvents`: configuration, turns, results, the mutations, approval, revocation, stream |
| `adrift` | calls the panel has given up on and the API may yet serve |
| `learned`, `questions`, `acts`, `losses` | what the panel was told, asked, and counters.  No code has them |

| Action | Code |
|---|---|
| `Ask`, `Repeat` | the form, and the button that sends the same request again (`submit` with `grant`) |
| `Reread`, `Reconnect`, `Recheck`, `Focus`, `StartOver` | the other buttons, and React Query's refetch on focus |
| `OpenRevoke`, `CancelRevoke`, `ConfirmRevoke` | the dialog of the withdrawal |
| `ServeConfiguration`, `ServeGrant`, `ServeGenerate`, `ServeRead`, `ServeRevoke`, `ServeEvent`, `ServeAdrift` | `AnswersController` |
| `...Arrives`, `...Fails`, `StreamBreaks`, `StreamEnds` | answers, errors and the end of the event stream |
| `GrantedAdrift` | the good answer to a grant of a submission that the panel no longer observes |
| `Progress`, `Elsewhere` | workers; other tabs and deployments |

Abstractions.

* States of an answer are grouped by what the panel does with them: running, published,
  failed, invalidated.  A request is never deleted while the panel knows its id.
* The query of an answer that failed and has no data shows no error while it is fetched
  again.  Here the error stands until that fetch has been answered.
* A policy is always configured.  Leaving the page, and opening another revision, which
  remounts the panel, are left out; so are changes between two updates of one render.
* `submit.reset()` after the panel's own withdrawal stops observing the submission and does
  not stop it (`answer-panel.tsx:188`): a grant that is answered well still clears
  `consentRequest`, invalidates the configuration and sends its question (`Unobserved`,
  `GrantedAdrift`).  The question may be served before the configuration is read again.
* A stream is `StreamReads` reads long: 60 and the one of its guard in the code.
* `generate` carries no consent epoch.  A question whose call is delayed until the consent
  was withdrawn and given again is admitted under the later one; ADR 0008 (line 44) names
  the guarantee for texts already admitted, so this is modelled and not a finding.

## 3. Runs

`MaxRevision`, `MaxEpoch`, `LastMonth`, `MaxCalls`, `MaxRefreshes`, `MaxActs` and
`MaxLosses` cap counters; everything else that is finite is a set of identities.

| Run | Instance | Shows |
|---|---|---|
| `retries` | 1 work, 2 slots, 2 attempts, 2 revisions, 3 epochs, fairness | `OneOpenAttempt`, `NothingStranded`, `ReservationsSuffice`, `ClosedStaysClosed`, `EveryWorkEnds` |
| `generations` | 2 works, 2 reservations, 3 epochs, retries by the user | `OneLiveGeneration` |
| `rolling` | 2 works that may share a reservation, 2 slots, 2 materials, 2 configurations at once, 3 epochs | `CallsAreAccounted`, `ReservationsSuffice`, `ClosedWithItsWorks`, `UseIsAllowed` |
| `budget_ledger` | 2 reservations, 2 months, limits 3 and 4, amounts 1 to 3 | `SumStillCovers`, `NoLateAdmission`, `ChargesOnlyFall`, `KeepsThePromise` |
| `answer_calls` | 1 request, 2 slots, bills up to one above the maximum, 3 epochs, fairness | `OneRecordedCall`, `LedgerCoversBills`, `ClosedTogether`, `EverythingIsErased` |
| `answer_policies` | 1 request, 2 slots, 2 configurations, 3 epochs | `ContentMatchesState`, `NeverShownAgain`, `PublishesOnlyPermitted`, `KeepsThePromise` |
| `answer_history` | 2 requests, 2 revisions, 3 epochs | `SendsOnlyPermitted` |
| `documents` | 3 materials, 4 revisions, 4 keys, 2 calls at once, 3 in all, a reader and a library tab | `RequestsAreAtomic`, `ChunksRestoreBody`, `FormsRepeatSafely`, `OwnSaveIsShown`, `RepeatedRequestIsNotRefused`, `NobodyOverwritesUnseen`, `ReportedTextIsStored` |
| `browser` | 3 pairs of tokens, 3 logins, 2 OAuth states, 2 calls, 2 requests, 2 renewals, 3 acts, fairness | `CredentialsWorkOnce`, `LogoutEndsLogin`, `SignOutIsClean`, `NotThrownOut`, `NothingOutlivesLogout`, `EverythingSettles` |
| `answer_panel` | 2 requests, 2 policies, 4 acts, 1 lost call, fairness | `ConsentIsKept`, `OneAdmissionPerQuestion`, `NeverStuck`, `WaitsEnd` |
| `answer_reasons` | 1 request | `TerminalReasonReturned` is violated: see below |
| `answer_panel_approval` | as `answer_panel` | `ApprovalIsOffered` is violated: see below |

Some properties are conjunctions of named parts that belong together: `ReservationsSuffice`
(`LedgerCoversBills`, `SettlementFits`), `ContentMatchesState` (`NothingLeftBehind`,
`ShownIsComplete`), `RequestsAreAtomic` (receipts, revisions and checks at commit),
`FormsRepeatSafely`, `CredentialsWorkOnce`, `SignOutIsClean`, `ConsentIsKept`, `WaitsEnd`.
The parts of `SignOutIsClean` have theorems of their own: `RenewsOnce`, `LogoutIsAlone`,
`LeftPagesAreEmpty`.

What the properties leave open.  `SignedOut` says nothing when another tab has acted:
nothing stops that tab's renewal from setting cookies after the logout's answer.
`NotThrownOut` says nothing then either, nor after the answer to a renewal was lost.
`LeftPageHoldsNothing` says nothing of renewals.  `OwnSaveIsShown` excepts an open form and
a screen whose last read failed; that one shows the old revision under a warning.
`ShownUnderItsConsent` excepts the read that follows the panel's own approval.  And
`ApprovalBeforeSending` asks only that some approval has been stored: after a withdrawal
elsewhere the panel may know an old configuration and send, and the API refuses.
`OneLiveGeneration` is about works of one revision, configuration and epoch: a material may
have published works of several.
The type invariants of `EmbeddingWork`, `BudgetLedger` and `Answers` are proved only; those
of the other modules are parts of the properties above, and proved with them.

Why the bounds are enough.  The protocol's conflicts are between two handlers of one
work, between a handler and recovery, between two works of one reservation, and between
two epochs or configurations; each has a run with two of the things that conflict.
Two attempts let a late answer to the first meet the second, which is the last; the
proofs of `OneOpenAttempt` and `CallsAreAccounted` are for any number.  Three epochs are a
grant, its revocation and a grant of the same policy, which looks like the first but for
its epoch.  `rolling` has them for two works of two configurations; its materials have one
revision and change by deletion only, since a second one is too much for it.  An edit under
a work is in `retries`, and `UseIsAllowed` with edits is what `UseIsAlwaysAllowed` proves.
The claims of an earlier answer meet both an edit and a later consent in `answer_history`.  A shared reservation closes
because its works end (`EveryWorkEnds`) and because the last of them closes it
(`ClosedWithItsWorks`).  Two reservations are what a race for the budget needs: one that
is charged or being exposed and one that is admitted meanwhile; limits of 3 and 4 with
amounts of 1 to 3 fill a month exactly, overflow it by one, and tell the common limit from
a share.  In `Answers` two slots let a call that was given up return while its request id,
deleted and used again, has a new call; two configurations are a deployment in progress;
two requests let a question repeat an answer whose material has been edited since.
In `documents` two calls at once are a request and its repetition, or two tabs; the third
is sent after their answers or their loss; four revisions and keys are the first ones and
one for each call, and bodies of four code units with a pair of surrogates across the limit
of a chunk of two exercise each branch of the cutting.  In `browser` three acts are, for
example, two requests of which one is late, and a logout, or a request, a logout in one tab
and a renewal in the other; two renewals tell a shared one from a second one.  In
`answer_panel` four acts are an approval with its question, a withdrawal elsewhere, a new
approval elsewhere, and a repetition or a deployment; one lost call makes the fate of an
approval or a question unknown.
Slots, works, reservations, requests, materials and calls are interchangeable, so
`SYMMETRY` is sound in the safety runs; the runs with liveness properties use none.
`CHECK_DEADLOCK FALSE` is set because a system in which everything has ended, every
material is deleted and the bounds are reached has nothing left to do.

Fairness.  `RepairFairness` says that an active work that can be recovered is eventually
recovered and that deadlines pass.  `EmbeddingRepairService.runOnce` runs every 15
seconds in every worker process, `reserveRepairBatch` takes the active works that were
visited longest ago, and an error in one work does not stop the batch.  Nothing is
assumed of the handlers, the queue or the provider.  The recovery of a work that keeps
being retried ends because its reservation's deadline passes.

`SweepFairness` in `Answers` says that the visits of some one configuration, or of a
worker without one, keep happening to every request, and that the deadlines of
reservation, request and answer pass.  The scanner runs every 15 seconds and takes the
requests visited longest ago.  It has no error handling per request, so one request whose
visit always throws stops the ones behind it in the batch; the assumption that visits
succeed is therefore an assumption, and the throw is listed as a hazard.  Nothing is
assumed of the provider, of calls under way, or of the end of receipts.

`Fairness` in `BrowserClient` says that the network and the API answer or fail every call in
the end and that a continuation whose promise has settled runs; the users' acts are
bounded.  In `AnswerPanel` it is one weak fairness condition over the API's steps and the
arrivals: acts and losses are bounded, so steps that are always possible in some form
exhaust the calls under way one by one.  Workers need not make progress there.

Findings.  `answer_reasons` is expected to be violated.  ADR 0008 says that a repeated
request whose stored result cannot be shown is told the terminal reason.  `start` clears
the evidence of every ended request whose `answer_expires_at` is not in the future, and
for a request that failed or was invalidated this column is null.  The next visit
therefore replaces `provider_failed`, `invalid_response`, `evidence_changed` and the
others by `expired`, and `read` reports that.

`answer_panel_approval` is expected to be violated.  ADR 0008 (line 40) has no separate
button for the consent: the first execution button approves.  The panel computes
`waiting` from an answer it hides while it is not `consented`
(`answer-panel.tsx:153-158`).  When the configured policy changes while an accepted question
stands, the epoch stays and with it the conversation; `consented` turns false, so the answer
is hidden and `waiting` turns true, also for an answer that had been published.  The form
and the button for a new conversation are disabled by `waiting`, and no control approves the
new policy until the page is left.  `NeverStuck` says that this is the only such state.

## 4. Proofs

Every theorem is for all values of the constants under the assumptions below.  The sets of
works, requests, slots, calls, tabs, tokens, keys and policies are arbitrary, as are the
bounds; where something is counted or summed a set is assumed finite, as tables are.

| Property | Theorem |
|---|---|
| `OneOpenAttempt`, `NothingStranded` | `AttemptsNeverDrift`, `NothingIsStranded` |
| `CallsAreAccounted`, `ClosedWithItsWorks`, `ClosedStaysClosed`, `UseIsAllowed` | `CallsAreOnRecord`, `ReservationsCloseWithTheirWorks`, `ClosedIsClosed`, `UseIsAlwaysAllowed` |
| `ReservationsSuffice`, `OneLiveGeneration` | `BillsNeverEscape`, `GenerationsAreUnique` |
| `SumStillCovers`, `NoLateAdmission`, `ChargesOnlyFall` | `SumsStayCovered`, `NobodyIsLate`, `ChargesFall` |
| `KeepsThePromise` of `BudgetLedger`, `KeepsThePromise` of `Answers` | `LedgerKeepsThePromise`, `Implements` |
| `OneRecordedCall`, `LedgerCoversBills`, `ClosedTogether`, `ContentMatchesState` | `CallsOnce`, `BillsAreCovered`, `EndsTogether`, `KeepsWhatItShows` |
| `PublishesOnlyPermitted`, `SendsOnlyPermitted`, `NeverShownAgain` | `PublishesPermitted`, `SendsPermitted`, `StaysRefused` |
| `RequestsAreAtomic`, `RepeatedRequestIsNotRefused`, `ChunksRestoreBody` | `TabsRequestsHappenOnce`, `TabsRepetitionIsAnswered`, `ChunksAreWhole` |
| `FormsRepeatSafely`, `OwnSaveIsShown`, `NobodyOverwritesUnseen`, `ReportedTextIsStored` | `FormsMayRepeat`, `SavedEditIsShown`, `OverwritersHaveSeen`, `ReportedIsStored` |
| `CredentialsWorkOnce`, `LogoutEndsLogin`, `NothingOutlivesLogout` | `BrowserSpendsOnce`, `BrowserLogoutIsFinal`, `LogoutCutsEverything` |
| `SignOutIsClean`, `NotThrownOut` | `SignsOutCleanly`, `NeverThrownOut` |
| `ConsentIsKept`, `OneAdmissionPerQuestion`, `NeverStuck` | `ConsentComesFirst`, `QuestionsAreAdmittedOnce`, `PanelNeverSticks` |

Model-checked only: the liveness properties `EveryWorkEnds`, `EverythingIsErased`,
`EverythingSettles` and `WaitsEnd` (fairness and `ENABLED` are out of the provers' reach),
and the two properties that are expected to be violated.

Assumptions.  The named assumptions of each module say that bounds are numbers, that
`None` and its like are none of the values they stand beside, and that sets from which
something is chosen are not empty.  `None` is a model value; that it is not a record cannot
be derived in TLA+, so `NoneIsNoRecord`, `NoneIsNoRow` and `NoneIsNoForm` say it of the sets
in question.  The ones about the code are few: the provider charges at most `CallMax`
for an embedding call and reports what it charged, or more than it can have charged
(`EmbeddingWork`); `ChunkSize` is at least 2 (`material-content.ts` has 1200); `Prepare`
yields a text.

### Induction over data

The library's induction theorems take the predicate as an operator, which cannot be
instantiated here.  `FiniteSums` therefore states them with a set in its place:
`SubsetInduction` (what holds of a finite set as soon as it holds of every smaller one),
derived from the well-foundedness of strict inclusion, and `CountingUp`.  From the first
follows that the recursive function by which a sum is defined exists, what a sum does when
one amount changes, and `SumIsBounded`.  Nothing is assumed.

### EmbeddingWork

Every step is classified by what it does to the row of a work (kept, timed, created,
claimed, begun, returned, finished; `StepChanges`).  The invariant `RowInv` relates a row to
its attempts and is proved from that classification once, instead of once per action.  It
contains `OneOpenAttempt` and `NothingStranded`, which are not inductive alone: that the
newest attempt carries the work's lease token needs to know that absent works have no
attempts and that waiting works have no token.  `LedgerInv` relates works to reservations,
and `SlotInv` what a handler knows to the rows: a slot past `callInput` has an attempt, and
a reservation with an attempt is exposed.

Bills need three more parts.  `BillInv`: a receipt is no less than what the provider
charged for that attempt.  `HolderInv`: a slot that has called is the only one that may
write the receipt of its attempt, even after the lease was recovered, and what it was told
is no less than the bill.  `CoverInv`: a reservation that was never exposed, or was
released, has no attempts, and one that is settled stands at its maximum or at the sum of
the receipts of all its attempts.  With these, `BilledTotal <= settledAmount` is an
inequality of sums over the attempts, of which there are at most
`MaxAttempts` for each work.  That `settledAmount` is a number follows from the same lemmas.

Generations are unique because a work that lives after a step lived before or was created
by it, and the transaction that creates works opens their reservation and leaves out every
revision that has a live work of the same configuration and epoch (`Opened`).  The partial
unique index of the table is thus never what refuses an insert.

### BudgetAccount and BudgetLedger

`BudgetAccountProofs` proves three consequences of the promise, for any months and policies
that are well formed (`PoliciesOK`): no month beyond the largest approval, growth only within
the limit in force, limits that only fall; `WithinApprovals` is inductive together with the
types.  `PromiseIsMeant` shows that the hypothesis is the one `BudgetLedger` makes of its own
policies, so the promise it keeps is the one proved about.

`BudgetLedgerProofs` proves `LedgerInv`, for any number of concurrent transactions and
months: a row names its caller and a month that has begun (`RowOK`), a transaction past
`LockBudget` holds the row of its month and has not written its reservation yet (`TxOK`), a
row that is alive now was alive when an open admission read the clock (`AliveOK`), and
`SumStillCovers`.  That every transaction that could raise a charge holds the lock is what
makes the last one inductive.  `NoLateAdmission` and `ChargesOnlyFall` follow.

The refinement is proved action by action: a step changes the amount of at most one row of a
month, so the month's sum moves by that difference, and the step is an admission, a charge,
a release or a stutter of the account.  `RowsStayWithinApprovals` and `RowsGrowWithinLimit`
carry the account's theorems over to the rows.

### Answers

`AnswersProofs` follows the plan of `EmbeddingWork`.  Every step is classified by what it
does to the four rows of one request (timed, created, begun, billed, ended, cleared,
deleted; `StepChanges`), and the invariant `AnswersInv` is proved from the classes.  Its
parts are `RowsOK`, which relates a request to its reservation, attempts and bill;
`SlotsOK`, what a call under way still knows of its request (a bill that arrives late meets
a reservation closed at its maximum); and `PermissionOK`, that no request is of a later
epoch or revision than the present ones.  The last one is needed because permissions only
fade (`PermissionsFade`): with it an origin that has become invalid can never become valid
again, which gives `NeverShownAgain` and, step by step, the refinement `Implements` of
`AnswerPromise`.

### Sessions and BrowserClient

`SessionsInv` adds to the types that the row of the account holds a token nobody has
exchanged yet, that its login has not ended, and that a state which was used up, or is being
used by a call, has no second call on its way; `CredentialsWorkOnce`, `LogoutEndsLogin` and
`LapsedLoginIsOver` follow.  A logout deletes the row whichever token of the account it
names, so a rotation that raced with it either came first, and its result is deleted, or
finds no row.

`TransportInv` is about the page.  Only the last renewal can be under way, because a
request starts one only when none is (`LatestOnly`).  Every request that waits has joined
it (`Sharing`): a request refused late that starts none finds what became of the last one,
and a renewal that still awaits its token is dropped only with all who wait for it.  This is
`OneRenewalAtATime`.  A request on the wire carries the
signal of the controller in force (`Alive`); one that carries it was sent after the last
logout and before the end (`RequestsOK`); a logout aborts the controller, a logout that is
under way keeps it aborted, and what it waited for does not come back (`Cutting`,
`LogoutQuiet`).  With them a request beside a logout on the wire, or of a page that has been
left, is at rest or tied to an aborted controller, so it will fail before it is sent
(`LogoutTravelsAlone`, `LeftPageHoldsNothing`).  `NothingOutlivesLogout` follows step by step.  `Waiters` says that nobody
else hears the answer to a call the page waits for.

For a page that is alone, `AloneInv` adds that all tokens are of its one login, that every
call is a renewal or a logout with one of them, and that a good answer to a logout means
the login is over; this is what makes the cookies of `SignOutIsClean` harmless.
`HeardInv` is for a page that is alone and has heard its renewals' answers: it waits for
every renewal there is, its cookie or the answer on its way is the stored token
(`RowOK`), and what it was given for requests sent before a renewal has not run out
(`LateServed`).  Then a refusal means that the row is gone or the login has lapsed, which is
`NotThrownOut`.

### Materials and Documents

`MaterialsInv` says which rows a call between `LockMaterial` and `Write` relies on: the
material's row is held by that call alone, so what it checked there still holds when it
commits; that the numbers of a material's revisions end with the current one makes the next
number free.

`DocumentsInv` adds the tabs.  `KeysAgree`: every key has one use, so calls under it, the
receipt filed under it and the form that has drawn it ask for the same (`Agreed`); this is
why a form may repeat after any answer or none.  `AnswersLast`: an answer that reports
success goes back to a receipt, and what was refused stays impossible, so an answer may
arrive as late as it likes.  `ScreensOK`: a form expects the revision its fields were filled
from, and once a tab has saved a revision, nothing earlier is shown or on its way to it
without a warning.  What a commit of another call does to all of these is proved once
(`CommitMoves`), and that serving changes nothing a tab holds once more (`ServeSpares`).

`ChunkBody` and the joining of chunks are functions defined by recursion.  That they exist
and are what their equations say is proved by `CountingUp` (`Cuts`, `Joins`); then, by
induction over the number of chunks, what has been joined is the text up to some position
and what remains are the cuts of the rest (`Reached`).  A cut is not empty, not longer than
`ChunkSize` and does not separate the halves of a surrogate pair (`CutFacts`).  Chunks are
written together with their body (`ChunksAgree`), so this holds of every stored revision.

### AnswerPanel

A step of the panel is an update and a rendering.  `Ready` says what an update must leave
for the rendering to restore the invariant, and `RenderKeeps` proves that it does, so that
an action needs no proof about the effects.  The parts of `PanelInv`:

* `ActsCover` and `QuestionsCover`: every increase of the epoch is paid for by an act (a grant
  or a withdrawal that is `Owed` by the panel, `Unspent` adrift, or done), and every id that is
  in a row, a turn or a call by a question; `OneAdmissionPerQuestion` is the latter.
* `ConfigOK`: the configuration shown is not older than what the panel was told, unless a
  grant is being followed by its read (`checking`) or there is no conversation.
* `SubmitOK`, `ConsentOK`: a question is sent, or adrift, only after an epoch above 0.
* `FitsOK`: a published answer that is cached, on its way, or in the stream was admitted
  under the epoch shown or a later one.  With `ConfigOK` this is `ConsentIsKept`.
* `ReadsOK`, `StreamOK`: an answer that is wanted is there, has failed or is being fetched;
  a pending one is followed by a stream or the loss of its stream is on record.  With
  nothing under way this leaves a control (`NeverStuck`).

Two statements did not survive the proof.  `ShownUnderItsConsent` used to be claimed in
every state: it is false while a grant is `checking`, since the panel then knows the new
epoch from the grant and still shows, until the configuration has been read again, answers
of the epoch before (`answer-panel.tsx:113-116`); nine acts are needed, more than the run
has.  The exception is now part of the property.  And a submission that the panel stops
observing was taken to end there; it goes on, as described under the module.

## 5. Not modelled, and the plan

All that the passing runs check about single states, single steps and the two refinements is
proved.  Of proofs, what is left is about modules that do not exist yet, and
`ChunksRestoreBody` for `MaterialsSpec`, whose callers may send any draft and which assumes
nothing of `Prepare`; through the document page it is proved.

Left for later, each a module of its own:

1. `FencedTx`: the row locks under `EmbeddingWork`'s actions, deadlock freedom, and the
   refinement of an atomic step by locking steps.
2. `Delivery`: BullMQ add, retry and loss; redelivery by repair.  `EmbeddingWork` lets any
   due work be claimed at any time, which contains all that delivery can do.
3. `Activation`: request receipts, replays and conflicts, expected epochs, the cursor of
   `includeExisting`, and the embedding panel over it.
4. Vector and audit cleanup.
5. Semantic query beyond its reservation: the call and the second read.

Of answers, ranking and selection of evidence, several materials in one question, and the
check of a provider's candidate are left out: `rejected` stands for every candidate that
`complete` refuses.

Left out for good: keyword ranking and snippets (pure reads), HTTP mapping, health,
logging, the search and library screens, and generated code.

One behaviour is worth knowing.  While a configuration change is being rolled out, a
process that still runs the old configuration recovers works of the new one and marks
them `OBSOLETE` (`config_changed`); neither the scan nor a plain activation creates them
again, because terminal works count as existing, and only the user's explicit retry
does.  `docs/adr/0004` describes both rules, so this is not listed as a finding.
