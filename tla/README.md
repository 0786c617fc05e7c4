# LearnIA API: formal models

TLA+ models of the LearnIA backend (a FastAPI service over Supabase/PostgreSQL
and OpenRouter), the TLC runs that check them on small instances, and TLAPS
proofs about them for every instance. Paths are relative to the repository.

## 1. The system

Every repository call is one HTTP request to PostgREST
(`app/infra/repositories/base.py:143`), sent from a worker thread while the
event loop serves other requests, with a client timeout of ten seconds
(`app/infra/db/supabase.py:26`). A timed-out call may still commit. There is no
transaction across calls: what must be atomic is a PL/pgSQL function under
`supabase/migrations`, which runs at READ COMMITTED and takes row or advisory
locks. So the state of the system is in the tables, in the requests that the API
is serving (what they have read so far), in the replies its clients hold, and in
the calls that were abandoned.

| Component | State | Operations | What makes it correct, what is hard |
|---|---|---|---|
| Exam attempt workflow (`usecases/exam_attempts.py`, `services/exam_attempts.py`, `repositories/attempts.py`, migration 0600) | `attempts`, `user_answers`; a request's snapshot of questions and answers | start, session, submit, finish | one attempt in progress per user and exam, numbering and limit, verdicts only for the values they were given for, a finished attempt is final. Requests of several tabs, edits by managers, late and lost calls |
| AI usage quota (`repositories/ai_usage.py`, migration 1200) | `ai_usage_events` | reserve | never more units than the limit in any hour or UTC day; the clock is read before the lock is waited for |
| Auth rate limiter (`api/auth_rate_limit.py`) | per-scope sliding windows in memory | check, clean up | never more than the limit in any window; clock read before the lock, bounded number of keys |
| Document ingestion (`rag_support/documents.py`, `repositories/documents.py`, `document_chunks.py`, `infra/storage`) | storage objects, `documents`, `document_chunks` | upload, delete, status update | a document called ready has all its chunks; one document per content; compensation of partial failures, crashes in the middle |
| Conversations (`rag_support/conversations.py`, `repositories/rag.py`, migration 1100) | `ai_conversations`, `messages` | chat, history, append message | order and pairing of messages, bounded history, failure after the question is stored |
| Generated study material (`rag_support/study_materials.py`, migration 1000) | `flashcards`, `exams`, `questions`, options | generate flashcards, generate exam, list flashcards | all or nothing, paid for once; the provider answers anything of the form asked for, and a lost reply makes the client repeat |
| Learning events and statistics (`usecases/user_statistics.py`, migrations 0700, 0900) | `user_learning_events` | record (user, server), read statistics | idempotent by client key, limits per minute and day under overlapping calls; statistics of reads that are not one snapshot |
| Authentication (`usecases/auth.py`, `repositories/auth.py`) | Supabase Auth users, `users` | register, sign in, codes, sign out, current user | the profile of every identity; look-up and creation are separate, and the operator deactivates in between |
| Profile photo (`usecases/user_profile.py`) | storage object, `users.profile_image_path` | replace, read, remove | the row names an object that is there, whatever replacements overlap, fail or come late |
| Rooms, notebooks, members (migration 0800, RLS in 0500) | `rooms`, `members_rooms`, `study_members`, `notebooks` and their links | create and delete, add and remove members, link | access follows what managers gave away; functions of several statements without a common lock |
| Tags (migrations 1300 to 1500) | `tags`, `notebook_tags` | create, default tag, link | ownership; single statements |
| Pure algorithms: chunking, history bound, grading and rounding, query filters | none | functions | boundaries: windows that end with the text, overlaps, termination |
| HTTP, OpenRouter and Supabase clients, prompts, schemas, configuration, CRUD resources | none of their own | I/O, parsing, formatting | not modelled |

The components meet in the database (`exam_questions` and options are written by
the generation of exams and by managers and read by attempts), in the AI quota
(charged by chat, ingestion, generation and grading before the provider is
called), and in membership (read by every component at the start of a request).

## 2. Plan

In order of importance to users of the program. All of it is done.

1. `ExamAttempts` with its abstract specification `AttemptLedger`, and
   `ExamAttemptsProofs` (section 3).
2. `AiUsageQuota`: reservations with stale clocks, the lock and the purge, and
   `AiUsageQuotaProofs` (section 4).
3. `DocumentIngestion`: upload and delete with their compensations, crashes and
   lost replies, and `DocumentIngestionProofs`; `Chunking`, the pure algorithm it
   relies on (section 5).
4. `AuthRateLimiter`: sliding windows, refusal, clean up, and
   `AuthRateLimiterProofs` (section 6).
5. `Conversations`: chats and listings of one conversation interleaved with
   each other and with the transactions that store messages; its abstract
   specification `ConversationLog`, and `ConversationsProofs` (section 7).
6. `Workspace`: rooms, notebooks and members under the row policies, and
   `WorkspaceProofs` (section 8).
7. `Accounts`: sign-in, profiles and photos (section 9).
8. `StudyActivity`: generated material, learning events, statistics, and
   `StudyActivityProofs` (section 10).
9. Proofs of `NoUnreservedVerification`, `NothingLeftBehind`,
   `PromptHoldsQuestion`, `LimitsKept` and `StatisticsAddUp`, which need more than
   the invariants of 1, 3, 5 and 8.
10. `ServicesProofs`: the proofs of 7 and of `Chunking`, and what is proved of the
    run that checks them together with 8 (section 10.3).

## 3. Exam attempts

### 3.1 How the model corresponds to the code

`ExamAttempts` has one action per database call of the workflow. A request of
client `c` is the record `call[c]`: `step` names the call it makes next, the
other fields hold its arguments and what its earlier calls returned, so that two
requests interleave exactly where the code awaits.

| Step of a request | Code |
|---|---|
| `Arrive` | the four routes of `resources/attempts.py` and `resources/exams.py` |
| `ReadAttempt`, `ReadExam`, `ReadAccess` | `_require_owned_attempt`, `_require_attempt_access`, `_require_exam`, `_require_in_progress` |
| `ReadLinks`, `ReadQuestions`, `ReadOptions` | the three reads of `list_exam_questions`, and the checks each use case makes on the result (`QuestionsListed`) |
| `ReadActive`, `ReadAnswers` | `get_active_attempt`, `list_attempt_answers` |
| `CheckStart`, `Create` | `start_exam_attempt` before and under its advisory lock |
| `Submit` | `submit_exam_attempt_answer`, one transaction on the locked attempt row |
| `Reserve`, `Verify` | `reserve_ai_usage`; the verifier (`Judgements`), whose judgement of each open answer is any of right, wrong or unavailable |
| `Finalize` | `finalize_exam_attempt`: status, number of answers, the update of each answer, the score |
| `CallFails`, `CallTimesOut`, `OrphanCommits`, `OrphanVanishes` | a call that fails, or that times out and commits later or never |
| `Manage` | the PATCH and DELETE routes and the column grants of managers, and loss of membership |

The tables are functions of the identifier, one per column: `status`, `owner`,
`number`, `score` of `attempts`; `answer` and `verdict` (value and `is_correct`)
of `user_answers`; `examStatus`, `linked`, `rows`, `expected`, `options`,
`correct` of the exam.

Abstractions. One exam: every statement is scoped to one. Points are left out:
no grant lets anyone update them after generation, so a score is the pair of the
questions that earned their points and the questions that count. Texts are taken
up to the normalisation of the grader. The four reads of `has_notebook_access`
are one step, and `access` also stands for the user's own status. The statements
of `finalize_exam_attempt` are one step, which its lock on the attempt justifies
against submits and other finishes; a deletion of a link between two of its
statements is not modelled. The quota window does not end here and a
reservation is of at most 100 units. `start` never gets an empty reply from
`start_exam_attempt` as it is written, so the re-read of
`usecases/exam_attempts.py:66-73` cannot be reached and is not an action.
`QuotaEnabled = FALSE` is the service without quota; a service without verifier
behaves as one whose verifier is always unavailable.

What the model shows besides its properties: a start whose exam is archived
while it waits for the lock goes on, since the function checks the exam before
the lock only; one whose exam is deleted meanwhile fails on the foreign key. A
client that loses the reply of a finish is refused when it repeats it, and no
document promises it the verdicts. An answered question whose link to the exam is
deleted makes the attempt impossible to finish.

### 3.2 Properties

| Property | What it says |
|---|---|
| `TypeOK` | types, and the foreign keys: an attempt has its exam, an answer its attempt, its question and its option, whatever managers delete between two calls |
| `OneActiveAttempt` | at most one attempt in progress per user, however many starts race |
| `AttemptNumbering` | numbers 1, 2, ... without gap or repetition, within the limit |
| `GradesMatchStatus` | grades exist exactly on completed attempts, one per stored answer, and the score agrees with them |
| `FinishedResponseIsFinal` | a 200 of finish is true when given and stays true |
| `OneFinishWins` | two finishes of one attempt do not both succeed (proved, in no run) |
| `NoUnreservedVerification` | the verifier gets no answer that was not reserved, within the quota |
| `CompletedIsFrozen` | no step changes a completed attempt |
| `GradingIsCurrent` | an attempt is completed only with verdicts given for the values stored at that moment |
| `ImplementsLedger` | the workflow implements `AttemptLedger`: start, answer, finish, erase, each atomic (`Ledger == INSTANCE AttemptLedger WITH ...`) |
| `RequestsAnswered` | every request is answered |

### 3.3 Runs

`MCExamAttempts` gives one closed question with two options and one open
question. All instances have one student with two clients: statements are scoped
to a user, and two requests are enough for every race of the code, whose
transactions involve two parties each. Faults are in the runs `limit` and `live`;
that the properties of `edits` hold with faults too is what the theorems say.

| Run | Bounds | Shows |
|---|---|---|
| `edits` | 1 attempt, 2 questions, 1 edit, no faults | two tabs starting, answering and finishing, with an edit between any two calls: stale snapshots are refused, and the ledger is implemented |
| `limit` | 3 rows, limit 2, 1 fault | starts race for the last number, one of them given up, so both the limit and the numbering bite |
| `live` | 1 attempt, open question, quota of 1, 1 fault | a call given up commits late: the completed attempt is untouched; nothing is verified without reservation; every request is answered |
| `session` | | finding: a start that lost the race is answered without answers |
| `changed` | | finding: a changed value gives 500 where the guide says 409 |

`Attempts` must hold at least as many identifiers as a run can create, or the
insertion would be disabled instead of refused; the limits of the runs see to it.

Fairness (`live` only): weak fairness of `Serve(c)`, the next call of a request
in service. The event loop and its thread pool run every ready task and each call
ends by its result or by the ten-second timeout. Arrivals, faults, late commits
and edits have no fairness.

`session` and `changed` end in a violation and are recorded as findings: they
check sentences of `docs/guia-consumo-api.md` (lines 818 and 896) that the code
does not keep.

### 3.4 Proofs (`ExamAttemptsProofs`)

All safety properties of the table above are proved for every value of the
constants that satisfies `ConstantsAssumption` (finitely many questions, options
and texts disjoint, `None` not a value).

The argument has four layers.

1. *Types.* `TypeInv` adds to `TypeOK` what a request knows at each call
   (`CallOK`): for example a request about to finalize is a finish of an existing
   attempt whose grades are of exactly the answers it read. `TypeOK` alone is not
   inductive: `ReadAnswers` would index the table with an unknown attempt.
2. *Ledger.* `StepShape` shows that a step of the 25 actions is, for the
   attempts, one of five: nothing, an insertion, an upsert, a grading, the
   deletion of the exam. `LedgerInv` is proved over these five only. Its heart is
   `AllGraded`: the cardinality check and the value check of finalize together
   say that the graded answers are all the stored ones. `CompletedIsFrozen`,
   `GradingIsCurrent` and the refinement `LedgerImplemented` follow from it.
3. *Responses.* Answers are replaced but never removed (`AnswersGrow`), so that
   the answers returned by a finish are the stored ones even for questions that
   were not listed to it; from this `FinishedResponsesAreFinal` and
   `FinishSucceedsOnce`.

4. *Units.* `NoUnreservedVerification` compares a counter with requests in
   service, of which there may be any number. Instead of a sum, the proof counts a
   set: `Waiting(u)` holds a pair of client and question for each answer that a
   finish of `u` has reserved and not yet sent to the verifier. `QuotaInv` says
   that the units verified and the pairs waiting are together at most the units
   used, which are at most the limit. A granted reservation adds as many pairs as
   units (`ReserveKeepsQuota`), a verification moves its pairs to the verified
   units (`VerifyKeepsQuota`), and nothing else adds a pair (`OnlyReservedWait`).

Only liveness is model-checked and not proved: no prover here treats fairness.

## 4. AI usage quota

### 4.1 How the model corresponds to the code

Every use case that calls a provider first calls `reserve_ai_usage`
(`migrations/20260713001200_ai_usage_quotas.sql:28-110`) through
`AiUsageRepository.reserve`. `AiUsageQuota` models the function and its callers.

| Action | Code |
|---|---|
| `Begin` | the statement starts: `statement_timestamp()` is fixed, the user must be active, the units in 1..100 |
| `CountUsage` | `pg_advisory_xact_lock` is granted (`Unlocked`), old rows are deleted (`Purged`), the two sums are taken |
| `Commit` | both limits hold (`Fits`): the row is inserted with the clock of the beginning, and the transaction ends; its reply may be lost |
| `RefuseUsage` | a limit does not hold: the exception undoes the purge |
| `Cancel` | the call is cancelled or loses its connection, and is rolled back |
| `Tick`, `SetUserStatus` | time, and the status of a user |

The point of the model is that the clock of a call is read before it waits for
the lock, so rows are committed out of the order of their timestamps and a call
counts with a window that ends in the past. `history` is every row ever
committed, a ghost of the table, and `stored` the rows that are still there. A
row of n units is n pairs `<<row, i>>`, so that `SUM(units)` is a cardinality.

`MaxWait` bounds the life of a call: the statement timeout that Supabase gives
the roles of the API. It is not set in the repository. `QuotaAssumption` needs
only that thirty days are longer than a window and such a call; the bounds on
units and days do not depend on its value otherwise. Units outside 1..100 are
refused by the function itself; an exam of the API has at most 20 open questions.

### 4.2 Properties and runs

| Property | What it says |
|---|---|
| `HourlyBound` | any two instants an hour apart hold between them no more units of an operation than its limit, purged rows included |
| `DailyBound` | the same for each UTC day |
| `RecentRowsStored` | the purge removes nothing that a count may still need (proved, in no run) |
| `RefusalIsJustified` | a refusal is explained by units of the same operation of the last hour or day, give or take the wait for the lock |

| Run | Bounds | Shows |
|---|---|---|
| `quota_windows` | two callers, one operation, hour of 2 ticks, day of 4, retention of 5, nine instants, calls of 1 or 2 units, 1 fault | windows overlap, days end, rows are purged, calls commit out of order, and refusals are due |

Two callers suffice: the lock serialises, so what matters is one call that is
late with respect to another. Users and operations are independent in the
statements of the function, and the theorems are about any number of both. Locks of different operations are independent in
the model; in the code they share a hash of 64 bits, whose collisions would only
make a call wait.

### 4.3 Proofs (`AiUsageQuotaProofs`)

The type invariant (which no run repeats), the two bounds, the purge and the
justification of refusals are theorems for every value of the constants that satisfies `QuotaAssumption`.
For the bounds, consider a commit with the clock `now`, and any
window that holds `now`. It starts no earlier than `now - Hour`, and the count has
no upper end: whatever the clocks of the other rows are, every row of the window
is among the rows counted (`CountIsComplete`), and those are still all there is,
since the lock is held (`Exclusive`, `CountsCurrent`). So the check of `Fits`
bounds the window with its new row (`RowFits`). The bounds are proved as
`HourlyInv` and `DailyInv`, for windows that lie ahead of the clock too, which
makes them inductive. `CountIsComplete` is where the purge must have spared the
window (`RecentRowsStored`, `Hour + MaxWait <= Retention`).

## 5. Document ingestion

### 5.1 How the model corresponds to the code

A document is a row, its chunks and an object in the bucket, and no transaction
spans the three. `DocumentIngestion` models
`rag_support/documents.py` with one action per awaited call, as in section 3.

| Step | Code |
|---|---|
| `CheckAccess`, `Lookup`, `CountChunks` | `require_manage_access`, `get_by_hash`, the answer for a duplicate |
| `Drop`, `Unlink` | deletion of a row (with its chunks, by cascade), removal of its object whose errors are only logged; for a failed document found by an upload and for a deletion |
| `Reserve`, `Store`, `Create`, `Undo` | quota and extraction, upload of the object, INSERT of the row, and its compensation |
| `Embed`, `CreateChunks`, `Complete`, `Fail` | the try block after the row exists, and its handler |
| `Record` | the learning event, best effort, and the answer 201 |
| `GetDocument` | the deletion's first read |
| `Handle`, `CallFails`, `CallTimesOut`, `Crash` | the handler of an exception at each call; a call that fails before it took effect; one that is given up and commits later or never; the end of the process |
| `OrphanCommits`, `OrphanVanishes` | what becomes of a call that was given up |
| `DeleteNotebook` | deletion of the notebook, whose cascade reaches rows and chunks but not the bucket |

A document is named by the fresh path (a UUID) that its upload generates, `used`
holds the ones generated. `old` is the document found by its hash, with the
status `seen` then: the answer for a duplicate reports what was read.

Abstractions. One notebook, as statements are scoped to one; a manager who loses
access is modelled only by the deletion of the notebook. Chunks are inserted in
one statement, so a document has them all or none. The checks of the file that
come after the deletion of a failed document (name, text) are part of `Reserve`.
Reading and extraction are functions of the file. Dates and sizes are left out.

`Chunking` models `RagDocumentProcessor.chunk_text` (`services/rag.py:56-67`),
apart from the requests: `ChunkText` is a call, `CutWindow` one turn of its loop
(`NextStart` moves the window, `Strip` is what is left of it; a `break` is
`start = Len(text)`) and `Return` its end. A character is its position and whether
it is white space, a chunk the set of positions it holds.

### 5.2 Properties and runs

| Property | What it says |
|---|---|
| `ReadyIsWhole` | a completed document has its chunks and its object |
| `AcceptedStaysReady` | a document answered 201 as new is completed as long as it has a row |
| `AcceptedIsKept` | only a deletion, of it or of the notebook, removes it |
| `DeletedIsGone` | a document whose deletion was answered 200 has neither row nor chunk, ever again |
| `NothingLeftBehind` | without faults, compensation leaves no object without row and no row in processing |
| `ChunksCoverText` | every passage up to the overlap and one character is whole in a chunk; no chunk is empty, padded or too large, and there are not more than the windows of the text |
| `RequestsAnswered`, `ProcessingEnds` | every request is answered; without faults no row stays in processing |

| Run | Bounds | Shows |
|---|---|---|
| `documents_live` | 2 requests, 2 documents, 1 content, 1 fault, weak fairness of each request's next call | all properties of the table but `ChunksCoverText`, with any one call failing, late, or lost with its process |
| `documents_synchronous` | the same | finding: a duplicate of a document in processing is answered 201 as it is |

One content makes uploads meet at the UNIQUE constraint and at the retry; a
second one adds only independent documents. One fault is enough to make a status
update late and to leave a failed document for a retry (and `NothingLeftBehind`
speaks of the steps before the first one); that two or more change
nothing for the safety properties is what the theorems of section 5.3 say (TLC
also agrees for two faults and for three requests). The fairness is that of
section 3.3.

`ChunksCoverText` is checked in the run `services` (section 10.3), after every
window of every text of up to `MaxText = 6` characters, every size and every overlap
up to 6: windows that end before, at and after the text, an overlap of nothing, of a
whole window and of more, and windows of white space only. Its last part bounds the
number of chunks by the steps of the window: 79 for a text of 250000 characters with
the sizes of the service (3500 and 300), so the check for more than
`MAX_DOCUMENT_CHUNKS = 80` chunks never refuses one; and by the characters of the
text, which a window that stopped moving would exceed.

What the model shows besides its properties: a row whose creation lost its
reply, or whose process ended, stays in processing for good. A later upload of
the same content is answered with it, and only its deletion makes room for
another upload (`ProcessingEnds` therefore excepts faults). A retry that its
quota refuses has deleted the failed document before. Objects without row remain
after a deletion whose storage call failed and after the deletion of a notebook.

### 5.3 Proofs (`DocumentIngestionProofs`)

`TypeOK` and the safety properties of requests, `NothingLeftBehind` included, are
theorems for any number of requests, documents, contents and faults. The
difficulty is that calls that were given up
take effect at any later time. The proof tells the life of a document by
predicates that never become false again: it is `Settled` when no call can insert
its row any more, `Lost` when its upload will not be accepted any more, and
`Gone` when it is settled without a row. The invariant `IInv` promises each call,
in service or given up, what it needs in these terms (`Promised`, `Serving`):

- a call `unlink` has a document that is gone, so it never removes the object of
  a row;
- a call `complete` has a document that is gone, or whole;
- a call `fail` or `undo` has a document that is lost, and no given up `complete`
  follows an `undo`;
- while an upload may be accepted, none of its calls has been given up
  (`WinnersAreUnspoiled`), and no other request has its document (`OneOwner`).

`SettledStays`, `GoneStays` and `WholeStays` carry the promises over any step, and
`MovedIsServed` gives a request those of its next call. Before it was proved,
`IInv` was checked by TLC with the bounds of the runs.

`NothingLeftBehind` needs an invariant of its own, `FaultFree`: before the first
fault, each document is nothing, or ready or failed with its object, or `Cared`
for: a row in processing has a request that will end it, and an object without
row one that will insert the row or remove the object. `WritesCare` shows that
each write hands the document over to the next holder. That an object is taken
back only when it has no row (`UndoneHasNoRow`) is where the UNIQUE constraint and
the fresh names of documents meet.

`ChunksCoverText` is a theorem for a text of any length (`ChunksCover` of
`ServicesProofs`): the passages that begin before the window are whole in a chunk,
and as long as windows step by `size - overlap`, chunks are no more than these
steps (`StepsCounted`). That what is left of a window is one passage
(`StripIsPassage`) needs its first and its last character, which exist because the
sets of numbers behind it are finite (`LeastOf`, `GreatestOf`).

## 6. Auth rate limiter

### 6.1 How the model corresponds to the code

`AuthRateLimiter` models `InMemoryRateLimiter.enforce`
(`api/auth_rate_limit.py:50-86`). A request is the set of its keys: the address,
and the digest of the account when the body has one. The dependency that calls
`enforce` is a coroutine of one event loop and `enforce` does not await, so a
call is one step, and clocks do not go back.

`admitted[k]` is the history of key `k`, a ghost of its deque: the instants of all
requests ever admitted with it. The deque is what remains when the first
`dropped[k]` are gone.

| Action | Code |
|---|---|
| `Refuse` | expired instants are popped from the deques of all the keys (`Popping`), some deque is full, and `retry_after` is the largest of the full ones (`BackOff`); nothing is appended |
| `Admit` | the same pops, then every deque gets the instant; on every `Period`th admitted request, deques that are empty or old are deleted (`CleanedUp`) |
| `Tick` | the monotonic clock |

The popped instants are counted (`Popped`) where the code pops them one by one:
they are a prefix, since instants are in order (`PoppedAreExpired`). The clock has
`Second` ticks in a second, so that rounding up to seconds means something. Three
facts about numbers are not modelled: `checks` is counted modulo `Period`, where the
code counts for ever and tests the remainder; clocks are floats in the code, and
several processes would each have a limiter of their own, as its docstring says.

### 6.2 Properties and run

| Property | What it says |
|---|---|
| `TypeOK` | types; the instants of a key are in order, none is ahead of the clock, and no more are dropped than there were |
| `WindowBound` | no window of a key holds more than its limit of admitted requests, whatever was popped or cleaned up |
| `RetryAfterSuffices` | a client that waits for `Retry-After` is not refused, unless another request was admitted with one of its keys |
| `RefusalIsDue` | a refused request has a key that was admitted `Limit` times within its window |

`limiter_windows`: an account of 2 requests in 3 seconds and two addresses of 1
request a second, half-second ticks, Retry-After in steps of 2 seconds, a clean-up
on every second request, deques old after 3 seconds, over 4 seconds. Requests use
one or two keys, so that a clean-up meets a key that the request does not use,
and a key is full while the other is not. The bounds are small, and the theorems
lift them.

### 6.3 Proofs (`AuthRateLimiterProofs`)

All four properties are theorems for any keys, limits and windows, from
`LimiterAssumption`, whose one real demand is that no window is longer than the
age at which deques are cleaned up (300 against 600 seconds). The invariant
`IInv` adds that what is dropped has expired (`DroppedExpired`), and that the
last refusal waits for the instant `Limit` from the end of each of its keys to
expire (`RoomAtLast`). Since instants are in order, a deque is full exactly when
that instant is in the window (`FullDeque`): an admitted request finds it
expired, which is the bound, and `BackOff` reaches its end (`BackOffReaches`).

## 7. Conversations

### 7.1 How the model corresponds to the code

A chat (`rag_support/conversations.py:76-115`) stores its question, reads the
latest messages, asks the provider and stores the answer: nine awaited calls
without a transaction around them. `Conversations` models one conversation, since
every statement names one, with several clients of its owner.

| Action | Code |
|---|---|
| `GetConversation`, `CheckAccess`, `Reserve` | `_get_conversation`, `require_access` and `resolve_model`, `reserve_ai_usage`, which lets every chat pass when `QuotaEnabled` is FALSE |
| `Ask`, `Save` | `create_message` of the question and of the answer: `append_conversation_message` begins if its checks (`CanAppend`) hold, and the request waits |
| `Count` | the transaction gets the advisory lock and computes `next_order` |
| `Commit` | the INSERT and the end of the transaction; its reply reaches the request if it still waits |
| `RollBack`, `Violate` | a transaction ends without effect; the conversation was deleted meanwhile |
| `Retrieve`, `ReadHistory`, `Answer` | `embed_one` and `search_chunks`; `list_recent_messages` and what `bounded_chat_history` keeps of it; the reply of the provider |
| `List` | one page of `list_messages`, at the offset that the client has reached |
| `CallFails` | a request ends at any call, by an error, a timeout or the end of the process; nothing is compensated, and a transaction that has begun goes on |
| `SetMember`, `DeleteNotebook` | access of the owner, and the cascade of the notebook |

A message is the record of its turn (the chat it belongs to), role, size and
order. `Bounded` counts the units of the messages after `m` where the code walks
from the newest message until the budget is spent; that a message is cut at the
end of the budget is left out, and with it the text of the prompt. `admitted`,
`answered` and `read` are ghosts: chats that `reserve_ai_usage` let pass or charged,
chats answered 201, and the messages on the pages that a client listed one after
the other. Where there is a quota, an admitted chat holds a unit of it; without
one (the default configuration) nothing is charged and it has only passed.

Abstractions. Creating and listing conversations are single statements. The
wait for the lock and the INSERT are the only places where transactions of one
conversation meet, so their checks are one step with their beginning. The
deletion of the conversation waits for no lock here: it may come between `Count`
and `Commit`, where the FOREIGN KEY refuses the message.

What the model shows besides its properties: a question whose chat failed later
stays in the conversation without an answer, and keeps its unit; so does one whose
answer is longer than 8000 characters, which the function refuses after the
provider was paid. And an answer may be asked for with a history that does not
hold its own question, when twelve later messages of other turns fill it.

### 7.2 Properties and run

| Property | What it says |
|---|---|
| `ImplementsLog` | the conversation implements `ConversationLog`: the questions and answers of admitted turns are added at the end of a log one at once, and clients copy it page after page (`Log == INSTANCE ConversationLog WITH ...`) |
| `OrdersAreSuccessive` | orders are 1, 2, 3, ..., each once, whatever transactions run at once (proved, in no run: the run checks it as part of `ImplementsLog`) |
| `TurnsAreWhole` | a message belongs to an admitted turn (one that is charged, where there is a quota), answers follow their questions, nothing of a turn is stored twice, and a chat answered 201 is stored |
| `PromptHoldsQuestion` | the history for the provider has no gap, and holds the question unless later messages fill it |
| `PagesAreAPrefix` | pages listed in a row are the first messages in order, whatever is stored between two of them |

`conversations_turns`: two clients, two turns, a question of 1 and messages of up
to 2 characters (an answer may have 3, one too many), a history of 2 messages
within 2 characters, pages of 2. Two turns give four messages, so that the
history, the budget and a page are all smaller than the conversation, and two
transactions wait for the lock at once. The run has a quota; without one the module
has fewer behaviours, and the theorems are about both. They also lift the bounds.

### 7.3 Proofs (`ConversationsProofs`)

`TypeOK`, `OrdersAreSuccessive`, `TurnsAreWhole` and `PagesAreAPrefix` are theorems
for any number of clients, turns and messages. `IInv` adds what the lock gives: a
transaction that has counted has the order after the last, and is alone
(`Locked`), so a commit extends `1 .. n` to `1 .. n + 1`. It adds what a running
transaction will store (`AppendsFit`), since a request that gave up leaves one
behind, and what each request relies on at its step (`CallFits`): one that waits
for an answer has its question stored, and no other transaction of its turn
runs. `StoredTurnsAreAwaited` says that a request whose turn is being stored is
waiting for just that transaction. For the pages, `RankedIs` identifies the k-th
message with the one of order k.

The refinement (`LogImplemented`) maps the table to the sequence of its messages
in their order, with a hole for an order that nobody has; so a gap or a number
given twice is a step that the log does not have. A `Commit` is a `Question` or
an `Answer` of the log (`CommitAppends`: the new message has the order after the
last, and `AppendsFit` gives the guards of the log), a reservation is an `Admit`,
a `List` a `TurnPage` (`ListCopies`: a page is a part of the sequence), the
deletion of the notebook an `Erase`, and every other step leaves the log as it is.
That holds also of the steps of requests that were given up, and so their
messages reach the log late, but never twice or out of their turn.

`PromptHoldsQuestion` is a theorem as well, on top of `IInv` and `PromptInv`: the
question of a request that reads its history is stored unless the conversation
was deleted, and a history that was read has no gap and fits. A history is closed
upwards, so the question is missing only if a message not older than it was left
out. The newest such message (`LeastAndGreatest`, by the well-foundedness of
inclusion on finite sets) shows what filled the history: either the limit of
latest messages (`LatestCounted`) or the units of the messages after it, all of
which are later than the question (`HistoryFits`).

## 8. Rooms, notebooks and members

### 8.1 How the model corresponds to the code

Most requests of this component are one statement under the row policies, and so
one action that evaluates the policy (`IsMember`, `IsAdmin`, `CanRead`,
`CanManage`) and the foreign keys. Two requests run a function of several
statements (migration 0800) at READ COMMITTED, where each statement sees what was
committed before it: they are the transactions `call[c]` of `Workspace`.

| Action | Code |
|---|---|
| `BeginRoom`, `InsertIdentity`, `ReadWinner`, `CommitRoom` | `create_study_room`: the identity of the user is looked up, inserted ON CONFLICT DO NOTHING after waiting for a row that is not committed yet (`Pending`), read again; then room and first administrator |
| `BeginLink`, `CheckLink`, `CommitLink` | `attach_room_notebook`: the identity, the two checks, the INSERT with its keys |
| `Abort` | either transaction fails |
| `DeleteRoom`, `AddMember`, `ChangeRole`, `RemoveMember`, `RemoveLink` | the routes of rooms, and the grants that let an administrator change a role; cascades and the RESTRICT on the membership of who linked a notebook (`Restricted`) |
| `CreateStudyMember`, `DeleteStudyMember` | the identity of a user, with the memberships that go with it |
| `CreateNotebook`, `DeleteNotebook`, `DisownNotebook` | notebooks and their owner's link |
| `SetActive` | the operator deactivates a user, which every policy asks for |

Rows are numbered as they are created, for identifiers are not used again.
`managed` is a history: who has ever managed each notebook. Names and
descriptions are left out, and with them their updates.

What the model shows besides its properties: a room may lose its last
administrator, and a notebook whose owner unlinks it before it is in a room is
left to nobody. Neither is promised by the code.

### 8.2 Properties, run and proofs

| Property | What it says |
|---|---|
| `SharedByManagers` | a notebook that a user can list was managed by them once, or was linked to a room of theirs by someone who managed it and is still a member there |
| `CreationRaceIsHarmless` | the creation of a room is never refused because of another one (the comment of `create_study_room` says so), unless the user's identity is deleted meanwhile |

`workspace_rooms`: two users with two transactions at once, two identities, two
rooms, one notebook. Two identities are enough for one that is deleted and
created again under the feet of a transaction, and two rooms for a user who
administers one and not the other.

Both are theorems for any constants (`WorkspaceProofs`). The policies are asked in
one statement and the row is inserted in another, so the invariant is about what
a transaction still knows by then (`CallInv`): a link about to commit has a user
who managed the notebook once, and its identity is that user's or nobody's
(`Sound`); an identity that is inserted and not committed is known to nobody else
(`Apart`). `RowInv` keeps the history: who manages a notebook now has managed it,
and the identity that linked it is of one of those. `Restricted` is needed: without
it the membership of who linked a notebook could go, and the notebook stay.

## 9. Accounts and profile photos

### 9.1 How the model corresponds to the code

Supabase Auth is external: `ProviderAnswers` gives what it may answer to each
operation, and what the code makes of it (`ProviderError`,
`_raise_provider_error`). Every request that has an identity then looks for the
profile and creates it when it is missing, in two calls, and goes on with its
handler.

| Action | Code |
|---|---|
| `AuthRoutes`, `UserRoutes` (`Arrive`) | the routes of `/auth` and `/users/me`, with what Supabase Auth answers |
| `Lookup`, `CreateProfile` | `_sync_user_profile`: `get_by_id`, the check of the status, `create` |
| `ReadRow`, `Upload`, `UpdateRow`, `Cleanup`, `SignUrl` | the calls of `usecases/user_profile.py` for a photo: the row, the object with a fresh name, the row again, the removal of the previous object, the URL |
| `Discard` | the new object is removed when the row could not be updated |
| `TimesOut`, `CarryOut`, `Lose` | a call that is given up, and is carried out later with the effect it then has, or never |
| `SetStatus` | the operator |

`InsertProfile` is refused by a row of the same identity or address: `EmailOf` lets
identities share one. Sessions, names and the list of users are left out.
`doubtful` is a history: photos whose row update has timed out.

### 9.2 Properties and proofs

| Property | What it says |
|---|---|
| `PhotoIsStored` | the photo that a profile names is in the bucket, however replacements and removals overlap |
| `DeactivationHolds` | only the operator reactivates a profile: no sign-in that missed the row before, and no late insertion, does |

`PhotoIsStored` excepts photos in `doubtful`: when the update of a row times out,
the code takes it for a failure and discards the new object; if the update is
carried out all the same, the row names an object that is gone. The run shows the
case to be reachable, and nothing in the repository promises otherwise.

Both are theorems for any constants (`ServicesProofs`). An upload removes the
object that the row named when it was read, maybe long ago: the proof says why
nobody else can name it then. A name given to an upload that is still under way is
unknown to rows, requests and late calls (`PendingIsUnknown`); a photo is claimed
on behalf of one identity only (`OwnedOnce`); and one that somebody is about to
remove is not named by a row, or is doubtful (`DoomedIsGone`).

## 10. Study activity

### 10.1 How the model corresponds to the code

`StudyActivity` is about one user, since the quota, the lock, the limits and the
statistics are each user's own. `events` is the history of the rows ever committed
for the user, and `stored` says which of them are still in the table: the foreign
key of `user_learning_events` deletes a row with its notebook (migration 0700).

| Action | Code |
|---|---|
| `GenerateFlashcards`, `GenerateExam` | `rag_support/study_materials.py` up to the reservation: access, model |
| `ReserveUnit`, `GenerationSources`, `Complete` | `reserve_ai_usage`, which does nothing when `QuotaEnabled` is FALSE; the sources; the answer of the provider, of the form asked for but with any number of items, and the check of the counts |
| `PersistFlashcards`, `PersistExam` | `persist_generated_flashcards`, `persist_generated_exam` (migration 1000): access again, the items and their event in one transaction |
| `Record`, `Replay`, `Check`, `Insert` | `record_learning_event` (migration 0900): the clock before the lock, the event of the same key, the checks of the activity (`Valid`: the bounds of the request and of the function), the limits, the INSERT with its foreign key |
| `RecordServerActivity`, `AttachRoomNotebook` | the event of an uploaded document, best effort, and that of a link with a room |
| `DeleteNotebook` | the route of notebooks, or the row policy: the notebook goes, and with it its rows of events (`Cascade`) |
| `Fail` | any call fails without a trace of its step; one whose client gave up goes on as it is |
| `SetAccess`, `Tick` | membership and status, time |
| `Statistics` | `UserStatisticsUseCase`: `ActiveDays`, `Streak`, `LearningPoints`, `TimeByNotebook`, over any snapshot that its reads may have given |

Items are their number of each type; that an exam's questions pass the checks of
the function is `ValidQuestion` of what a draft may hold. Keys of clients and of
the server are disjoint. `made` and `accepted` are histories. The counter
`generations` numbers the requests that passed the reservation, and `charged` are
those of them that hold a unit. The material itself goes with its notebook as
well, of which `made` keeps only what was stored. Statistics are an
operator on a snapshot, not an action: they change nothing. The fallback of the
generation that writes row by row is left out (the application always configures
the repository of the functions), as are scores, lists of recent activity and
upcoming exams, rounding to minutes, and the cap of rows that are read.

### 10.2 Properties and proofs

| Property | What it says |
|---|---|
| `LimitsKept` | in every minute and every UTC day the events of clients that are in the table keep the limits, though calls overlap and events are inserted out of the order of their times |
| `EventsAreExact` | a request for material stores it once at most, as it was asked for, with one event that says how much, and with a unit of its own where there is a quota; an activity answered 201 was recorded once, as reported; rows leave the table only with their notebook, and no key has two rows |
| `StatisticsAddUp` | streaks, points and times agree with each other and with the activity, though the reads are of different instants |

An activity answered 201 may be gone from the table the next moment: another
request deletes its notebook, and the cascade its row. So `EventsAreExact` speaks of
the history for what was recorded, and of the table for what may be lost: nothing
but by the deletion of the notebook. After it the key may serve again for another
notebook, and the limits have the room of the deleted rows, also on the same day.
Both follow from the code, which counts and compares the rows that it finds.

`EventsAreExact` is a theorem for any constants (`StudyActivityProofs`), with or
without a quota: generations under way have numbers of their own and have stored
nothing (`GenerationsApart`), what was stored has its event and, where there is a
quota, its unit (`GenerationsPaid`), a call about to insert is alone and its key is
new in the table (`InsertsAlone`), so a key has one row (`KeysOnce`), rows go only
with their notebook (`TableKept`), and what was accepted was recorded once in its
notebook (`AcceptedRecorded`), as no row comes after the notebook is gone.

`LimitsKept` is a theorem as well, on top of these. `Total` counts each event as
often as it has seconds or cards, so that the sums grow with their sets
(`TotalGrows`) and an added event adds its amount (`TotalAdds`). `LimitInv` keeps
the limits for every time, and says that a call that was checked keeps its room
until it inserts: events of the server do not count as a client's (`ServerKeeps`),
and no other call inserts before it. The room is in all events since the start of
the day, or a minute before the call; each minute or day that holds its time is
part of them, also when it is not the latest (`DayOfTime`, `ReportKeeps`).

`StatisticsAddUp` is a theorem for any number of notebooks, days and activities,
and attempts of any finite set of lengths (`Durations`).

- *Streaks* are recursive functions over the days. `RunLength(days, d)`, the number
  of days back from `d` up to the first gap, is a closed form that satisfies the
  same recursion, which has one solution (`BackIsRun`, `RunOfIsRun`, by the least
  length at which two would differ). With it the longest run is one that ends
  somewhere and none is longer (`BestIsLongest`), and the current run is one of
  the runs (`StreakIsRight`).
- *Points and times* are totals, which count each activity as often as it has
  seconds. A total of disjoint parts is the sum of the totals of the parts
  (`TotalOfParts`, by a smallest set of notebooks that would violate it, which
  exists because inclusion is well-founded on finite sets). So the times per
  notebook add up to the time of the user (`TimesAddUp`), less what belongs to
  notebooks that the later read no longer had.

The reads of the statistics are of different instants, so the theorem is about
every combination of an earlier log with a later set of notebooks and a clock
that may be late.

### 10.3 The run `services`

`Accounts`, `StudyActivity` and `Chunking` (section 5.1) share no variable and have
properties of their own. `MCServices` checks them in one run whose state space is
the sum of the three: each module steps only while the others are in their initial
states, so every behaviour of each is explored in full, and no property relates
them. `ServicesAreThree` proves that a behaviour of `ServicesSpec` is one of each of
the three, so what `ServicesProofs` and `StudyActivityProofs` prove of them holds of
the run's specification (`ServicesTypeCorrect`, `ServicesStayCorrect`). Clients and slots are the same model values, and so are identities and keys,
so that one symmetry serves both modules.

| Part | Bounds | Enough because |
|---|---|---|
| accounts | two identities with one address, two requests, two photos, one call that times out | two requests are the parties of every race; a replacement needs the photo before it; `PhotoIsStored` is a theorem |
| study | one notebook that may be deleted, two calls, two keys, one generation under a quota, two events, instants 0 to 2 with days of 2 and minutes of one instant, calls that wait up to 1, attempts of 2 seconds | calls overlap midnight; each limit but that on the number of events of a day is small enough to refuse |
| chunking | texts, sizes and overlaps of up to 6 | see section 5.2; `ChunksCoverText` is a theorem |

With two events the limit `DayEvents` never refuses by itself; the same check refuses
by the limit of a minute. A key that serves again after a deletion needs two
notebooks, and a service without quota another constant: both are left to the
theorems. The study part has most of the 756315 states of the run.

## 11. What is proved and what is only checked

Every theorem is about all values of the constants that satisfy the named
assumption of its module; the bounds on faults and clocks of the runs are
constants too, so the theorems hold for any number of faults.

Only model-checked are

- `RequestsAnswered` and `ProcessingEnds`: liveness is out of the prover's reach;
- `SessionHasStoredAnswers`, `ChangedAnswerIsConflict` and `UploadIsSynchronous`,
  which do not hold.

What needs an induction is proved by a smallest counterexample: the least number
(`LeastOf`), or the smallest finite set (`SmallestOf`), that violates the claim.

## 12. Not modelled

`PROJECT.json` lists every component with its status. Left out for good:

- *Tags*: every operation is one statement under a policy; no operation spans two
  calls, so there is nothing between which something could happen.
- *CRUD resources*, updates of names and descriptions: single statements. What
  they change under a running attempt is `Manage` of `ExamAttempts`.
- *Prompts, provider and HTTP clients, storage client*: their outcomes (result,
  failure, timeout) are choices of the models.
- *Schemas, middlewares, configuration*: parsing, without state between requests.
- *Of modelled components*: sessions and the list of users, scores and recent or
  upcoming lists of the statistics, rounding of grades and minutes, the cap of
  rows that the statistics read, and the fallback of generation without
  transactions. They are functions of what is modelled, or pure I/O.
