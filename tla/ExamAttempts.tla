---------------------------- MODULE ExamAttempts ----------------------------
(***************************************************************************)
(* The exam attempt workflow of LearnIA: starting (or resuming) an         *)
(* attempt, reading its session, storing answers, and finishing it with a  *)
(* grade.  A request is a sequence of HTTP calls from the API to the       *)
(* database.  Each call is one step here, so that requests of several      *)
(* tabs, edits by the managers of the notebook, and late or lost calls     *)
(* interleave between any two of them.  The three workflow functions of    *)
(* the database (start, submit, finalize) are transactions: each is one    *)
(* step, except that start checks its preconditions before it waits for    *)
(* its advisory lock, which gives it two.                                  *)
(*                                                                         *)
(* One exam is modelled: every statement of the code is scoped to one.     *)
(* Points are not represented: a score is the pair of the set of questions *)
(* that earned their points and the set of questions that count.           *)
(***************************************************************************)
EXTENDS Naturals, FiniteSets

CONSTANTS
  Users,           \* students of the exam
  Clients,         \* open tabs or devices: each has one request at a time
  Attempts,        \* identifiers of attempt rows
  Questions,       \* the questions the exam was generated with
  Options,         \* identifiers of the options of closed questions
  Texts,           \* open answers, up to the grader's text normalisation
  QuestionOf,      \* the question each option belongs to
  ExpectedAnswer,  \* initial expected text of each open question, else None
  CorrectOptions,  \* options initially flagged as correct
  AttemptLimit,    \* attempts a user may have on the exam (5 in the code)
  QuotaEnabled,    \* ai_usage_quota_enabled
  QuotaLimit,      \* verifier units a user may reserve (window not modelled)
  None,            \* absence of a value (SQL NULL)
  MaxEdits,        \* bound: changes the managers make
  MaxFaults        \* bound: calls that fail or time out

Values == Options \cup Texts

ASSUME ConstantsAssumption ==
  /\ IsFiniteSet(Questions)
  /\ QuestionOf \in [Options -> Questions]
  /\ ExpectedAnswer \in [Questions -> Texts \cup {None}]
  /\ CorrectOptions \subseteq Options
  /\ AttemptLimit \in Nat \ {0}
  /\ QuotaEnabled \in BOOLEAN
  /\ QuotaLimit \in Nat
  /\ MaxEdits \in Nat
  /\ MaxFaults \in Nat
  /\ None \notin Users \cup Attempts \cup Questions \cup Options \cup Texts
  /\ Options \cap Texts = {}

VARIABLES
  \* table attempts, one function per column
  status, owner, number, score,
  \* table user_answers: the stored value and the stored is_correct
  answer, verdict,
  \* tables exams, exam_questions, questions and questions_options
  examStatus, linked, rows, expected, options, correct,
  \* who may use the notebook, and whether it is active
  access, notebookActive,
  \* units reserved in ai_usage_events, and (ghost) answers sent to the
  \* verifier while the quota is on
  usage, verified,
  \* the API: requests being served, last responses, and the call that the
  \* n-th fault abandoned (IdleCall if none)
  call, resp, orphans,
  \* bounds
  edits, faults

ledgerVars == <<status, owner, number, score, answer, verdict>>
examVars   == <<examStatus, linked, rows, expected, options, correct>>
worldVars  == <<access, notebookActive>>
usageVars  == <<usage, verified>>
boundVars  == <<edits, faults>>

vars == <<ledgerVars, examVars, worldVars, usageVars, call, resp, orphans,
          boundVars>>

-----------------------------------------------------------------------------
(* Types.                                                                  *)

Statuses == {"absent", "in_progress", "completed"}
Verdicts == {"none", "correct", "wrong"}
Kinds    == {"start", "session", "submit", "finish"}
Steps    == {"idle", "attempt", "exam", "access", "links", "questions",
             "options", "active", "answers", "create", "insert", "submit",
             "reserve", "verify", "finalize"}
Codes    == {"none", "ok", "bad_request", "forbidden", "not_found",
             "conflict", "too_many", "error"}

Answers == [Questions -> Values \cup {None}]
Grades  == [Questions -> Verdicts]
Scores  == [earned : SUBSET Questions, counted : SUBSET Questions]

NoAnswers == [q \in Questions |-> None]
NoGrades  == [q \in Questions |-> "none"]
NoScore   == [earned |-> {}, counted |-> {}]

(* A request in service: its arguments, the call it makes next, and what   *)
(* its earlier calls returned.                                             *)
Call == [step      : Steps,
         kind      : Kinds,
         user      : Users \cup {None},
         attempt   : Attempts \cup {None},
         question  : Questions \cup {None},
         value     : Values \cup {None},
         status    : Statuses,
         questions : SUBSET Questions,
         expected  : [Questions -> Texts \cup {None}],
         options   : SUBSET Options,
         correct   : SUBSET Options,
         answers   : Answers,
         grades    : Grades]

IdleCall == [step      |-> "idle",
             kind      |-> "start",
             user      |-> None,
             attempt   |-> None,
             question  |-> None,
             value     |-> None,
             status    |-> "absent",
             questions |-> {},
             expected  |-> [q \in Questions |-> None],
             options   |-> {},
             correct   |-> {},
             answers   |-> NoAnswers,
             grades    |-> NoGrades]

Response == [code    : Codes,
             kind    : Kinds,
             attempt : Attempts \cup {None},
             answers : Answers,
             grades  : Grades]

NoResponse == [code |-> "none", kind |-> "start", attempt |-> None,
               answers |-> NoAnswers, grades |-> NoGrades]

LedgerTypeOK ==
  /\ status   \in [Attempts -> Statuses]
  /\ owner    \in [Attempts -> Users \cup {None}]
  /\ number   \in [Attempts -> 0 .. AttemptLimit]
  /\ score    \in [Attempts -> Scores]
  /\ answer   \in [Attempts -> Answers]
  /\ verdict  \in [Attempts -> Grades]

ExamTypeOK ==
  /\ examStatus \in {"active", "archived", "gone"}
  /\ linked   \subseteq rows
  /\ rows     \subseteq Questions
  /\ expected \in [Questions -> Texts \cup {None}]
  /\ options  \subseteq Options
  /\ correct  \subseteq options
  /\ access   \subseteq Users
  /\ notebookActive \in BOOLEAN

ServiceTypeOK ==
  /\ usage    \in [Users -> Nat]
  /\ verified \in [Users -> Nat]
  /\ call     \in [Clients -> Call]
  /\ resp     \in [Clients -> Response]
  /\ orphans  \in [1 .. MaxFaults -> Call]
  /\ edits    \in 0 .. MaxEdits
  /\ faults   \in 0 .. MaxFaults

(* The foreign keys: attempts and their answers go with the exam, options  *)
(* with their question, and what an answer refers to is not deleted.       *)
ReferencesOK ==
  /\ examStatus = "gone" => \A a \in Attempts : status[a] = "absent"
  /\ \A o \in options : QuestionOf[o] \in rows
  /\ \A a \in Attempts, q \in Questions : answer[a][q] # None =>
       /\ status[a] # "absent"
       /\ q \in rows
       /\ answer[a][q] \in Options =>
            answer[a][q] \in options /\ QuestionOf[answer[a][q]] = q

(* The tables, the requests and the counters hold values of their types,   *)
(* and no row refers to one that is gone, whatever managers delete while   *)
(* starts and submits wait for their turn, or come late.                   *)
TypeOK == LedgerTypeOK /\ ExamTypeOK /\ ReferencesOK /\ ServiceTypeOK

-----------------------------------------------------------------------------
(* Answering a request.                                                    *)

Proceed(c, k) ==
  /\ call' = [call EXCEPT ![c] = k]
  /\ UNCHANGED resp

Reply(c, r) ==
  /\ resp' = [resp EXCEPT ![c] = r]
  /\ call' = [call EXCEPT ![c] = IdleCall]

Refuse(c, code) == Reply(c, [NoResponse EXCEPT !.code = code])

(* The session of attempt a, with the answers sent along.                  *)
Session(k, a, answers) ==
  [code |-> "ok", kind |-> k.kind, attempt |-> a, answers |-> answers,
   grades |-> NoGrades]

At(c, step) == call[c].step = step

ReadOnly == UNCHANGED <<ledgerVars, examVars, worldVars, usageVars, orphans,
                        boundVars>>

-----------------------------------------------------------------------------
(* A request arrives.  start takes an exam; the others take an attempt id, *)
(* which need not exist or belong to the user.                             *)

Arrive(c) ==
  /\ At(c, "idle")
  /\ \E u \in Users :
       \/ call' = [call EXCEPT ![c] = [IdleCall EXCEPT
                     !.user = u, !.kind = "start", !.step = "exam"]]
       \/ \E a \in Attempts, kind \in {"session", "finish"} :
            call' = [call EXCEPT ![c] = [IdleCall EXCEPT
                       !.user = u, !.kind = kind, !.step = "attempt",
                       !.attempt = a]]
       \/ \E a \in Attempts, q \in Questions, v \in Values :
            call' = [call EXCEPT ![c] = [IdleCall EXCEPT
                       !.user = u, !.kind = "submit", !.step = "attempt",
                       !.attempt = a, !.question = q, !.value = v]]
  /\ resp' = [resp EXCEPT ![c] = NoResponse]
  /\ ReadOnly

-----------------------------------------------------------------------------
(* The reads.                                                              *)

(* get_attempt_for_user: a missing and a foreign attempt look the same.    *)
ReadAttempt(c) ==
  LET k == call[c] IN
  /\ At(c, "attempt")
  /\ \/ /\ status[k.attempt] # "absent"
        /\ owner[k.attempt] = k.user
        /\ Proceed(c, [k EXCEPT !.step = "exam", !.status = status[k.attempt]])
     \/ /\ status[k.attempt] = "absent" \/ owner[k.attempt] # k.user
        /\ Refuse(c, "not_found")
  /\ ReadOnly

(* get_exam: only start asks for an active exam.                           *)
ExamFound(k) ==
  /\ examStatus # "gone"
  /\ k.kind = "start" => examStatus = "active"

ReadExam(c) ==
  LET k == call[c] IN
  /\ At(c, "exam")
  /\ \/ ExamFound(k)  /\ Proceed(c, [k EXCEPT !.step = "access"])
     \/ ~ExamFound(k) /\ Refuse(c, "not_found")
  /\ ReadOnly

(* has_notebook_access, and the status check on the attempt row that was   *)
(* read two calls earlier.                                                 *)
ReadAccess(c) ==
  LET k      == call[c]
      closed == k.kind \in {"submit", "finish"} /\ k.status # "in_progress"
  IN
  /\ At(c, "access")
  /\ \/ /\ k.user \notin access
        /\ Refuse(c, IF k.kind = "start" THEN "not_found" ELSE "forbidden")
     \/ k.user \in access /\ closed  /\ Refuse(c, "conflict")
     \/ k.user \in access /\ ~closed /\ Proceed(c, [k EXCEPT !.step = "links"])
  /\ ReadOnly

IsOpen(exp, q) == exp[q] # None

(* _validate_submission against the question as it was listed.             *)
ValidSubmission(k) ==
  IF IsOpen(k.expected, k.question)
  THEN k.value \in Texts
  ELSE k.value \in k.options /\ QuestionOf[k.value] = k.question

(* What the use case does with the list of questions k.questions.          *)
QuestionsListed(c, k) ==
  \/ /\ k.kind \in {"start", "finish"}
     /\ k.questions = {}
     /\ Refuse(c, "bad_request")
  \/ /\ k.kind = "start"
     /\ k.questions # {}
     /\ Proceed(c, [k EXCEPT !.step = "active"])
  \/ /\ k.kind = "session" \/ (k.kind = "finish" /\ k.questions # {})
     /\ Proceed(c, [k EXCEPT !.step = "answers"])
  \/ /\ k.kind = "submit"
     /\ k.question \notin k.questions
     /\ Refuse(c, "not_found")
  \/ /\ k.kind = "submit"
     /\ k.question \in k.questions
     /\ ~ValidSubmission(k)
     /\ Refuse(c, "bad_request")
  \/ /\ k.kind = "submit"
     /\ k.question \in k.questions
     /\ ValidSubmission(k)
     /\ Proceed(c, [k EXCEPT !.step = "submit"])

(* list_exam_questions makes three reads: links, questions, options.       *)
ReadLinks(c) ==
  LET k == call[c] IN
  /\ At(c, "links")
  /\ \/ linked = {} /\ QuestionsListed(c, k)
     \/ linked # {} /\ Proceed(c, [k EXCEPT !.step = "questions",
                                            !.questions = linked])
  /\ ReadOnly

ReadQuestions(c) ==
  LET k == call[c] IN
  /\ At(c, "questions")
  /\ Proceed(c, [k EXCEPT !.step = "options",
                          !.questions = @ \cap rows,
                          !.expected = expected])
  /\ ReadOnly

ReadOptions(c) ==
  LET k == call[c] IN
  /\ At(c, "options")
  /\ QuestionsListed(c, [k EXCEPT !.options = options, !.correct = correct])
  /\ ReadOnly

Own(u)    == {a \in Attempts : status[a] # "absent" /\ owner[a] = u}
Active(u) == {a \in Own(u) : status[a] = "in_progress"}

(* get_active_attempt.                                                     *)
ReadActive(c) ==
  LET k == call[c] IN
  /\ At(c, "active")
  /\ \/ \E a \in Active(k.user) :
          Proceed(c, [k EXCEPT !.step = "answers", !.attempt = a])
     \/ /\ Active(k.user) = {}
        /\ Proceed(c, [k EXCEPT !.step = "create"])
  /\ ReadOnly

(* Open questions of the list that have a text answer: one verifier unit   *)
(* each.                                                                   *)
OpenAnswered(k) ==
  {q \in k.questions : IsOpen(k.expected, q) /\ k.answers[q] \in Texts}

GradedQuestions(k) == {q \in k.questions : k.answers[q] # None}

(* list_attempt_answers.  A session is answered with it; finish keeps it   *)
(* as the snapshot it grades.                                              *)
ReadAnswers(c) ==
  LET k == [call[c] EXCEPT !.answers = answer[call[c].attempt]] IN
  /\ At(c, "answers")
  /\ \/ /\ k.kind \in {"start", "session"}
        /\ Reply(c, Session(k, k.attempt, k.answers))
     \/ /\ k.kind = "finish"
        /\ QuotaEnabled /\ OpenAnswered(k) # {}
        /\ Proceed(c, [k EXCEPT !.step = "reserve"])
     \/ /\ k.kind = "finish"
        /\ ~(QuotaEnabled /\ OpenAnswered(k) # {})
        /\ Proceed(c, [k EXCEPT !.step = "verify"])
  /\ ReadOnly

-----------------------------------------------------------------------------
(* start_exam_attempt.                                                     *)

Startable(u) == examStatus = "active" /\ notebookActive /\ u \in access

(* The preconditions, read before the advisory lock of the user and exam.  *)
CheckStart(c) ==
  LET k == call[c] IN
  /\ At(c, "create")
  /\ \/ Startable(k.user)  /\ Proceed(c, [k EXCEPT !.step = "insert"])
     \/ ~Startable(k.user) /\ Refuse(c, "error")
  /\ ReadOnly

(* Mutated form: MAX(attempt_number) without the increment.                *)
NextNumberNotIncremented(u, n) ==
  \/ n = 1 /\ Own(u) = {}
  \/ /\ \E a \in Own(u) : number[a] = n
     /\ \A a \in Own(u) : number[a] <= n

(* n is COALESCE(MAX(attempt_number), 0) + 1.                              *)
NextNumber(u, n) ==
  /\ \A a \in Own(u) : number[a] < n
  /\ n = 1 \/ \E a \in Own(u) : number[a] = n - 1

LimitReached(u) ==
  \/ Cardinality(Own(u)) >= AttemptLimit
  \/ \E a \in Own(u) : number[a] >= AttemptLimit

(* Mutated form: the re-read of the active attempt is forgotten.           *)
CanInsertBesideActive(u) == examStatus # "gone" /\ ~LimitReached(u)

CanInsert(u) ==
  /\ examStatus # "gone"        \* the foreign key to the exam
  /\ Active(u) = {}
  /\ ~LimitReached(u)

InsertAttempt(u, a) ==
  /\ CanInsert(u)
  /\ status[a] = "absent"
  /\ \E n \in 1 .. AttemptLimit :      \* attempts_number_limit_check
       /\ NextNumber(u, n)
       /\ number' = [number EXCEPT ![a] = n]
  /\ status' = [status EXCEPT ![a] = "in_progress"]
  /\ owner'  = [owner EXCEPT ![a] = u]
  /\ UNCHANGED <<score, answer, verdict>>

(* The part under the lock.  An attempt already in progress is returned;   *)
(* the use case then answers with an empty list of answers.                *)
Create(c) ==
  LET k == call[c] IN
  /\ At(c, "insert")
  /\ \/ /\ \E a \in Active(k.user) : Reply(c, Session(k, a, NoAnswers))
        /\ UNCHANGED ledgerVars
     \/ /\ Active(k.user) = {}
        /\ LimitReached(k.user)
        /\ Refuse(c, "conflict")
        /\ UNCHANGED ledgerVars
     \/ /\ Active(k.user) = {}
        /\ ~LimitReached(k.user)
        /\ examStatus = "gone"
        /\ Refuse(c, "error")
        /\ UNCHANGED ledgerVars
     \/ \E a \in Attempts :
          /\ InsertAttempt(k.user, a)
          /\ Reply(c, Session(k, a, NoAnswers))
  /\ UNCHANGED <<examVars, worldVars, usageVars, orphans, boundVars>>

-----------------------------------------------------------------------------
(* submit_exam_attempt_answer.                                             *)

(* Mutated form: the status of the locked row is not looked at.            *)
InProgressStatusIgnored(k) ==
  /\ status[k.attempt] # "absent"
  /\ owner[k.attempt] = k.user

(* The attempt row, locked FOR UPDATE, is the user's and in progress.      *)
InProgress(k) ==
  /\ status[k.attempt] = "in_progress"
  /\ owner[k.attempt] = k.user

(* The question is still linked and the value has the question's type.     *)
AcceptsValue(k) ==
  /\ k.question \in linked
  /\ IF IsOpen(expected, k.question)
     THEN k.value \in Texts
     ELSE k.value \in options /\ QuestionOf[k.value] = k.question

(* INSERT ... ON CONFLICT DO UPDATE: the grade columns are reset.          *)
UpsertAnswer(k) ==
  /\ InProgress(k)
  /\ AcceptsValue(k)
  /\ answer'  = [answer EXCEPT ![k.attempt][k.question] = k.value]
  /\ verdict' = [verdict EXCEPT ![k.attempt][k.question] = "none"]
  /\ UNCHANGED <<status, owner, number, score>>

Submit(c) ==
  LET k == call[c] IN
  /\ At(c, "submit")
  /\ \/ ~InProgress(k) /\ Refuse(c, "conflict") /\ UNCHANGED ledgerVars
     \/ /\ InProgress(k)
        /\ ~AcceptsValue(k)
        /\ Refuse(c, "error")
        /\ UNCHANGED ledgerVars
     \/ /\ UpsertAnswer(k)
        /\ Reply(c, [Session(k, k.attempt, NoAnswers) EXCEPT
                       !.answers[k.question] = k.value])
  /\ UNCHANGED <<examVars, worldVars, usageVars, orphans, boundVars>>

-----------------------------------------------------------------------------
(* finish: reservation, verification, grading, and finalize_exam_attempt.  *)

(* One unit per open answer.                                               *)
Units(k) == Cardinality(OpenAnswered(k))

(* Mutated form: the units asked for are left out of the comparison.       *)
ChargeUnitsUnchecked(k) ==
  /\ usage[k.user] <= QuotaLimit
  /\ usage' = [usage EXCEPT ![k.user] = @ + Units(k)]

(* reserve_ai_usage, with one window that never ends.                      *)
ChargeUnits(k) ==
  /\ usage[k.user] + Units(k) <= QuotaLimit
  /\ usage' = [usage EXCEPT ![k.user] = @ + Units(k)]

(* Mutated form: a refused reservation is tried again.                     *)
ReserveAgain(c) ==
  LET k == call[c] IN
  /\ At(c, "reserve")
  /\ \/ /\ ChargeUnits(k)
        /\ Proceed(c, [k EXCEPT !.step = "verify"])
     \/ /\ usage[k.user] + Units(k) > QuotaLimit
        /\ UNCHANGED <<call, resp, usage>>
  /\ UNCHANGED <<verified, ledgerVars, examVars, worldVars, orphans,
                 boundVars>>

Reserve(c) ==
  LET k == call[c] IN
  /\ At(c, "reserve")
  /\ \/ /\ ChargeUnits(k)
        /\ Proceed(c, [k EXCEPT !.step = "verify"])
     \/ /\ usage[k.user] + Units(k) > QuotaLimit
        /\ Refuse(c, "too_many")
        /\ UNCHANGED usage
  /\ UNCHANGED <<verified, ledgerVars, examVars, worldVars, orphans,
                 boundVars>>

(* ExamAttemptGrader: the verifier's judgement when it gave one, else      *)
(* equality with the expected text; a closed answer must be a correct      *)
(* option.                                                                 *)
IsCorrect(k, judged, q) ==
  IF IsOpen(k.expected, q)
  THEN IF q \in OpenAnswered(k) /\ judged[q] # "unavailable"
       THEN judged[q] = "correct"
       ELSE k.answers[q] = k.expected[q]
  ELSE k.answers[q] \in k.correct

Graded(k, judged) ==
  [q \in Questions |->
     IF q \notin GradedQuestions(k) THEN "none"
     ELSE IF IsCorrect(k, judged, q) THEN "correct" ELSE "wrong"]

(* What the verifier may give for each of the open answers: its judgement, *)
(* or nothing, when it fails or its answer has not the form asked for.     *)
Judgements(k) == [OpenAnswered(k) -> {"correct", "wrong", "unavailable"}]

(* The verifier is called outside any transaction, once per open answer.   *)
Verify(c) ==
  LET k == call[c] IN
  /\ At(c, "verify")
  /\ \E judged \in Judgements(k) :
       Proceed(c, [k EXCEPT !.step = "finalize", !.grades = Graded(k, judged)])
  /\ verified' = IF QuotaEnabled /\ OpenAnswered(k) # {}
                 THEN [verified EXCEPT ![k.user] = @ + Units(k)]
                 ELSE verified
  /\ UNCHANGED <<usage, ledgerVars, examVars, worldVars, orphans, boundVars>>

Answered(a) == {q \in Questions : answer[a][q] # None}

(* Mutated form: the cardinality check is dropped.                         *)
SameCountSkipped(k) == TRUE

(* As many grades as there are stored answers.                             *)
SameCount(k) ==
  Cardinality(GradedQuestions(k)) = Cardinality(Answered(k.attempt))

(* Mutated form: the value predicates of the UPDATE are dropped.           *)
GradesApplyByKey(k) ==
  \A q \in GradedQuestions(k) : answer[k.attempt][q] # None /\ q \in linked

(* Mutated form: the link to the exam is not checked.                      *)
GradesApplyUnlinked(k) ==
  \A q \in GradedQuestions(k) : answer[k.attempt][q] = k.answers[q]

(* Every grade finds the very value it was given for, and its question     *)
(* still belongs to the exam.                                              *)
GradesApply(k) ==
  \A q \in GradedQuestions(k) :
    /\ answer[k.attempt][q] = k.answers[q]
    /\ q \in linked

(* The verdicts and the score that finalize stores in attempt k.attempt.   *)
NewVerdicts(k) ==
  [q \in Questions |-> IF q \in GradedQuestions(k)
                       THEN k.grades[q] ELSE verdict[k.attempt][q]]

NewScore(k) == [earned  |-> {q \in linked : NewVerdicts(k)[q] = "correct"},
                counted |-> linked]

(* Mutated form: the attempt is left in progress.                          *)
CommitGradesStillOpen(k) ==
  /\ InProgress(k)
  /\ SameCount(k)
  /\ GradesApply(k)
  /\ verdict' = [verdict EXCEPT ![k.attempt] = NewVerdicts(k)]
  /\ score'   = [score EXCEPT ![k.attempt] = NewScore(k)]
  /\ UNCHANGED <<status, owner, number, answer>>

CommitGrades(k) ==
  /\ InProgress(k)
  /\ SameCount(k)
  /\ GradesApply(k)
  /\ verdict' = [verdict EXCEPT ![k.attempt] = NewVerdicts(k)]
  /\ score'   = [score EXCEPT ![k.attempt] = NewScore(k)]
  /\ status'  = [status EXCEPT ![k.attempt] = "completed"]
  /\ UNCHANGED <<owner, number, answer>>

Finalize(c) ==
  LET k == call[c] IN
  /\ At(c, "finalize")
  /\ \/ /\ ~(InProgress(k) /\ SameCount(k))
        /\ Refuse(c, "conflict")
        /\ UNCHANGED ledgerVars
     \/ /\ InProgress(k) /\ SameCount(k)
        /\ ~GradesApply(k)
        /\ Refuse(c, "error")
        /\ UNCHANGED ledgerVars
     \/ /\ CommitGrades(k)
        /\ Reply(c, [Session(k, k.attempt, k.answers) EXCEPT
                       !.grades = k.grades])
  /\ UNCHANGED <<examVars, worldVars, usageVars, orphans, boundVars>>

-----------------------------------------------------------------------------
(* Faults.  A call can fail before it reaches the database, or time out    *)
(* while its transaction goes on: the request ends with a server error and *)
(* the abandoned transaction may commit at any later time, or never.       *)

Fault == faults < MaxFaults /\ faults' = faults + 1

CallFails(c) ==
  /\ ~At(c, "idle")
  /\ Fault
  /\ Refuse(c, "error")
  /\ UNCHANGED <<ledgerVars, examVars, worldVars, usageVars, orphans, edits>>

WriteSteps == {"insert", "submit", "reserve", "finalize"}

CallTimesOut(c) ==
  /\ call[c].step \in WriteSteps
  /\ Fault
  /\ orphans' = [orphans EXCEPT ![faults'] = call[c]]
  /\ Refuse(c, "error")
  /\ UNCHANGED <<ledgerVars, examVars, worldVars, usageVars, edits>>

OrphanCommits(i) ==
  LET k == orphans[i] IN
  /\ \/ /\ k.step = "insert"
        /\ \E a \in Attempts : InsertAttempt(k.user, a)
        /\ UNCHANGED usage
     \/ k.step = "submit"   /\ UpsertAnswer(k) /\ UNCHANGED usage
     \/ k.step = "finalize" /\ CommitGrades(k) /\ UNCHANGED usage
     \/ k.step = "reserve"  /\ ChargeUnits(k)  /\ UNCHANGED ledgerVars
  /\ orphans' = [orphans EXCEPT ![i] = IdleCall]
  /\ UNCHANGED <<verified, examVars, worldVars, call, resp, boundVars>>

OrphanVanishes(i) ==
  /\ orphans[i].step # "idle"
  /\ orphans' = [orphans EXCEPT ![i] = IdleCall]
  /\ UNCHANGED <<ledgerVars, examVars, worldVars, usageVars, call, resp,
                 boundVars>>

-----------------------------------------------------------------------------
(* What the managers of the notebook do meanwhile.                         *)

Edit == edits < MaxEdits /\ edits' = edits + 1

(* Mutated form: the answers of a question have no foreign key.            *)
Unreferenced(q) == FALSE

IsAnswered(q) == \E a \in Attempts : answer[a][q] # None
IsSelected(o) == \E a \in Attempts, q \in Questions : answer[a][q] = o

SetAccess(u) ==
  /\ Edit
  /\ access' \in {access \cup {u}, access \ {u}}
  /\ UNCHANGED <<ledgerVars, examVars, notebookActive>>

SetNotebookStatus ==
  /\ Edit
  /\ notebookActive' = ~notebookActive
  /\ UNCHANGED <<ledgerVars, examVars, access>>

SetExamStatus ==
  /\ Edit
  /\ examStatus # "gone"
  /\ examStatus' \in {"active", "archived"}
  /\ UNCHANGED <<ledgerVars, linked, rows, expected, options, correct,
                 worldVars>>

(* Deleting the exam cascades to its links, attempts and answers.          *)
DeleteExam ==
  /\ Edit
  /\ examStatus # "gone"
  /\ examStatus' = "gone"
  /\ linked'  = {}
  /\ status'  = [a \in Attempts |-> "absent"]
  /\ owner'   = [a \in Attempts |-> None]
  /\ number'  = [a \in Attempts |-> 0]
  /\ score'   = [a \in Attempts |-> NoScore]
  /\ answer'  = [a \in Attempts |-> NoAnswers]
  /\ verdict' = [a \in Attempts |-> NoGrades]
  /\ UNCHANGED <<rows, expected, options, correct, worldVars>>

(* PATCH of a question: its type and expected answer go together.          *)
EditQuestion(q) ==
  /\ Edit
  /\ q \in rows
  /\ \E t \in Texts \cup {None} : expected' = [expected EXCEPT ![q] = t]
  /\ UNCHANGED <<ledgerVars, examStatus, linked, rows, options, correct,
                 worldVars>>

(* An answered question cannot be deleted (ON DELETE RESTRICT).            *)
DeleteQuestion(q) ==
  /\ Edit
  /\ q \in rows
  /\ ~IsAnswered(q)
  /\ rows'    = rows \ {q}
  /\ linked'  = linked \ {q}
  /\ options' = {o \in options : QuestionOf[o] # q}
  /\ correct' = {o \in correct : QuestionOf[o] # q}
  /\ UNCHANGED <<ledgerVars, examStatus, expected, worldVars>>

(* The link alone may be deleted, answered or not.                         *)
UnlinkQuestion(q) ==
  /\ Edit
  /\ q \in linked
  /\ linked' = linked \ {q}
  /\ UNCHANGED <<ledgerVars, examStatus, rows, expected, options, correct,
                 worldVars>>

EditOption(o) ==
  /\ Edit
  /\ o \in options
  /\ correct' \in {correct \cup {o}, correct \ {o}}
  /\ UNCHANGED <<ledgerVars, examStatus, linked, rows, expected, options,
                 worldVars>>

(* A selected option cannot be deleted (ON DELETE RESTRICT).               *)
DeleteOption(o) ==
  /\ Edit
  /\ o \in options
  /\ ~IsSelected(o)
  /\ options' = options \ {o}
  /\ correct' = correct \ {o}
  /\ UNCHANGED <<ledgerVars, examStatus, linked, rows, expected, worldVars>>

Manage ==
  /\ \/ \E u \in Users : SetAccess(u)
     \/ SetNotebookStatus
     \/ SetExamStatus
     \/ DeleteExam
     \/ \E q \in Questions :
          EditQuestion(q) \/ DeleteQuestion(q) \/ UnlinkQuestion(q)
     \/ \E o \in Options : EditOption(o) \/ DeleteOption(o)
  /\ UNCHANGED <<usageVars, call, resp, orphans, faults>>

-----------------------------------------------------------------------------
Init ==
  /\ status   = [a \in Attempts |-> "absent"]
  /\ owner    = [a \in Attempts |-> None]
  /\ number   = [a \in Attempts |-> 0]
  /\ score    = [a \in Attempts |-> NoScore]
  /\ answer   = [a \in Attempts |-> NoAnswers]
  /\ verdict  = [a \in Attempts |-> NoGrades]
  /\ examStatus = "active"
  /\ linked   = Questions
  /\ rows     = Questions
  /\ expected = ExpectedAnswer
  /\ options  = Options
  /\ correct  = CorrectOptions
  /\ access   = Users
  /\ notebookActive = TRUE
  /\ usage    = [u \in Users |-> 0]
  /\ verified = [u \in Users |-> 0]
  /\ call     = [c \in Clients |-> IdleCall]
  /\ resp     = [c \in Clients |-> NoResponse]
  /\ orphans  = [i \in 1 .. MaxFaults |-> IdleCall]
  /\ edits    = 0
  /\ faults   = 0

(* The next call of the request that client c waits for.                   *)
Serve(c) ==
  \/ ReadAttempt(c) \/ ReadExam(c) \/ ReadAccess(c)
  \/ ReadLinks(c) \/ ReadQuestions(c) \/ ReadOptions(c)
  \/ ReadActive(c) \/ ReadAnswers(c)
  \/ CheckStart(c) \/ Create(c) \/ Submit(c)
  \/ Reserve(c) \/ Verify(c) \/ Finalize(c)

Next ==
  \/ \E c \in Clients :
       Arrive(c) \/ Serve(c) \/ CallFails(c) \/ CallTimesOut(c)
  \/ \E i \in 1 .. MaxFaults : OrphanCommits(i) \/ OrphanVanishes(i)
  \/ Manage

(* A request in service is eventually taken to its next call: the event    *)
(* loop and the thread pool are fair, and every call ends, by its result   *)
(* or by its client timeout.                                               *)
Fairness == \A c \in Clients : WF_vars(Serve(c))

Spec == Init /\ [][Next]_vars

FairSpec == Spec /\ Fairness

-----------------------------------------------------------------------------
(* Properties.                                                             *)

(* A user has at most one attempt in progress on the exam, however many    *)
(* starts race (advisory lock and re-read in start_exam_attempt).          *)
OneActiveAttempt ==
  \A a, b \in Attempts :
    /\ status[a] = "in_progress"
    /\ status[b] = "in_progress"
    /\ owner[a] = owner[b]
    => a = b

(* The attempts of a user are numbered 1, 2, ... with no repetition and no *)
(* gap, up to the limit: attempts_remaining is computed from the number.   *)
AttemptNumbering ==
  \A a \in Attempts : status[a] # "absent" =>
    /\ number[a] \in 1 .. AttemptLimit
    /\ \A b \in Own(owner[a]) : number[a] = number[b] => a = b
    /\ \A n \in 1 .. number[a] : \E b \in Own(owner[a]) : number[b] = n

(* No grade exists before the attempt is completed, and afterwards every   *)
(* stored answer has one and the score is what the stored grades say:      *)
(* finalize refuses any set of grades that is not exactly the stored       *)
(* answers.                                                                *)
GradesMatchStatus ==
  \A a \in Attempts :
    IF status[a] = "completed"
    THEN /\ \A q \in Questions : verdict[a][q] = "none" <=> answer[a][q] = None
         /\ score[a].earned = {q \in Questions : verdict[a][q] = "correct"}
         /\ score[a].earned \subseteq score[a].counted
    ELSE verdict[a] = NoGrades

(* A finish that answered 200 told the truth and it stays true: the        *)
(* attempt is completed with the answers and the verdicts it returned,     *)
(* whatever late submits, second finishes and abandoned calls do.          *)
FinishedResponseIsFinal ==
  \A c \in Clients :
    /\ resp[c].kind = "finish" /\ resp[c].code = "ok"
    /\ examStatus # "gone"
    => /\ status[resp[c].attempt] = "completed"
       /\ answer[resp[c].attempt] = resp[c].answers
       /\ verdict[resp[c].attempt] = resp[c].grades

(* Of two finishes of one attempt at most one succeeds.                    *)
OneFinishWins ==
  \A c, d \in Clients :
    /\ c # d
    /\ \A e \in {c, d} : resp[e].kind = "finish" /\ resp[e].code = "ok"
    => resp[c].attempt # resp[d].attempt

(* No answer is sent to the verifier that was not reserved first.          *)
NoUnreservedVerification ==
  QuotaEnabled => \A u \in Users : verified[u] <= usage[u] /\ usage[u] <= QuotaLimit

(* A completed attempt never changes again: neither its row, its answers   *)
(* nor its grades (only the deletion of the exam removes it).              *)
CompletedIsFrozen ==
  [][\A a \in Attempts :
       status[a] = "completed" /\ examStatus' # "gone" =>
         UNCHANGED <<status[a], owner[a], number[a], score[a], answer[a],
                     verdict[a]>>]_vars

(* The requests whose next call may still reach the database.              *)
InService == {call[c] : c \in Clients} \cup {orphans[i] : i \in 1 .. MaxFaults}

(* An attempt is completed only by a grading whose snapshot holds the very *)
(* values stored at that moment, with the verdicts given for them: no      *)
(* verdict reached for an older value is ever stored.                      *)
GradingIsCurrent ==
  [][\A a \in Attempts :
       status[a] = "in_progress" /\ status'[a] = "completed" =>
         \E k \in InService :
           /\ k.step = "finalize" /\ k.attempt = a /\ k.user = owner[a]
           /\ \A q \in Questions : answer[a][q] # None =>
                 k.answers[q] = answer[a][q] /\ verdict'[a][q] = k.grades[q]]_vars

(* Every step of the workflow is a step of the ledger or leaves it alone:  *)
(* the calls of a request, interleaved as they may be, take effect at one  *)
(* instant.                                                                *)
Ledger == INSTANCE AttemptLedger
  WITH status <- status, owner <- owner, number <- number, score <- score,
       answer <- answer, verdict <- verdict

ImplementsLedger == Ledger!Spec

(* Every request is answered, with a result, a refusal or an error.        *)
RequestsAnswered == \A c \in Clients : ~At(c, "idle") ~> At(c, "idle")

(* The guide says that starting is recoverable: an active attempt comes    *)
(* back with its answers.  A session is answered with the answers that are *)
(* stored at that moment.                                                  *)
SessionHasStoredAnswers ==
  [][\A c \in Clients :
       /\ resp'[c].kind \in {"start", "session"} /\ resp'[c].code = "ok"
       /\ resp'[c] # resp[c]
       => resp'[c].answers = answer'[resp'[c].attempt]]_vars

(* The guide says that an answer which changes while the attempt is being  *)
(* finished gives a conflict (409), on which the client finishes again.    *)
ChangedAnswerIsConflict ==
  [][\A c \in Clients :
       /\ At(c, "finalize") /\ call'[c] # call[c]
       /\ faults' = faults
       /\ InProgress(call[c])
       /\ answer[call[c].attempt] # call[c].answers
       => resp'[c].code = "conflict"]_vars
=============================================================================
