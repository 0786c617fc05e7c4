------------------------- MODULE ExamAttemptsProofs -------------------------
(***************************************************************************)
(* Proofs about ExamAttempts, for every value of its constants: types, the *)
(* invariants of the ledger of attempts, the refinement of AttemptLedger,  *)
(* and the truth of the responses to finish.                               *)
(***************************************************************************)
EXTENDS ExamAttempts, FiniteSetTheorems, TLAPS

(* What a request in service knows at each of its calls.                   *)
CallOK(k) ==
  /\ k.step # "idle" => k.user \in Users
  /\ k.kind # "start" \/ k.step \in {"attempt", "answers"} =>
       k.attempt \in Attempts
  /\ k.step \in {"reserve", "verify", "finalize"} => k.kind = "finish"
  /\ k.step = "submit" => k.kind = "submit"
  /\ k.step \in {"active", "create", "insert"} => k.kind = "start"
  /\ k.kind = "submit" => k.question \in Questions /\ k.value \in Values
  /\ k.step = "finalize" =>
       \A q \in Questions : k.grades[q] = "none" <=> q \notin GradedQuestions(k)

CallsOK ==
  /\ \A c \in Clients : CallOK(call[c])
  /\ \A i \in 1 .. MaxFaults : CallOK(orphans[i])

TypeInv == TypeOK /\ CallsOK

(* The record of an idle client, and an empty response, are of their types.*)
LEMMA IdleTyped ==
  IdleCall \in Call /\ CallOK(IdleCall) /\ NoResponse \in Response
BY ConstantsAssumption
   DEF IdleCall, Call, CallOK, NoResponse, Response, NoAnswers, NoGrades,
       Answers, Grades, Verdicts, Statuses, Kinds, Steps, Codes

(* The numbers of open and of graded answers of a request are numbers, and *)
(* the sets counted are finite (Units, SameCount).                         *)
LEMMA UnitsTyped ==
  ASSUME NEW k \in Call
  PROVE  /\ Units(k) \in Nat
         /\ IsFiniteSet(GradedQuestions(k))
<1>1. k.questions \subseteq Questions
  BY DEF Call
<1>2. OpenAnswered(k) \subseteq Questions /\ GradedQuestions(k) \subseteq Questions
  BY <1>1 DEF OpenAnswered, GradedQuestions
<1>3. IsFiniteSet(OpenAnswered(k)) /\ IsFiniteSet(GradedQuestions(k))
  BY <1>2, FS_Subset, ConstantsAssumption DEF ConstantsAssumption
<1>4. QED
  BY <1>3, FS_CardinalityType DEF Units

(* What the API keeps of its requests is of its type.                      *)
ServiceInv ==
  /\ call \in [Clients -> Call]
  /\ resp \in [Clients -> Response]
  /\ orphans \in [1 .. MaxFaults -> Call]
  /\ CallsOK

(* A request that goes on to a call for which it knows enough keeps the    *)
(* requests typed.                                                         *)
LEMMA ProceedTyped ==
  ASSUME ServiceInv, NEW c \in Clients, NEW k \in Call, CallOK(k),
         Proceed(c, k), UNCHANGED orphans
  PROVE  ServiceInv'
BY DEF ServiceInv, CallsOK, Proceed

(* So does a request that is answered.                                     *)
LEMMA ReplyTyped ==
  ASSUME ServiceInv, NEW c \in Clients, NEW r \in Response,
         Reply(c, r), UNCHANGED orphans
  PROVE  ServiceInv'
BY IdleTyped DEF ServiceInv, CallsOK, Reply

(* So does a request that is refused.                                      *)
LEMMA RefuseTyped ==
  ASSUME ServiceInv, NEW c \in Clients, NEW code \in Codes,
         Refuse(c, code), UNCHANGED orphans
  PROVE  ServiceInv'
<1>1. [NoResponse EXCEPT !.code = code] \in Response
  BY IdleTyped DEF Response
<1>2. QED
  BY <1>1, ReplyTyped DEF Refuse

(* The calls of the questions listed to the use case (QuestionsListed).    *)
LEMMA QuestionsListedTyped ==
  ASSUME ServiceInv, NEW c \in Clients, NEW k \in Call, CallOK(k),
         k.step # "idle", QuestionsListed(c, k), UNCHANGED orphans
  PROVE  ServiceInv'
<1>1. {"bad_request", "not_found"} \subseteq Codes
  BY DEF Codes
<1>2. ASSUME NEW s \in {"active", "answers", "submit"},
             s = "active" => k.kind = "start",
             s = "answers" => k.kind # "start",
             s = "submit" => k.kind = "submit"
      PROVE  LET m == [k EXCEPT !.step = s] IN m \in Call /\ CallOK(m)
  BY <1>2 DEF Call, CallOK, Steps
<1>3. CASE \E code \in {"bad_request", "not_found"} : Refuse(c, code)
  BY <1>1, <1>3, RefuseTyped
<1>4. CASE \E s \in {"active", "answers", "submit"} :
             /\ s = "active" => k.kind = "start"
             /\ s = "answers" => k.kind # "start"
             /\ s = "submit" => k.kind = "submit"
             /\ Proceed(c, [k EXCEPT !.step = s])
  BY <1>2, <1>4, ProceedTyped
<1>5. QED
  BY <1>3, <1>4 DEF QuestionsListed, Call, Kinds

(* The reads of a request, and the check that start makes before its lock. *)
Reads(c) ==
  \/ ReadAttempt(c) \/ ReadExam(c) \/ ReadAccess(c)
  \/ ReadLinks(c) \/ ReadQuestions(c) \/ ReadOptions(c)
  \/ ReadActive(c) \/ ReadAnswers(c) \/ CheckStart(c)

(* The reads give each request what its next call needs.                   *)
LEMMA ReadsTyped ==
  ASSUME TypeInv, NEW c \in Clients, Reads(c)
  PROVE  ServiceInv'
<1> DEFINE k == call[c]
<1>1. /\ ServiceInv
      /\ k \in Call /\ CallOK(k)
  BY DEF TypeInv, TypeOK, ServiceTypeOK, ServiceInv, CallsOK
<1>2. UNCHANGED orphans
  BY DEF Reads, ReadAttempt, ReadExam, ReadAccess, ReadLinks, ReadQuestions,
         ReadOptions, ReadActive, ReadAnswers, CheckStart, ReadOnly
<1>3. ASSUME NEW code \in Codes, Refuse(c, code)
      PROVE  ServiceInv'
  BY <1>1, <1>2, <1>3, RefuseTyped
<1>4. {"bad_request", "not_found", "forbidden", "conflict", "error"}
        \subseteq Codes
  BY DEF Codes
(* A step to a call that no fact of CallOK speaks of.                      *)
<1>5. ASSUME NEW s \in {"access", "links", "create", "insert"},
             k.step # "idle", s \in {"create", "insert"} => k.kind = "start",
             Proceed(c, [k EXCEPT !.step = s])
      PROVE  ServiceInv'
  <2>1. LET m == [k EXCEPT !.step = s] IN m \in Call /\ CallOK(m)
    BY <1>1, <1>5 DEF Call, CallOK, Steps
  <2>2. QED
    BY <1>1, <1>2, <1>5, <2>1, ProceedTyped
<1>6. CASE ReadAttempt(c)
  <2> DEFINE m == [k EXCEPT !.step = "exam", !.status = status[k.attempt]]
  <2>1. k.attempt \in Attempts
    BY <1>1, <1>6 DEF ReadAttempt, At, CallOK
  <2>2. status[k.attempt] \in Statuses
    BY <2>1 DEF TypeInv, TypeOK, LedgerTypeOK
  <2>3. m \in Call /\ CallOK(m)
    BY <1>1, <1>6, <2>1, <2>2 DEF Call, CallOK, Steps, At, ReadAttempt
  <2>4. CASE Proceed(c, m)
    BY <1>1, <1>2, <2>3, <2>4, ProceedTyped
  <2>5. QED
    BY <1>3, <1>4, <1>6, <2>4 DEF ReadAttempt
<1>7. CASE ReadExam(c)
  BY <1>3, <1>4, <1>5, <1>7 DEF ReadExam, At
<1>8. CASE ReadAccess(c)
  BY <1>3, <1>4, <1>5, <1>8 DEF ReadAccess, At
<1>9. CASE ReadLinks(c)
  <2> DEFINE m == [k EXCEPT !.step = "questions", !.questions = linked]
  <2>1. linked \subseteq Questions
    BY DEF TypeInv, TypeOK, ExamTypeOK
  <2>2. m \in Call /\ CallOK(m)
    BY <1>1, <1>9, <2>1 DEF Call, CallOK, Steps, At, ReadLinks
  <2>3. CASE Proceed(c, m)
    BY <1>1, <1>2, <2>2, <2>3, ProceedTyped
  <2>4. CASE QuestionsListed(c, k)
    BY <1>1, <1>2, <1>9, <2>4, QuestionsListedTyped DEF ReadLinks, At
  <2>5. QED
    BY <1>9, <2>3, <2>4 DEF ReadLinks
<1>10. CASE ReadQuestions(c)
  <2> DEFINE m == [k EXCEPT !.step = "options", !.questions = @ \cap rows,
                            !.expected = expected]
  <2>1. expected \in [Questions -> Texts \cup {None}]
    BY DEF TypeInv, TypeOK, ExamTypeOK
  <2>2. m \in Call /\ CallOK(m)
    BY <1>1, <1>10, <2>1 DEF Call, CallOK, Steps, At, ReadQuestions
  <2>3. QED
    BY <1>1, <1>2, <1>10, <2>2, ProceedTyped DEF ReadQuestions
<1>11. CASE ReadOptions(c)
  <2> DEFINE m == [k EXCEPT !.options = options, !.correct = correct]
  <2>1. options \subseteq Options /\ correct \subseteq Options
    BY DEF TypeInv, TypeOK, ExamTypeOK
  <2>2. m \in Call /\ CallOK(m) /\ m.step # "idle"
    BY <1>1, <1>11, <2>1 DEF Call, CallOK, At, ReadOptions
  <2>3. QED
    BY <1>1, <1>2, <1>11, <2>2, QuestionsListedTyped DEF ReadOptions
<1>12. CASE ReadActive(c)
  <2>1. ASSUME NEW a \in Active(k.user),
               Proceed(c, [k EXCEPT !.step = "answers", !.attempt = a])
        PROVE  ServiceInv'
    <3> DEFINE m == [k EXCEPT !.step = "answers", !.attempt = a]
    <3>1. m \in Call /\ CallOK(m)
      BY <1>1, <1>12, <2>1 DEF Call, CallOK, Steps, At, ReadActive, Active, Own
    <3>2. QED
      BY <1>1, <1>2, <2>1, <3>1, ProceedTyped
  <2>2. QED
    BY <1>1, <1>5, <1>12, <2>1 DEF ReadActive, At, CallOK
<1>13. CASE ReadAnswers(c)
  <2> DEFINE m == [k EXCEPT !.answers = answer[k.attempt]]
  <2>1. k.attempt \in Attempts /\ k.step = "answers" /\ k.user \in Users
    BY <1>1, <1>13 DEF ReadAnswers, At, CallOK
  <2>2. answer[k.attempt] \in Answers
    BY <2>1 DEF TypeInv, TypeOK, LedgerTypeOK
  <2>3. m \in Call
    BY <1>1, <2>2 DEF Call
  <2>4. ASSUME NEW s \in {"reserve", "verify"}, k.kind = "finish",
               Proceed(c, [m EXCEPT !.step = s])
        PROVE  ServiceInv'
    <3>1. LET n == [m EXCEPT !.step = s] IN n \in Call /\ CallOK(n)
      BY <1>1, <2>1, <2>3, <2>4 DEF Call, CallOK, Steps
    <3>2. QED
      BY <1>1, <1>2, <2>4, <3>1, ProceedTyped
  <2>5. Session(m, m.attempt, m.answers) \in Response
    BY <1>1, <2>3, IdleTyped
       DEF Session, Response, Call, Codes, NoResponse
  <2>6. CASE Reply(c, Session(m, m.attempt, m.answers))
    BY <1>1, <1>2, <2>5, <2>6, ReplyTyped
  <2>7. m.kind = k.kind
    BY <1>1 DEF Call
  <2>8. QED
    BY <1>13, <2>4, <2>6, <2>7 DEF ReadAnswers
<1>14. CASE CheckStart(c)
  BY <1>1, <1>3, <1>4, <1>5, <1>14 DEF CheckStart, At, CallOK
<1>15. QED
  BY <1>6, <1>7, <1>8, <1>9, <1>10, <1>11, <1>12, <1>13, <1>14 DEF Reads
(* The other steps of a request.                                           *)
LEMMA WritesTyped ==
  ASSUME TypeInv, NEW c \in Clients,
         Create(c) \/ Submit(c) \/ Reserve(c) \/ Verify(c) \/ Finalize(c)
  PROVE  ServiceInv'
<1> DEFINE k == call[c]
<1>1. /\ ServiceInv
      /\ k \in Call /\ CallOK(k)
  BY DEF TypeInv, TypeOK, ServiceTypeOK, ServiceInv, CallsOK
<1>2. UNCHANGED orphans
  BY DEF Create, Submit, Reserve, Verify, Finalize
<1>3. ASSUME NEW code \in Codes, Refuse(c, code)
      PROVE  ServiceInv'
  BY <1>1, <1>2, <1>3, RefuseTyped
<1>4. {"conflict", "error", "too_many"} \subseteq Codes
  BY DEF Codes
<1>5. ASSUME NEW a \in Attempts, NEW answers \in Answers
      PROVE  Session(k, a, answers) \in Response
  BY <1>1, IdleTyped DEF Session, Response, Call, Codes, NoResponse
<1>6. NoAnswers \in Answers
  BY DEF NoAnswers, Answers
<1>7. CASE Create(c)
  <2>1. ASSUME NEW a \in Attempts, Reply(c, Session(k, a, NoAnswers))
        PROVE  ServiceInv'
    BY <1>1, <1>2, <1>5, <1>6, <2>1, ReplyTyped
  <2>2. QED
    BY <1>3, <1>4, <1>7, <2>1 DEF Create, Active, Own
<1>8. CASE Submit(c)
  <2> DEFINE r == [Session(k, k.attempt, NoAnswers) EXCEPT
                     !.answers[k.question] = k.value]
  <2>1. k.attempt \in Attempts /\ k.question \in Questions /\ k.value \in Values
    BY <1>1, <1>8 DEF Submit, At, CallOK
  <2>2. r \in Response
    BY <1>5, <1>6, <2>1 DEF Response, Answers
  <2>3. CASE Reply(c, r)
    BY <1>1, <1>2, <2>2, <2>3, ReplyTyped
  <2>4. QED
    BY <1>3, <1>4, <1>8, <2>3 DEF Submit
<1>9. CASE Reserve(c)
  <2>1. LET m == [k EXCEPT !.step = "verify"] IN m \in Call /\ CallOK(m)
    BY <1>1, <1>9 DEF Call, CallOK, Steps, At, Reserve
  <2>2. QED
    BY <1>1, <1>2, <1>3, <1>4, <1>9, <2>1, ProceedTyped DEF Reserve
<1>10. CASE Verify(c)
  <2>1. PICK judged :
          Proceed(c, [k EXCEPT !.step = "finalize", !.grades = Graded(k, judged)])
    BY <1>10 DEF Verify
  <2> DEFINE m == [k EXCEPT !.step = "finalize", !.grades = Graded(k, judged)]
  <2>2. /\ Graded(k, judged) \in Grades
        /\ \A q \in Questions :
             Graded(k, judged)[q] = "none" <=> q \notin GradedQuestions(k)
    BY DEF Graded, Grades, Verdicts
  <2>3. m \in Call
    BY <1>1, <2>2 DEF Call, Steps
  <2>4. GradedQuestions(m) = GradedQuestions(k)
    BY <1>1 DEF Call, GradedQuestions
  <2>5. CallOK(m)
    BY <1>1, <1>10, <2>2, <2>4 DEF Call, CallOK, At, Verify
  <2>6. QED
    BY <1>1, <1>2, <2>1, <2>3, <2>5, ProceedTyped
<1>11. CASE Finalize(c)
  <2> DEFINE r == [Session(k, k.attempt, k.answers) EXCEPT !.grades = k.grades]
  <2>1. k.attempt \in Attempts /\ k.answers \in Answers /\ k.grades \in Grades
    BY <1>1, <1>11 DEF Finalize, At, CallOK, Call
  <2>2. r \in Response
    BY <1>5, <2>1 DEF Response
  <2>3. CASE Reply(c, r)
    BY <1>1, <1>2, <2>2, <2>3, ReplyTyped
  <2>4. QED
    BY <1>3, <1>4, <1>11, <2>3 DEF Finalize
<1>12. QED
  BY <1>7, <1>8, <1>9, <1>10, <1>11

(* Faults, and the steps that do not concern a request.                    *)
LEMMA OthersTyped ==
  ASSUME TypeInv,
         \/ \E c \in Clients : Arrive(c) \/ CallFails(c) \/ CallTimesOut(c)
         \/ \E i \in 1 .. MaxFaults : OrphanCommits(i) \/ OrphanVanishes(i)
         \/ Manage
  PROVE  ServiceInv'
<1>1. ServiceInv
  BY DEF TypeInv, TypeOK, ServiceTypeOK, ServiceInv
<1>2. ASSUME NEW c \in Clients, Arrive(c) PROVE ServiceInv'
  <2>1. UNCHANGED orphans /\ resp' = [resp EXCEPT ![c] = NoResponse]
    BY <1>2 DEF Arrive, ReadOnly
  <2>2. PICK k : /\ k \in Call /\ CallOK(k)
                 /\ call' = [call EXCEPT ![c] = k]
    <3>1. ASSUME NEW u \in Users
          PROVE  LET k == [IdleCall EXCEPT !.user = u, !.kind = "start",
                                           !.step = "exam"]
                 IN  k \in Call /\ CallOK(k)
      BY IdleTyped DEF IdleCall, Call, CallOK, Kinds, Steps
    <3>2. ASSUME NEW u \in Users, NEW a \in Attempts,
                 NEW kind \in {"session", "finish"}
          PROVE  LET k == [IdleCall EXCEPT !.user = u, !.kind = kind,
                             !.step = "attempt", !.attempt = a]
                 IN  k \in Call /\ CallOK(k)
      BY IdleTyped DEF IdleCall, Call, CallOK, Kinds, Steps
    <3>3. ASSUME NEW u \in Users, NEW a \in Attempts, NEW q \in Questions,
                 NEW v \in Values
          PROVE  LET k == [IdleCall EXCEPT !.user = u, !.kind = "submit",
                             !.step = "attempt", !.attempt = a,
                             !.question = q, !.value = v]
                 IN  k \in Call /\ CallOK(k)
      BY IdleTyped DEF IdleCall, Call, CallOK, Kinds, Steps
    <3>4. QED
      BY <1>2, <3>1, <3>2, <3>3 DEF Arrive
  <2>3. QED
    BY <1>1, <2>1, <2>2, IdleTyped DEF ServiceInv, CallsOK
<1>3. ASSUME NEW c \in Clients, CallFails(c) \/ CallTimesOut(c)
      PROVE  ServiceInv'
  <2>1. /\ Refuse(c, "error")
        /\ orphans' = orphans \/ orphans' = [orphans EXCEPT ![faults'] = call[c]]
    BY <1>3 DEF CallFails, CallTimesOut
  <2>2. /\ call' \in [Clients -> Call] /\ resp' \in [Clients -> Response]
        /\ \A d \in Clients : CallOK(call'[d])
    <3>1. [NoResponse EXCEPT !.code = "error"] \in Response
      BY IdleTyped DEF Response, Codes
    <3>2. QED
      BY <1>1, <2>1, <3>1, IdleTyped DEF ServiceInv, CallsOK, Refuse, Reply
  <2>3. /\ orphans' \in [1 .. MaxFaults -> Call]
        /\ \A i \in 1 .. MaxFaults : CallOK(orphans'[i])
    BY <1>1, <2>1 DEF ServiceInv, CallsOK
  <2>4. QED
    BY <2>2, <2>3 DEF ServiceInv, CallsOK
<1>4. ASSUME NEW i \in 1 .. MaxFaults, OrphanCommits(i) \/ OrphanVanishes(i)
      PROVE  ServiceInv'
  <2>1. UNCHANGED <<call, resp>> /\ orphans' = [orphans EXCEPT ![i] = IdleCall]
    BY <1>4 DEF OrphanCommits, OrphanVanishes
  <2>2. QED
    BY <1>1, <2>1, IdleTyped DEF ServiceInv, CallsOK
<1>5. CASE Manage
  BY <1>1, <1>5 DEF Manage, ServiceInv, CallsOK
<1>6. QED
  BY <1>2, <1>3, <1>4, <1>5
-----------------------------------------------------------------------------
(* The steps as the ledger sees them: one of the three transactions takes  *)
(* effect, for a request in service, or the exam is deleted, or nothing    *)
(* happens to the attempts.                                                *)
LedgerStep ==
  \/ UNCHANGED ledgerVars /\ (examStatus' = "gone" <=> examStatus = "gone")
  \/ \E u \in Users, a \in Attempts : InsertAttempt(u, a) /\ UNCHANGED examStatus
  \/ \E k \in InService :
       k.step = "submit" /\ UpsertAnswer(k) /\ UNCHANGED examStatus
  \/ \E k \in InService :
       k.step = "finalize" /\ CommitGrades(k) /\ UNCHANGED examStatus
  \/ DeleteExam

(* Every step of the workflow is one of the five kinds of LedgerStep.      *)
LEMMA StepShape ==
  ASSUME TypeInv, [Next]_vars
  PROVE  LedgerStep
<1>1. ASSUME NEW c \in Clients, Reads(c) PROVE LedgerStep
  BY <1>1 DEF Reads, ReadAttempt, ReadExam, ReadAccess, ReadLinks,
              ReadQuestions, ReadOptions, ReadActive, ReadAnswers, CheckStart,
              ReadOnly, LedgerStep, examVars
<1>2. ASSUME NEW c \in Clients, Create(c) PROVE LedgerStep
  <2>1. call[c].user \in Users /\ UNCHANGED examStatus
    BY <1>2 DEF Create, At, TypeInv, CallsOK, CallOK, examVars
  <2>2. QED
    BY <1>2, <2>1 DEF Create, LedgerStep
<1>3. ASSUME NEW c \in Clients, Submit(c) PROVE LedgerStep
  BY <1>3 DEF Submit, At, InService, examVars, LedgerStep
<1>4. ASSUME NEW c \in Clients, Reserve(c) \/ Verify(c) PROVE LedgerStep
  BY <1>4 DEF Reserve, Verify, examVars, LedgerStep
<1>5. ASSUME NEW c \in Clients, Finalize(c) PROVE LedgerStep
  BY <1>5 DEF Finalize, At, InService, examVars, LedgerStep
<1>6. ASSUME NEW c \in Clients, Arrive(c) \/ CallFails(c) \/ CallTimesOut(c)
      PROVE  LedgerStep
  BY <1>6 DEF Arrive, CallFails, CallTimesOut, ReadOnly, examVars, LedgerStep
<1>7. ASSUME NEW i \in 1 .. MaxFaults, OrphanCommits(i) PROVE LedgerStep
  <2> DEFINE k == orphans[i]
  <2>1. k \in InService /\ CallOK(k) /\ UNCHANGED examStatus
    BY <1>7 DEF OrphanCommits, InService, TypeInv, CallsOK, examVars
  <2>2. CASE k.step = "insert" /\ \E a \in Attempts : InsertAttempt(k.user, a)
    BY <2>1, <2>2 DEF CallOK, LedgerStep
  <2>3. CASE k.step = "submit" /\ UpsertAnswer(k)
    BY <2>1, <2>3 DEF LedgerStep
  <2>4. CASE k.step = "finalize" /\ CommitGrades(k)
    BY <2>1, <2>4 DEF LedgerStep
  <2>5. CASE UNCHANGED ledgerVars
    BY <2>1, <2>5 DEF LedgerStep
  <2>6. QED
    BY <1>7, <2>2, <2>3, <2>4, <2>5 DEF OrphanCommits
<1>8. ASSUME NEW i \in 1 .. MaxFaults, OrphanVanishes(i) PROVE LedgerStep
  BY <1>8 DEF OrphanVanishes, examVars, LedgerStep
<1>9. CASE Manage
  <2>1. CASE DeleteExam
    BY <2>1 DEF LedgerStep
  <2>2. CASE SetNotebookStatus \/ SetExamStatus \/ \E u \in Users : SetAccess(u)
    BY <2>2 DEF SetNotebookStatus, SetExamStatus, SetAccess, examVars, LedgerStep
  <2>3. CASE \E q \in Questions :
               EditQuestion(q) \/ DeleteQuestion(q) \/ UnlinkQuestion(q)
    BY <2>3 DEF EditQuestion, DeleteQuestion, UnlinkQuestion, LedgerStep
  <2>4. CASE \E o \in Options : EditOption(o) \/ DeleteOption(o)
    BY <2>4 DEF EditOption, DeleteOption, LedgerStep
  <2>5. QED
    BY <1>9, <2>1, <2>2, <2>3, <2>4 DEF Manage
<1>10. CASE UNCHANGED vars
  BY <1>10 DEF vars, examVars, LedgerStep
<1>11. QED
  BY <1>1, <1>2, <1>3, <1>4, <1>5, <1>6, <1>7, <1>8, <1>9, <1>10
     DEF Next, Serve, Reads

(* The calls that may still reach the database are typed and know enough,  *)
(* the abandoned ones included.                                            *)
LEMMA InServiceTyped ==
  ASSUME TypeInv, NEW k \in InService
  PROVE  k \in Call /\ CallOK(k)
BY DEF InService, TypeInv, TypeOK, ServiceTypeOK, CallsOK

(* Each of these steps keeps the columns of attempts and answers typed.    *)
LEMMA LedgerTyped ==
  ASSUME TypeInv, LedgerStep
  PROVE  LedgerTypeOK'
<1> USE DEF TypeInv, TypeOK, LedgerTypeOK, Statuses, Verdicts, Answers, Grades,
            Scores
<1>1. ASSUME NEW k \in InService PROVE k \in Call /\ CallOK(k)
  BY InServiceTyped
<1>2. CASE UNCHANGED ledgerVars
  BY <1>2 DEF ledgerVars
<1>3. ASSUME NEW u \in Users, NEW a \in Attempts, InsertAttempt(u, a)
      PROVE  LedgerTypeOK'
  BY <1>3 DEF InsertAttempt
<1>4. ASSUME NEW k \in InService, k.step = "submit", UpsertAnswer(k)
      PROVE  LedgerTypeOK'
  <2>1. k.attempt \in Attempts /\ k.question \in Questions /\ k.value \in Values
    BY <1>1, <1>4 DEF CallOK
  <2>2. QED
    BY <1>4, <2>1 DEF UpsertAnswer
<1>5. ASSUME NEW k \in InService, k.step = "finalize", CommitGrades(k)
      PROVE  LedgerTypeOK'
  <2>1. k.attempt \in Attempts /\ k.grades \in [Questions -> Verdicts]
    BY <1>1, <1>5 DEF CallOK, Call
  <2>2. NewVerdicts(k) \in [Questions -> Verdicts]
    BY <2>1 DEF NewVerdicts
  <2>3. NewScore(k) \in Scores
    BY DEF NewScore, ExamTypeOK
  <2>4. QED
    BY <1>5, <2>1, <2>2, <2>3 DEF CommitGrades
<1>6. CASE DeleteExam
  BY <1>6, ConstantsAssumption DEF DeleteExam, NoScore, NoAnswers, NoGrades
<1>7. QED
  BY <1>2, <1>3, <1>4, <1>5, <1>6 DEF LedgerStep

(* The steps as the exam sees them.                                        *)
ExamStep ==
  \/ UNCHANGED examVars
  \/ DeleteExam
  \/ \E q \in Questions : DeleteQuestion(q)
  \/ \E o \in Options : DeleteOption(o)
  \/ /\ UNCHANGED <<ledgerVars, rows, options>>
     /\ examStatus' = "gone" => examStatus = "gone"

(* The tables of the exam change only in the hands of its managers.        *)
LEMMA ExamTyped ==
  ASSUME TypeInv, [Next]_vars
  PROVE  ExamTypeOK' /\ ExamStep
<1> USE DEF TypeInv, TypeOK, ExamTypeOK, ExamStep
<1>1. CASE UNCHANGED <<examVars, worldVars>>
  BY <1>1 DEF examVars, worldVars
<1>2. CASE Manage
  <2>1. CASE DeleteExam
    BY <2>1 DEF DeleteExam, worldVars
  <2>2. ASSUME NEW u \in Users, SetAccess(u) PROVE ExamTypeOK' /\ ExamStep
    BY <2>2 DEF SetAccess, examVars
  <2>3. CASE SetNotebookStatus \/ SetExamStatus
    BY <2>3 DEF SetNotebookStatus, SetExamStatus, examVars, worldVars
  <2>4. ASSUME NEW q \in Questions,
               EditQuestion(q) \/ DeleteQuestion(q) \/ UnlinkQuestion(q)
        PROVE  ExamTypeOK' /\ ExamStep
    BY <2>4 DEF EditQuestion, DeleteQuestion, UnlinkQuestion, worldVars
  <2>5. ASSUME NEW o \in Options, EditOption(o) \/ DeleteOption(o)
        PROVE  ExamTypeOK' /\ ExamStep
    BY <2>5 DEF EditOption, DeleteOption, worldVars
  <2>6. QED
    BY <1>2, <2>1, <2>2, <2>3, <2>4, <2>5 DEF Manage
<1>3. CASE UNCHANGED vars
  BY <1>1, <1>3 DEF vars
<1>4. ASSUME NEW c \in Clients,
             Reads(c) \/ Arrive(c) \/ CallFails(c) \/ CallTimesOut(c)
      PROVE  UNCHANGED <<examVars, worldVars>>
  BY <1>4 DEF Reads, ReadAttempt, ReadExam, ReadAccess, ReadLinks,
              ReadQuestions, ReadOptions, ReadActive, ReadAnswers, CheckStart,
              ReadOnly, Arrive, CallFails, CallTimesOut
<1>5. ASSUME NEW c \in Clients,
             Create(c) \/ Submit(c) \/ Reserve(c) \/ Verify(c) \/ Finalize(c)
      PROVE  UNCHANGED <<examVars, worldVars>>
  BY <1>5 DEF Create, Submit, Reserve, Verify, Finalize
<1>6. ASSUME NEW i \in 1 .. MaxFaults, OrphanCommits(i) \/ OrphanVanishes(i)
      PROVE  UNCHANGED <<examVars, worldVars>>
  BY <1>6 DEF OrphanCommits, OrphanVanishes
<1>7. QED
  BY <1>1, <1>2, <1>3, <1>4, <1>5, <1>6 DEF Next, Serve, Reads

(* No step of the workflow leaves a reference to a row that is gone: its   *)
(* transactions check what they refer to, and managers delete only what no *)
(* answer refers to.                                                       *)
LEMMA ReferencesKept ==
  ASSUME TypeInv, LedgerStep, ExamStep
  PROVE  ReferencesOK'
<1> USE DEF TypeInv, TypeOK, ReferencesOK
<1>1. ASSUME NEW k \in InService PROVE k \in Call /\ CallOK(k)
  BY InServiceTyped
<1>2. CASE UNCHANGED examVars
  <2>1. ASSUME NEW u \in Users, NEW a \in Attempts, InsertAttempt(u, a)
        PROVE  ReferencesOK'
    BY <1>2, <2>1 DEF InsertAttempt, CanInsert, examVars, LedgerTypeOK
  <2>2. ASSUME NEW k \in InService, k.step = "submit", UpsertAnswer(k)
        PROVE  ReferencesOK'
    <3>1. k.attempt \in Attempts /\ k.question \in Questions /\ k.value \in Values
      BY <1>1, <2>2 DEF CallOK
    <3>2. /\ status[k.attempt] = "in_progress"
          /\ k.question \in rows
          /\ k.value \in Options =>
               k.value \in options /\ QuestionOf[k.value] = k.question
      BY <2>2, <3>1, ConstantsAssumption
         DEF UpsertAnswer, InProgress, AcceptsValue, ExamTypeOK, ConstantsAssumption
    <3>3. \A a \in Attempts, q \in Questions :
            answer'[a][q] = IF a = k.attempt /\ q = k.question
                            THEN k.value ELSE answer[a][q]
      BY <2>2, <3>1 DEF UpsertAnswer, LedgerTypeOK, Answers
    <3>4. UNCHANGED status
      BY <2>2 DEF UpsertAnswer
    <3>5. QED
      BY <1>2, <3>1, <3>2, <3>3, <3>4 DEF examVars
  <2>3. ASSUME NEW k \in InService, k.step = "finalize", CommitGrades(k)
        PROVE  ReferencesOK'
    <3>1. k.attempt \in Attempts /\ status[k.attempt] = "in_progress"
      BY <1>1, <2>3 DEF CallOK, CommitGrades, InProgress
    <3>2. QED
      BY <1>2, <2>3, <3>1 DEF CommitGrades, examVars, LedgerTypeOK
  <2>4. CASE UNCHANGED ledgerVars
    BY <1>2, <2>4 DEF examVars, ledgerVars
  <2>5. CASE DeleteExam
    BY <2>5 DEF DeleteExam, NoAnswers
  <2>6. QED
    BY <2>1, <2>2, <2>3, <2>4, <2>5 DEF LedgerStep
<1>3. CASE DeleteExam
  BY <1>3 DEF DeleteExam, NoAnswers
<1>4. ASSUME NEW q \in Questions, DeleteQuestion(q) PROVE ReferencesOK'
  BY <1>4 DEF DeleteQuestion, IsAnswered, ledgerVars, ExamTypeOK
<1>5. ASSUME NEW o \in Options, DeleteOption(o) PROVE ReferencesOK'
  BY <1>5 DEF DeleteOption, IsSelected, ledgerVars
<1>6. CASE UNCHANGED <<ledgerVars, rows, options>> /\
           (examStatus' = "gone" => examStatus = "gone")
  BY <1>6 DEF ledgerVars
<1>7. QED
  BY <1>2, <1>3, <1>4, <1>5, <1>6 DEF ExamStep

(* The quota and the bounds.                                               *)
CountersTypeOK ==
  /\ usage    \in [Users -> Nat]
  /\ verified \in [Users -> Nat]
  /\ edits    \in 0 .. MaxEdits
  /\ faults   \in 0 .. MaxFaults

(* The units reserved and verified, and the bounds, stay numbers.          *)
LEMMA CountersTyped ==
  ASSUME TypeInv, [Next]_vars
  PROVE  CountersTypeOK'
<1>1. CountersTypeOK
  BY DEF TypeInv, TypeOK, ServiceTypeOK, CountersTypeOK
<1>2. ASSUME NEW k \in InService, k.step # "idle"
      PROVE  k.user \in Users /\ Units(k) \in Nat
  <2>1. k \in Call /\ CallOK(k)
    BY InServiceTyped
  <2>2. k.user \in Users
    BY <1>2, <2>1 DEF CallOK
  <2>3. QED
    BY <2>1, <2>2, UnitsTyped
<1>3. CASE UNCHANGED <<usageVars, boundVars>>
  BY <1>1, <1>3 DEF CountersTypeOK, usageVars, boundVars
<1>4. ASSUME NEW k \in InService, k.step # "idle", ChargeUnits(k),
             UNCHANGED <<verified, boundVars>>
      PROVE  CountersTypeOK'
  BY <1>1, <1>2, <1>4 DEF ChargeUnits, CountersTypeOK, boundVars
<1>5. ASSUME NEW c \in Clients, Verify(c) PROVE CountersTypeOK'
  <2>1. call[c].user \in Users /\ Units(call[c]) \in Nat
    BY <1>2, <1>5 DEF Verify, At, InService
  <2>2. QED
    BY <1>1, <1>5, <2>1 DEF Verify, CountersTypeOK, boundVars
<1>6. ASSUME NEW c \in Clients, CallFails(c) \/ CallTimesOut(c)
      PROVE  CountersTypeOK'
  BY <1>1, <1>6, ConstantsAssumption
     DEF CallFails, CallTimesOut, Fault, CountersTypeOK, usageVars,
         ConstantsAssumption
<1>7. CASE Manage
  <2>1. Edit /\ UNCHANGED <<usageVars, faults>>
    BY <1>7
       DEF Manage, SetAccess, SetNotebookStatus, SetExamStatus, DeleteExam,
           EditQuestion, DeleteQuestion, UnlinkQuestion, EditOption,
           DeleteOption
  <2>2. QED
    BY <1>1, <2>1, ConstantsAssumption
       DEF Edit, CountersTypeOK, usageVars, ConstantsAssumption
<1>8. ASSUME NEW c \in Clients, Reads(c) \/ Arrive(c)
      PROVE  UNCHANGED <<usageVars, boundVars>>
  BY <1>8 DEF Reads, ReadAttempt, ReadExam, ReadAccess, ReadLinks,
              ReadQuestions, ReadOptions, ReadActive, ReadAnswers, CheckStart,
              ReadOnly, Arrive
<1>9. ASSUME NEW c \in Clients, Create(c) \/ Submit(c) \/ Finalize(c)
      PROVE  UNCHANGED <<usageVars, boundVars>>
  BY <1>9 DEF Create, Submit, Finalize
<1>10. ASSUME NEW c \in Clients, Reserve(c) PROVE CountersTypeOK'
  BY <1>3, <1>4, <1>10 DEF Reserve, At, InService, usageVars
<1>11. ASSUME NEW i \in 1 .. MaxFaults, OrphanCommits(i) \/ OrphanVanishes(i)
       PROVE  CountersTypeOK'
  BY <1>3, <1>4, <1>11
     DEF OrphanCommits, OrphanVanishes, InService, usageVars
<1>12. CASE UNCHANGED vars
  BY <1>3, <1>12 DEF vars
<1>13. QED
  BY <1>3, <1>5, <1>6, <1>7, <1>8, <1>9, <1>10, <1>11, <1>12
     DEF Next, Serve, Reads

(* What the API, the tables and the counters hold stays of its type in     *)
(* every interleaving, and every call a request makes finds what its       *)
(* earlier calls promised it (an attempt, a question, a graded snapshot).  *)
LEMMA TypeInvStep ==
  ASSUME TypeInv, [Next]_vars
  PROVE  TypeInv'
<1>1. LedgerTypeOK'
  BY StepShape, LedgerTyped
<1>2. ExamTypeOK' /\ ExamStep
  BY ExamTyped
<1>3. ReferencesOK'
  BY <1>2, StepShape, ReferencesKept
<1>4. CountersTypeOK'
  BY CountersTyped
<1>5. ServiceInv'
  <2>1. CASE UNCHANGED vars
    BY <2>1 DEF vars, TypeInv, TypeOK, ServiceTypeOK, ServiceInv, CallsOK
  <2>2. QED
    BY <2>1, ReadsTyped, WritesTyped, OthersTyped DEF Next, Serve, Reads
<1>6. QED
  BY <1>1, <1>2, <1>3, <1>4, <1>5
     DEF TypeInv, TypeOK, ServiceTypeOK, ServiceInv, CountersTypeOK

(* The initial state is typed.                                             *)
LEMMA TypeInvInit ==
  ASSUME Init
  PROVE  TypeInv
<1>1. LedgerTypeOK
  BY ConstantsAssumption
     DEF Init, LedgerTypeOK, Statuses, Verdicts, Answers, Grades, Scores,
         NoScore, NoAnswers, NoGrades, ConstantsAssumption
<1>2. ExamTypeOK
  BY ConstantsAssumption DEF Init, ExamTypeOK, ConstantsAssumption
<1>3. ServiceTypeOK /\ CallsOK
  BY IdleTyped, ConstantsAssumption
     DEF Init, ServiceTypeOK, CallsOK, ConstantsAssumption
<1>4. ReferencesOK
  BY ConstantsAssumption DEF Init, ReferencesOK, NoAnswers, ConstantsAssumption
<1>5. QED
  BY <1>1, <1>2, <1>3, <1>4 DEF TypeInv, TypeOK

(* The tables, the requests and the counters always hold values of their   *)
(* types, and no attempt, answer, link or option is left without what it   *)
(* belongs to, whatever is deleted and however late calls commit.          *)
THEOREM TypeCorrect == Spec => []TypeOK
<1>1. Init => TypeInv
  BY TypeInvInit
<1>2. TypeInv /\ [Next]_vars => TypeInv'
  BY TypeInvStep
<1>3. TypeInv => TypeOK
  BY DEF TypeInv
<1>4. QED
  BY <1>1, <1>2, <1>3, PTL DEF Spec
-----------------------------------------------------------------------------
(* The attempts.                                                           *)

(* Nothing is left of the attempts of a deleted exam, and an attempt that  *)
(* does not exist has no answers and no grades.                            *)
AbsentIsEmpty ==
  /\ examStatus = "gone" => \A a \in Attempts : status[a] = "absent"
  /\ \A a \in Attempts : status[a] = "absent" =>
       answer[a] = NoAnswers /\ score[a] = NoScore

LedgerInv ==
  /\ AbsentIsEmpty
  /\ OneActiveAttempt
  /\ AttemptNumbering
  /\ GradesMatchStatus

(* As many grades as stored answers, each of which applies, are the grades *)
(* of all the stored answers.                                              *)
LEMMA AllGraded ==
  ASSUME TypeInv, NEW k \in InService, CommitGrades(k)
  PROVE  GradedQuestions(k) = Answered(k.attempt)
<1>1. k \in Call
  BY InServiceTyped
<1>2. GradedQuestions(k) \subseteq Answered(k.attempt)
  BY <1>1 DEF CommitGrades, GradesApply, GradedQuestions, Answered, Call
<1>3. IsFiniteSet(Answered(k.attempt))
  <2>1. Answered(k.attempt) \subseteq Questions
    BY DEF Answered
  <2>2. QED
    BY <2>1, FS_Subset, ConstantsAssumption DEF ConstantsAssumption
<1>4. Cardinality(GradedQuestions(k)) = Cardinality(Answered(k.attempt))
  BY DEF CommitGrades, SameCount
<1>5. QED
  BY <1>2, <1>3, <1>4, FS_Subset

(* What finalize stores: the verdicts of the request, for the very answers *)
(* it graded.                                                              *)
LEMMA GradesStored ==
  ASSUME TypeInv, GradesMatchStatus,
         NEW k \in InService, k.step = "finalize", CommitGrades(k)
  PROVE  /\ k.attempt \in Attempts
         /\ NewVerdicts(k) = k.grades
         /\ \A q \in Questions :
              /\ k.grades[q] = "none" <=> answer[k.attempt][q] = None
              /\ answer[k.attempt][q] # None =>
                   q \in linked /\ k.answers[q] = answer[k.attempt][q]
<1>1. k \in Call /\ CallOK(k)
  BY InServiceTyped
<1>2. k.attempt \in Attempts
  BY <1>1 DEF CallOK
<1>3. \A q \in Questions : q \in GradedQuestions(k) <=> answer[k.attempt][q] # None
  BY AllGraded DEF Answered
<1>4. \A q \in Questions : k.grades[q] = "none" <=> q \notin GradedQuestions(k)
  BY <1>1 DEF CallOK
<1>5. verdict[k.attempt] = NoGrades
  BY <1>2 DEF GradesMatchStatus, CommitGrades, InProgress
<1>6. \A q \in Questions : NewVerdicts(k)[q] = k.grades[q]
  BY <1>4, <1>5 DEF NewVerdicts, NoGrades
<1>7. k.grades = [q \in Questions |-> k.grades[q]]
  BY <1>1 DEF Call, Grades
<1>8. NewVerdicts(k) = k.grades
  BY <1>6, <1>7 DEF NewVerdicts
<1>9. QED
  BY <1>2, <1>3, <1>4, <1>8 DEF CommitGrades, GradesApply

(* The grade columns of an attempt in progress are empty, so that the      *)
(* reset of a submit changes nothing.                                      *)
LEMMA ResetIsIdle ==
  ASSUME TypeInv, GradesMatchStatus,
         NEW k \in InService, k.step = "submit", UpsertAnswer(k)
  PROVE  /\ k.attempt \in Attempts /\ k.question \in Questions
         /\ k.value \in Values
         /\ UNCHANGED verdict
<1>1. k.attempt \in Attempts /\ k.question \in Questions /\ k.value \in Values
  BY InServiceTyped DEF CallOK
<1>2. verdict[k.attempt] = NoGrades
  BY <1>1 DEF GradesMatchStatus, UpsertAnswer, InProgress
<1>3. verdict \in [Attempts -> Grades]
  BY DEF TypeInv, TypeOK, LedgerTypeOK
<1>4. [NoGrades EXCEPT ![k.question] = "none"] = NoGrades
  BY <1>1 DEF NoGrades
<1>5. verdict' = verdict
  BY <1>1, <1>2, <1>3, <1>4 DEF UpsertAnswer
<1>6. QED
  BY <1>1, <1>5

(* No step breaks the agreement of grades, status and score: an insertion  *)
(* gives an attempt without answers, an upsert finds an attempt without    *)
(* grades, and a grading grades all the stored answers.                    *)
LEMMA GradesMatchStatusStep ==
  ASSUME TypeInv, LedgerInv, LedgerStep
  PROVE  GradesMatchStatus' /\ AbsentIsEmpty'
<1> USE DEF LedgerInv, TypeInv, TypeOK, LedgerTypeOK
<1>1. CASE UNCHANGED ledgerVars /\ (examStatus' = "gone" <=> examStatus = "gone")
  BY <1>1 DEF ledgerVars, GradesMatchStatus, AbsentIsEmpty
<1>2. ASSUME NEW u \in Users, NEW a \in Attempts, InsertAttempt(u, a),
             UNCHANGED examStatus
      PROVE  GradesMatchStatus' /\ AbsentIsEmpty'
  BY <1>2 DEF InsertAttempt, CanInsert, GradesMatchStatus, AbsentIsEmpty
<1>3. ASSUME NEW k \in InService, k.step = "submit", UpsertAnswer(k),
             UNCHANGED examStatus
      PROVE  GradesMatchStatus' /\ AbsentIsEmpty'
  BY <1>3, ResetIsIdle
     DEF UpsertAnswer, InProgress, GradesMatchStatus, AbsentIsEmpty
<1>4. ASSUME NEW k \in InService, k.step = "finalize", CommitGrades(k),
             UNCHANGED examStatus
      PROVE  GradesMatchStatus' /\ AbsentIsEmpty'
  <2>1. /\ k.attempt \in Attempts
        /\ \A q \in Questions :
             /\ k.grades[q] = "none" <=> answer[k.attempt][q] = None
             /\ answer[k.attempt][q] # None => q \in linked
    BY <1>4, GradesStored
  <2>2. /\ verdict' = [verdict EXCEPT ![k.attempt] = k.grades]
        /\ score' = [score EXCEPT ![k.attempt] =
             [earned |-> {q \in linked : k.grades[q] = "correct"},
              counted |-> linked]]
    <3>1. NewVerdicts(k) = k.grades
      BY <1>4, GradesStored
    <3>2. /\ verdict' = [verdict EXCEPT ![k.attempt] = NewVerdicts(k)]
          /\ score'   = [score EXCEPT ![k.attempt] = NewScore(k)]
      BY <1>4 DEF CommitGrades
    <3>3. NewScore(k) = [earned  |-> {q \in linked : k.grades[q] = "correct"},
                         counted |-> linked]
      BY <3>1 DEF NewScore
    <3>4. QED  BY <3>1, <3>2, <3>3
  <2>3. {q \in linked : k.grades[q] = "correct"}
          = {q \in Questions : k.grades[q] = "correct"}
    BY <2>1 DEF ExamTypeOK
  <2>4. status' = [status EXCEPT ![k.attempt] = "completed"] /\ UNCHANGED answer
    BY <1>4 DEF CommitGrades
  <2>5. GradesMatchStatus'
    <3> SUFFICES ASSUME NEW a \in Attempts
        PROVE  IF status'[a] = "completed"
               THEN /\ \A q \in Questions :
                         verdict'[a][q] = "none" <=> answer'[a][q] = None
                    /\ score'[a].earned =
                         {q \in Questions : verdict'[a][q] = "correct"}
                    /\ score'[a].earned \subseteq score'[a].counted
               ELSE verdict'[a] = NoGrades
      BY DEF GradesMatchStatus
    <3>1. CASE a = k.attempt
      <4>1. /\ status'[a] = "completed" /\ verdict'[a] = k.grades
            /\ answer'[a] = answer[k.attempt]
            /\ score'[a].earned = {q \in linked : k.grades[q] = "correct"}
            /\ score'[a].counted = linked
        BY <2>1, <2>2, <2>4, <3>1
      <4>2. QED
        BY <2>1, <2>3, <4>1
    <3>2. CASE a # k.attempt
      BY <2>2, <2>4, <3>2 DEF GradesMatchStatus
    <3>3. QED
      BY <3>1, <3>2
  <2>6. AbsentIsEmpty'
    BY <1>4, <2>1, <2>2, <2>4 DEF AbsentIsEmpty, CommitGrades, InProgress
  <2>7. QED
    BY <2>5, <2>6
<1>5. CASE DeleteExam
  BY <1>5 DEF DeleteExam, GradesMatchStatus, AbsentIsEmpty
<1>6. QED
  BY <1>1, <1>2, <1>3, <1>4, <1>5 DEF LedgerStep

(* The attempts of a user in the next state.                               *)
NextOwn(u) == {a \in Attempts : status'[a] # "absent" /\ owner'[a] = u}

(* An insertion adds the attempt to those of its user and to no other's.   *)
LEMMA OwnAfterInsert ==
  ASSUME TypeInv, NEW u \in Users, NEW a \in Attempts, InsertAttempt(u, a)
  PROVE  /\ NextOwn(u) = Own(u) \cup {a}
         /\ \A v \in Users : v # u => NextOwn(v) = Own(v)
<1>1. /\ status' = [status EXCEPT ![a] = "in_progress"]
      /\ owner' = [owner EXCEPT ![a] = u]
      /\ status[a] = "absent"
  BY DEF InsertAttempt
<1>2. status \in [Attempts -> Statuses] /\ owner \in [Attempts -> Users \cup {None}]
  BY DEF TypeInv, TypeOK, LedgerTypeOK
<1>3. QED
  BY <1>1, <1>2 DEF Own, NextOwn

(* Attempts that exist have an owner.                                      *)
OwnersKnown == \A a \in Attempts : status[a] # "absent" => owner[a] \in Users

(* No step gives a user a second attempt in progress: only an insertion    *)
(* starts one, and it finds none.                                          *)
LEMMA OneActiveAttemptStep ==
  ASSUME TypeInv, LedgerInv, LedgerStep
  PROVE  OneActiveAttempt'
<1> USE DEF LedgerInv, TypeInv, TypeOK, LedgerTypeOK
<1>1. CASE UNCHANGED ledgerVars
  BY <1>1 DEF ledgerVars, OneActiveAttempt
<1>2. ASSUME NEW u \in Users, NEW a \in Attempts, InsertAttempt(u, a)
      PROVE  OneActiveAttempt'
  <2>1. \A b \in Attempts : status[b] = "in_progress" => owner[b] # u
    BY <1>2 DEF InsertAttempt, CanInsert, Active, Own
  <2>2. QED
    BY <1>2, <2>1 DEF InsertAttempt, OneActiveAttempt
<1>3. ASSUME NEW k \in InService, k.step = "submit", UpsertAnswer(k)
      PROVE  OneActiveAttempt'
  BY <1>3 DEF UpsertAnswer, OneActiveAttempt
<1>4. ASSUME NEW k \in InService, k.step = "finalize", CommitGrades(k)
      PROVE  OneActiveAttempt'
  BY <1>4 DEF CommitGrades, OneActiveAttempt
<1>5. CASE DeleteExam
  BY <1>5 DEF DeleteExam, OneActiveAttempt
<1>6. QED
  BY <1>1, <1>2, <1>3, <1>4, <1>5 DEF LedgerStep

(* No step breaks the numbering: an insertion takes the number after the   *)
(* greatest.                                                               *)
LEMMA AttemptNumberingStep ==
  ASSUME TypeInv, LedgerInv, OwnersKnown, LedgerStep
  PROVE  AttemptNumbering' /\ OwnersKnown'
<1> USE DEF LedgerInv, TypeInv, TypeOK, LedgerTypeOK
<1>1. CASE UNCHANGED ledgerVars
  BY <1>1 DEF ledgerVars, AttemptNumbering, Own, OwnersKnown
<1>2. ASSUME NEW u \in Users, NEW a \in Attempts, InsertAttempt(u, a)
      PROVE  AttemptNumbering' /\ OwnersKnown'
  <2>1. PICK n \in 1 .. AttemptLimit :
          NextNumber(u, n) /\ number' = [number EXCEPT ![a] = n]
    BY <1>2 DEF InsertAttempt
  <2>2. /\ status' = [status EXCEPT ![a] = "in_progress"]
        /\ owner' = [owner EXCEPT ![a] = u]
        /\ status[a] = "absent"
    BY <1>2 DEF InsertAttempt
  <2>3. /\ NextOwn(u) = Own(u) \cup {a}
        /\ \A v \in Users : v # u => NextOwn(v) = Own(v)
    BY <1>2, OwnAfterInsert
  <2>4. \A v \in Users : a \notin Own(v)
    BY <2>2 DEF Own
  <2>5. /\ \A b \in Own(u) : number[b] < n
        /\ \A m \in 1 .. n : \E b \in Own(u) \cup {a} : number'[b] = m
    <3>1. \A b \in Own(u) : number[b] < n
      BY <2>1 DEF NextNumber
    <3>2. ASSUME NEW m \in 1 .. n, m # n
          PROVE  \E b \in Own(u) : number'[b] = m
      <4>1. PICK b \in Own(u) : number[b] = n - 1
        BY <2>1, <3>2, ConstantsAssumption DEF NextNumber, ConstantsAssumption
      <4>2. b \in Attempts /\ status[b] # "absent" /\ owner[b] = u
        BY DEF Own
      <4>3. PICK d \in Own(u) : number[d] = m
        BY <2>1, <3>2, <4>1, <4>2, ConstantsAssumption
           DEF AttemptNumbering, ConstantsAssumption
      <4>4. QED
        BY <2>1, <2>4, <4>3 DEF Own
    <3>3. number'[a] = n
      BY <2>1
    <3>4. QED
      BY <3>1, <3>2, <3>3
  <2>6. AttemptNumbering'
    <3> SUFFICES ASSUME NEW b \in Attempts, status'[b] # "absent"
        PROVE  /\ number'[b] \in 1 .. AttemptLimit
               /\ \A d \in NextOwn(owner'[b]) : number'[b] = number'[d] => b = d
               /\ \A m \in 1 .. number'[b] :
                    \E d \in NextOwn(owner'[b]) : number'[d] = m
      BY DEF AttemptNumbering, Own, NextOwn
    <3>1. CASE b = a
      <4>1. owner'[b] = u /\ number'[b] = n
        BY <2>1, <2>2, <3>1
      <4>2. \A d \in Own(u) : number'[d] # n
        BY <2>1, <2>4, <2>5 DEF Own
      <4>3. QED
        BY <2>1, <2>3, <2>5, <3>1, <4>1, <4>2
    <3>2. CASE b # a
      <4>1. /\ status[b] # "absent" /\ owner'[b] = owner[b]
            /\ number'[b] = number[b] /\ owner[b] \in Users /\ b \in Own(owner[b])
        BY <2>1, <2>2, <3>2 DEF OwnersKnown, Own
      <4>2. \A d \in Own(owner[b]) : d # a /\ number'[d] = number[d]
        BY <2>1, <2>4, <4>1 DEF Own
      <4>3. /\ number[b] \in 1 .. AttemptLimit
            /\ \A d \in Own(owner[b]) : number[b] = number[d] => b = d
            /\ \A m \in 1 .. number[b] : \E d \in Own(owner[b]) : number[d] = m
        BY <4>1 DEF AttemptNumbering
      <4>4. owner[b] = u => number'[a] # number[b]
        <5>1. SUFFICES ASSUME owner[b] = u PROVE number'[a] # number[b]
          OBVIOUS
        <5>2. number[b] < n /\ number'[a] = n
          BY <2>1, <2>5, <4>1, <5>1
        <5>3. QED
          BY <4>3, <5>2, ConstantsAssumption DEF ConstantsAssumption
      <4>5. /\ Own(owner[b]) \subseteq NextOwn(owner[b])
            /\ NextOwn(owner[b]) \subseteq Own(owner[b]) \cup {a}
            /\ owner[b] # u => NextOwn(owner[b]) = Own(owner[b])
        BY <2>3, <4>1
      <4>6. QED
        BY <4>1, <4>2, <4>3, <4>4, <4>5
    <3>3. QED
      BY <3>1, <3>2
  <2>7. OwnersKnown'
    BY <2>2 DEF OwnersKnown
  <2>8. QED
    BY <2>6, <2>7
<1>3. ASSUME NEW k \in InService, k.step = "submit", UpsertAnswer(k)
      PROVE  AttemptNumbering' /\ OwnersKnown'
  BY <1>3 DEF UpsertAnswer, AttemptNumbering, Own, OwnersKnown
<1>4. ASSUME NEW k \in InService, k.step = "finalize", CommitGrades(k)
      PROVE  AttemptNumbering' /\ OwnersKnown'
  <2>1. k.attempt \in Attempts /\ status[k.attempt] = "in_progress"
    BY <1>4, GradesStored DEF CommitGrades, InProgress
  <2>2. /\ status' = [status EXCEPT ![k.attempt] = "completed"]
        /\ UNCHANGED <<owner, number>>
    BY <1>4 DEF CommitGrades
  <2>3. \A a \in Attempts : status'[a] = "absent" <=> status[a] = "absent"
    BY <2>1, <2>2
  <2>4. \A u : Own(u)' = Own(u)
    BY <2>2, <2>3 DEF Own
  <2>5. QED
    BY <2>2, <2>3, <2>4 DEF AttemptNumbering, OwnersKnown
<1>5. CASE DeleteExam
  BY <1>5 DEF DeleteExam, AttemptNumbering, OwnersKnown
<1>6. QED
  BY <1>1, <1>2, <1>3, <1>4, <1>5 DEF LedgerStep

(* The empty ledger satisfies the invariants of the ledger.                *)
LEMMA LedgerInvInit ==
  ASSUME Init
  PROVE  LedgerInv /\ OwnersKnown
BY DEF Init, LedgerInv, AbsentIsEmpty, OneActiveAttempt, AttemptNumbering,
       GradesMatchStatus, OwnersKnown

LedgerIInv == TypeInv /\ LedgerInv /\ OwnersKnown

(* The conjunction of the types and the ledger's invariants is inductive.  *)
LEMMA LedgerIInvStep ==
  ASSUME LedgerIInv, [Next]_vars
  PROVE  LedgerIInv'
<1>1. LedgerStep
  BY StepShape DEF LedgerIInv
<1>2. QED
  BY <1>1, TypeInvStep, GradesMatchStatusStep, OneActiveAttemptStep,
     AttemptNumberingStep DEF LedgerIInv, LedgerInv

(* It holds in every reachable state.                                      *)
LEMMA LedgerIInvAlways == Spec => []LedgerIInv
<1>1. Init => LedgerIInv
  BY TypeInvInit, LedgerInvInit DEF LedgerIInv
<1>2. LedgerIInv /\ [Next]_vars => LedgerIInv'
  BY LedgerIInvStep
<1>3. QED
  BY <1>1, <1>2, PTL DEF Spec

(* However many starts race, time out and commit late, a user never has    *)
(* two attempts in progress on the exam.                                   *)
THEOREM AtMostOneActive == Spec => []OneActiveAttempt
<1>1. LedgerIInv => OneActiveAttempt
  BY DEF LedgerIInv, LedgerInv
<1>2. QED
  BY <1>1, LedgerIInvAlways, PTL

(* The attempts of a user are numbered without repetition and without gap, *)
(* within the limit.                                                       *)
THEOREM AttemptsAreNumbered == Spec => []AttemptNumbering
<1>1. LedgerIInv => AttemptNumbering
  BY DEF LedgerIInv, LedgerInv
<1>2. QED
  BY <1>1, LedgerIInvAlways, PTL

(* An attempt has grades exactly when it is completed, then one for each   *)
(* stored answer, and its score is what these grades say.                  *)
THEOREM GradesAreConsistent == Spec => []GradesMatchStatus
<1>1. LedgerIInv => GradesMatchStatus
  BY DEF LedgerIInv, LedgerInv
<1>2. QED
  BY <1>1, LedgerIInvAlways, PTL

(* A step changes no attempt that is completed, unless it deletes the exam.*)
LEMMA FrozenStep ==
  ASSUME TypeInv, LedgerStep, NEW a \in Attempts, status[a] = "completed",
         examStatus' # "gone"
  PROVE  UNCHANGED <<status[a], owner[a], number[a], score[a], answer[a],
                     verdict[a]>>
<1> USE DEF TypeInv, TypeOK, LedgerTypeOK
<1>1. CASE UNCHANGED ledgerVars
  BY <1>1 DEF ledgerVars
<1>2. ASSUME NEW u \in Users, NEW b \in Attempts, InsertAttempt(u, b)
      PROVE  UNCHANGED <<status[a], owner[a], number[a], score[a], answer[a],
                         verdict[a]>>
  BY <1>2 DEF InsertAttempt
<1>3. ASSUME NEW k \in InService, UpsertAnswer(k)
      PROVE  UNCHANGED <<status[a], owner[a], number[a], score[a], answer[a],
                         verdict[a]>>
  BY <1>3 DEF UpsertAnswer, InProgress
<1>4. ASSUME NEW k \in InService, CommitGrades(k)
      PROVE  UNCHANGED <<status[a], owner[a], number[a], score[a], answer[a],
                         verdict[a]>>
  BY <1>4 DEF CommitGrades, InProgress
<1>5. ~DeleteExam
  BY DEF DeleteExam
<1>6. QED
  BY <1>1, <1>2, <1>3, <1>4, <1>5 DEF LedgerStep

(* Once completed, an attempt keeps its row, its answers and its grades    *)
(* for as long as the exam exists.                                         *)
THEOREM CompletedStaysFrozen == Spec => CompletedIsFrozen
<1>1. LedgerIInv /\ [Next]_vars =>
        [\A a \in Attempts :
           status[a] = "completed" /\ examStatus' # "gone" =>
             UNCHANGED <<status[a], owner[a], number[a], score[a], answer[a],
                         verdict[a]>>]_vars
  BY StepShape, FrozenStep DEF LedgerIInv
<1>2. QED
  BY <1>1, LedgerIInvAlways, PTL DEF Spec, CompletedIsFrozen

(* Whatever a request read, it completes an attempt only with verdicts     *)
(* given for the answers that are stored when it does.                     *)
THEOREM GradingStaysCurrent == Spec => GradingIsCurrent
<1> DEFINE Current(a) ==
             \E k \in InService :
               /\ k.step = "finalize" /\ k.attempt = a /\ k.user = owner[a]
               /\ \A q \in Questions : answer[a][q] # None =>
                     k.answers[q] = answer[a][q] /\ verdict'[a][q] = k.grades[q]
<1>1. ASSUME LedgerIInv, [Next]_vars, NEW a \in Attempts,
             status[a] = "in_progress", status'[a] = "completed"
      PROVE  Current(a)
  <2> USE DEF LedgerIInv, LedgerInv, TypeInv, TypeOK, LedgerTypeOK
  <2>1. LedgerStep
    BY <1>1, StepShape
  <2>2. PICK k \in InService : k.step = "finalize" /\ CommitGrades(k)
    BY <1>1, <2>1
       DEF LedgerStep, ledgerVars, InsertAttempt, UpsertAnswer, DeleteExam
  <2>3. k.attempt = a /\ k.user = owner[a]
    BY <1>1, <2>2 DEF CommitGrades, InProgress
  <2>4. /\ verdict'[a] = k.grades
        /\ \A q \in Questions : answer[a][q] # None => k.answers[q] = answer[a][q]
    BY <1>1, <2>2, <2>3, GradesStored DEF CommitGrades
  <2>5. QED
    BY <2>2, <2>3, <2>4
<1>2. LedgerIInv /\ [Next]_vars =>
        [\A a \in Attempts :
           status[a] = "in_progress" /\ status'[a] = "completed" => Current(a)]_vars
  BY <1>1
<1>3. QED
  BY <1>2, LedgerIInvAlways, PTL DEF Spec, GradingIsCurrent
-----------------------------------------------------------------------------
(* The ledger is implemented.                                              *)

(* Every step of the workflow, faults and edits included, is one operation *)
(* of the abstract ledger or leaves it alone.                              *)
LEMMA LedgerSimulation ==
  ASSUME LedgerIInv, [Next]_vars
  PROVE  [Ledger!Next]_(Ledger!vars)
<1> USE DEF LedgerIInv, LedgerInv, TypeInv, TypeOK, LedgerTypeOK
<1>1. LedgerStep
  BY StepShape
<1>2. CASE UNCHANGED ledgerVars
  BY <1>2 DEF ledgerVars, Ledger!vars
<1>3. ASSUME NEW u \in Users, NEW a \in Attempts, InsertAttempt(u, a)
      PROVE  Ledger!Next
  <2>1. PICK n \in 1 .. AttemptLimit :
          NextNumber(u, n) /\ number' = [number EXCEPT ![a] = n]
    BY <1>3 DEF InsertAttempt
  <2>2. Own(u) = Ledger!Taken(u)
    BY DEF Own, Ledger!Taken
  <2>3. \A b \in Own(u) : status[b] = "completed" /\ number[b] # n
    BY <1>3, <2>1, ConstantsAssumption
       DEF InsertAttempt, CanInsert, Active, Own, NextNumber, Statuses,
           ConstantsAssumption
  <2>4. \A m \in 1 .. n - 1 : \E b \in Own(u) : number[b] = m
    <3> SUFFICES ASSUME NEW m \in 1 .. n - 1
        PROVE  \E b \in Own(u) : number[b] = m
      OBVIOUS
    <3>1. PICK b \in Own(u) : number[b] = n - 1
      BY <2>1, ConstantsAssumption DEF NextNumber, ConstantsAssumption
    <3>2. b \in Attempts /\ status[b] # "absent" /\ owner[b] = u
      BY DEF Own
    <3>3. QED
      BY <3>1, <3>2 DEF AttemptNumbering
  <2>5. Ledger!Start(u, a, n)
    BY <1>3, <2>1, <2>2, <2>3, <2>4 DEF InsertAttempt, Ledger!Start
  <2>6. QED
    BY <2>5 DEF Ledger!Next
<1>4. ASSUME NEW k \in InService, k.step = "submit", UpsertAnswer(k)
      PROVE  Ledger!Next
  <2>1. Ledger!Answer(k.attempt, k.question, k.value)
    BY <1>4, ResetIsIdle DEF UpsertAnswer, InProgress, Ledger!Answer
  <2>2. QED
    BY <1>4, <2>1, ResetIsIdle DEF Ledger!Next
<1>5. ASSUME NEW k \in InService, k.step = "finalize", CommitGrades(k)
      PROVE  Ledger!Next
  <2>1. /\ k.attempt \in Attempts
        /\ NewVerdicts(k) = k.grades
        /\ \A q \in Questions :
             /\ k.grades[q] = "none" <=> answer[k.attempt][q] = None
             /\ answer[k.attempt][q] # None => q \in linked
    BY <1>5, GradesStored
  <2>2. {q \in linked : k.grades[q] = "correct"}
          = {q \in Questions : k.grades[q] = "correct"}
    BY <2>1 DEF ExamTypeOK
  <2>3. {q \in Questions : k.grades[q] = "correct"} \subseteq linked
    BY <2>1
  <2>4. Ledger!Finish(k.attempt, k.grades, linked)
    BY <1>5, <2>1, <2>2, <2>3
       DEF CommitGrades, InProgress, NewScore, Ledger!Finish
  <2>5. k.grades \in [Questions -> {"none", "correct", "wrong"}]
    BY InServiceTyped DEF Call, Grades, Verdicts
  <2>6. linked \in SUBSET Questions
    BY DEF ExamTypeOK
  <2>7. QED
    BY <2>1, <2>4, <2>5, <2>6 DEF Ledger!Next
<1>6. CASE DeleteExam
  BY <1>6 DEF DeleteExam, NoScore, NoAnswers, NoGrades, Ledger!Erase, Ledger!Next
<1>7. QED
  BY <1>1, <1>2, <1>3, <1>4, <1>5, <1>6 DEF LedgerStep

(* The workflow implements the ledger: interleaved calls, edits, lost      *)
(* replies and late commits included, starting, answering and finishing    *)
(* take effect at one instant each.                                        *)
THEOREM LedgerImplemented == Spec => ImplementsLedger
<1>1. Init => Ledger!Init
  BY DEF Init, NoScore, NoAnswers, NoGrades, Ledger!Init
<1>2. LedgerIInv /\ [Next]_vars => [Ledger!Next]_(Ledger!vars)
  BY LedgerSimulation
<1>3. QED
  BY <1>1, <1>2, LedgerIInvAlways, PTL DEF Spec, ImplementsLedger, Ledger!Spec

-----------------------------------------------------------------------------
(* The responses to finish.                                                *)

(* The steps of a request that hold a snapshot of the answers.             *)
Holding == {"reserve", "verify", "finalize"}

(* Answers are replaced but never removed: a snapshot of the answers of an *)
(* attempt holds no question that has lost its answer since.               *)
SnapshotOf(k) ==
  k.step \in Holding /\ examStatus # "gone" =>
    \A q \in Questions : k.answers[q] # None => answer[k.attempt][q] # None

SnapshotsOK == \A k \in InService : SnapshotOf(k)

FinishedOK(r) == r.kind = "finish" /\ r.code = "ok"

FinishedKnown == \A c \in Clients : FinishedOK(resp[c]) => resp[c].attempt \in Attempts

(* An answer that is stored stays stored, perhaps with another value, for  *)
(* as long as the exam exists.                                             *)
LEMMA AnswersGrow ==
  ASSUME TypeInv, LedgerInv, LedgerStep, examStatus' # "gone"
  PROVE  \A a \in Attempts, q \in Questions :
           answer[a][q] # None => answer'[a][q] # None
<1> USE DEF LedgerInv, TypeInv, TypeOK, LedgerTypeOK, Answers
<1>1. CASE UNCHANGED answer
  BY <1>1
<1>2. ASSUME NEW k \in InService, k.step = "submit", UpsertAnswer(k)
      PROVE  \A a \in Attempts, q \in Questions :
               answer[a][q] # None => answer'[a][q] # None
  <2>1. k.attempt \in Attempts /\ k.question \in Questions /\ k.value \in Values
    BY <1>2, ResetIsIdle
  <2>2. k.value # None
    BY <2>1, ConstantsAssumption DEF Values, ConstantsAssumption
  <2>3. QED
    BY <1>2, <2>1, <2>2 DEF UpsertAnswer
<1>3. QED
  BY <1>1, <1>2
     DEF LedgerStep, ledgerVars, InsertAttempt, CommitGrades, DeleteExam

(* Where the snapshot of a request comes from.                             *)
LEMMA NextSnapshots ==
  ASSUME TypeInv, [Next]_vars, NEW m \in InService'
  PROVE  \/ m.step \notin Holding
         \/ m.answers = answer[m.attempt] /\ UNCHANGED answer
         \/ \E k \in InService : /\ k.step \in Holding
                                 /\ m.attempt = k.attempt /\ m.answers = k.answers
<1> DEFINE Fine(n) ==
             \/ n.step \notin Holding
             \/ n.answers = answer[n.attempt] /\ UNCHANGED answer
             \/ \E k \in InService : /\ k.step \in Holding
                                     /\ n.attempt = k.attempt
                                     /\ n.answers = k.answers
<1>1. ServiceInv
  BY DEF TypeInv, TypeOK, ServiceTypeOK, ServiceInv
<1>2. \A k \in InService : Fine(k)
  OBVIOUS
<1>3. Fine(IdleCall)
  BY DEF IdleCall, Holding
<1>4. ASSUME NEW c \in Clients, NEW n, Fine(n), call' = [call EXCEPT ![c] = n],
             UNCHANGED orphans
      PROVE  Fine(m)
  BY <1>1, <1>2, <1>4 DEF InService, ServiceInv
<1>5. ASSUME NEW c \in Clients, NEW r, Reply(c, r), UNCHANGED orphans
      PROVE  Fine(m)
  BY <1>3, <1>4, <1>5 DEF Reply
<1>6. ASSUME NEW c \in Clients, NEW k \in Call, NEW st \in Steps \ Holding,
             Proceed(c, [k EXCEPT !.step = st]), UNCHANGED orphans
      PROVE  Fine(m)
  <2>1. [k EXCEPT !.step = st].step = st
    BY DEF Call
  <2>2. QED
    BY <1>4, <1>6, <2>1 DEF Proceed
<1>7. {"access", "links", "questions", "options", "active", "answers", "submit",
       "create", "insert", "exam", "attempt"} \subseteq Steps \ Holding
  BY DEF Steps, Holding
<1>8. ASSUME NEW c \in Clients, NEW k \in Call, QuestionsListed(c, k),
             UNCHANGED orphans
      PROVE  Fine(m)
  BY <1>5, <1>6, <1>7, <1>8 DEF QuestionsListed, Refuse
<1>9. ASSUME NEW c \in Clients, Reads(c)
      PROVE  Fine(m)
  <2> DEFINE k == call[c]
  <2>1. k \in Call /\ CallOK(k) /\ k \in InService
    BY DEF InService, TypeInv, TypeOK, ServiceTypeOK, CallsOK
  <2>2. UNCHANGED <<orphans, answer>>
    BY <1>9
       DEF Reads, ReadAttempt, ReadExam, ReadAccess, ReadLinks, ReadQuestions,
           ReadOptions, ReadActive, ReadAnswers, CheckStart, ReadOnly, ledgerVars
  <2>3. CASE ReadAttempt(c)
    <3> DEFINE n == [k EXCEPT !.step = "exam", !.status = status[k.attempt]]
    <3>1. n.step = "exam"
      BY <2>1 DEF Call
    <3>2. Fine(n)
      BY <3>1 DEF Holding
    <3>3. QED
      BY <1>4, <1>5, <2>2, <2>3, <3>2 DEF ReadAttempt, Proceed, Refuse
  <2>4. CASE ReadExam(c) \/ ReadAccess(c) \/ CheckStart(c)
    BY <1>5, <1>6, <1>7, <2>1, <2>2, <2>4
       DEF ReadExam, ReadAccess, CheckStart, Refuse
  <2>5. CASE ReadLinks(c)
    <3> DEFINE n == [k EXCEPT !.step = "questions", !.questions = linked]
    <3>1. n.step = "questions"
      BY <2>1 DEF Call
    <3>2. Fine(n)
      BY <3>1 DEF Holding
    <3>3. QED
      BY <1>4, <1>8, <2>1, <2>2, <2>5, <3>2 DEF ReadLinks, Proceed
  <2>6. CASE ReadQuestions(c)
    <3> DEFINE n == [k EXCEPT !.step = "options", !.questions = @ \cap rows,
                              !.expected = expected]
    <3>1. n.step = "options"
      BY <2>1 DEF Call
    <3>2. Fine(n)
      BY <3>1 DEF Holding
    <3>3. QED
      BY <1>4, <2>2, <2>6, <3>2 DEF ReadQuestions, Proceed
  <2>7. CASE ReadOptions(c)
    <3>1. options \subseteq Options /\ correct \subseteq Options
      BY DEF TypeInv, TypeOK, ExamTypeOK
    <3>2. [k EXCEPT !.options = options, !.correct = correct] \in Call
      BY <2>1, <3>1 DEF Call
    <3>3. QED
      BY <1>8, <2>2, <2>7, <3>2 DEF ReadOptions
  <2>8. CASE ReadActive(c)
    <3>1. ASSUME NEW a \in Active(k.user),
                 Proceed(c, [k EXCEPT !.step = "answers", !.attempt = a])
          PROVE  Fine(m)
      <4> DEFINE n == [k EXCEPT !.step = "answers", !.attempt = a]
      <4>1. n.step = "answers"
        BY <2>1 DEF Call
      <4>2. Fine(n)
        BY <4>1 DEF Holding
      <4>3. QED
        BY <1>4, <2>2, <3>1, <4>2 DEF Proceed
    <3>2. QED
      BY <1>6, <1>7, <2>1, <2>2, <2>8, <3>1 DEF ReadActive
  <2>9. CASE ReadAnswers(c)
    <3> DEFINE n == [k EXCEPT !.answers = answer[k.attempt]]
    <3>1. ASSUME NEW st \in {"reserve", "verify"},
                 Proceed(c, [n EXCEPT !.step = st])
          PROVE  Fine(m)
      <4> DEFINE o == [n EXCEPT !.step = st]
      <4>1. o.answers = answer[o.attempt]
        BY <2>1 DEF Call
      <4>2. Fine(o)
        BY <2>2, <4>1
      <4>3. QED
        BY <1>4, <2>2, <3>1, <4>2 DEF Proceed
    <3>2. QED
      BY <1>5, <2>2, <2>9, <3>1 DEF ReadAnswers
  <2>10. QED
    BY <1>9, <2>3, <2>4, <2>5, <2>6, <2>7, <2>8, <2>9 DEF Reads
<1>10. ASSUME NEW c \in Clients, Create(c) \/ Submit(c) \/ Finalize(c)
       PROVE  Fine(m)
  BY <1>5, <1>10 DEF Create, Submit, Finalize, Refuse
<1>11. ASSUME NEW c \in Clients, Reserve(c) \/ Verify(c)
       PROVE  Fine(m)
  <2> DEFINE k == call[c]
  <2>1. k \in Call /\ k \in InService
    BY DEF InService, TypeInv, TypeOK, ServiceTypeOK
  <2>2. UNCHANGED orphans
    BY <1>11 DEF Reserve, Verify
  <2>3. k.step \in Holding
    BY <1>11 DEF Reserve, Verify, At, Holding
  <2>4. ASSUME NEW n, n.attempt = k.attempt, n.answers = k.answers, Proceed(c, n)
        PROVE  Fine(m)
    <3>1. Fine(n)
      BY <2>1, <2>3, <2>4
    <3>2. QED
      BY <1>4, <2>2, <2>4, <3>1 DEF Proceed
  <2>5. CASE Reserve(c)
    <3> DEFINE n == [k EXCEPT !.step = "verify"]
    <3>1. n.attempt = k.attempt /\ n.answers = k.answers
      BY <2>1 DEF Call
    <3>2. QED
      BY <1>5, <2>2, <2>4, <2>5, <3>1 DEF Reserve, Refuse
  <2>6. CASE Verify(c)
    <3>1. PICK judged :
            Proceed(c, [k EXCEPT !.step = "finalize", !.grades = Graded(k, judged)])
      BY <2>6 DEF Verify
    <3> DEFINE n == [k EXCEPT !.step = "finalize", !.grades = Graded(k, judged)]
    <3>2. n.attempt = k.attempt /\ n.answers = k.answers
      BY <2>1 DEF Call
    <3>3. QED
      BY <2>4, <3>1, <3>2
  <2>7. QED
    BY <1>11, <2>5, <2>6
<1>12. ASSUME NEW c \in Clients, Arrive(c)
       PROVE  Fine(m)
  <2>1. UNCHANGED orphans
    BY <1>12 DEF Arrive, ReadOnly
  <2>2. PICK u \in Users :
          \/ call' = [call EXCEPT ![c] = [IdleCall EXCEPT
                        !.user = u, !.kind = "start", !.step = "exam"]]
          \/ \E a \in Attempts, kind \in {"session", "finish"} :
               call' = [call EXCEPT ![c] = [IdleCall EXCEPT
                          !.user = u, !.kind = kind, !.step = "attempt",
                          !.attempt = a]]
          \/ \E a \in Attempts, q \in Questions, v \in Values :
               call' = [call EXCEPT ![c] = [IdleCall EXCEPT
                          !.user = u, !.kind = "submit", !.step = "attempt",
                          !.attempt = a, !.question = q, !.value = v]]
    BY <1>12 DEF Arrive
  <2>3. [IdleCall EXCEPT !.user = u, !.kind = "start",
                         !.step = "exam"].step = "exam"
    BY DEF IdleCall
  <2>4. ASSUME NEW a, NEW kind
        PROVE  [IdleCall EXCEPT !.user = u, !.kind = kind, !.step = "attempt",
                                !.attempt = a].step = "attempt"
    BY DEF IdleCall
  <2>5. ASSUME NEW a, NEW q, NEW v
        PROVE  [IdleCall EXCEPT !.user = u, !.kind = "submit",
                  !.step = "attempt", !.attempt = a, !.question = q,
                  !.value = v].step = "attempt"
    BY DEF IdleCall
  <2>6. CASE call' = [call EXCEPT ![c] = [IdleCall EXCEPT
                        !.user = u, !.kind = "start", !.step = "exam"]]
    <3> DEFINE n == [IdleCall EXCEPT !.user = u, !.kind = "start", !.step = "exam"]
    <3>1. Fine(n)
      BY <2>3 DEF Holding
    <3>2. QED
      BY <1>4, <2>1, <2>6, <3>1
  <2>7. ASSUME NEW a \in Attempts, NEW kind \in {"session", "finish"},
               call' = [call EXCEPT ![c] = [IdleCall EXCEPT
                          !.user = u, !.kind = kind, !.step = "attempt",
                          !.attempt = a]]
        PROVE  Fine(m)
    <3> DEFINE n == [IdleCall EXCEPT !.user = u, !.kind = kind,
                                     !.step = "attempt", !.attempt = a]
    <3>1. Fine(n)
      BY <2>4 DEF Holding
    <3>2. QED
      BY <1>4, <2>1, <2>7, <3>1
  <2>8. ASSUME NEW a \in Attempts, NEW q \in Questions, NEW v \in Values,
               call' = [call EXCEPT ![c] = [IdleCall EXCEPT
                          !.user = u, !.kind = "submit", !.step = "attempt",
                          !.attempt = a, !.question = q, !.value = v]]
        PROVE  Fine(m)
    <3> DEFINE n == [IdleCall EXCEPT !.user = u, !.kind = "submit",
                       !.step = "attempt", !.attempt = a, !.question = q,
                       !.value = v]
    <3>1. Fine(n)
      BY <2>5 DEF Holding
    <3>2. QED
      BY <1>4, <2>1, <2>8, <3>1
  <2>9. QED
    BY <2>2, <2>6, <2>7, <2>8
<1>13. ASSUME NEW c \in Clients, CallFails(c) \/ CallTimesOut(c)
       PROVE  Fine(m)
  <2>1. /\ call' = [call EXCEPT ![c] = IdleCall]
        /\ orphans' = orphans \/ orphans' = [orphans EXCEPT ![faults'] = call[c]]
    BY <1>13 DEF CallFails, CallTimesOut, Refuse, Reply
  <2>2. ASSUME NEW d \in Clients PROVE call'[d] \in InService \cup {IdleCall}
    BY <1>1, <2>1 DEF InService, ServiceInv
  <2>3. ASSUME NEW i \in 1 .. MaxFaults PROVE orphans'[i] \in InService
    BY <1>1, <2>1 DEF InService, ServiceInv
  <2>4. m \in InService \cup {IdleCall}
    BY <2>2, <2>3 DEF InService
  <2>5. QED
    BY <1>2, <1>3, <2>4
<1>14. ASSUME NEW i \in 1 .. MaxFaults, OrphanCommits(i) \/ OrphanVanishes(i)
       PROVE  Fine(m)
  <2>1. call' = call /\ orphans' = [orphans EXCEPT ![i] = IdleCall]
    BY <1>14 DEF OrphanCommits, OrphanVanishes
  <2>2. QED
    BY <1>1, <1>2, <1>3, <2>1 DEF InService, ServiceInv
<1>15. CASE UNCHANGED <<call, orphans>>
  BY <1>2, <1>15 DEF InService
<1>16. QED
  BY <1>9, <1>10, <1>11, <1>12, <1>13, <1>14, <1>15
     DEF Next, Serve, Reads, Manage, vars

(* A request that holds a snapshot never holds a question whose answer is  *)
(* gone.                                                                   *)
LEMMA SnapshotsStep ==
  ASSUME LedgerIInv, SnapshotsOK, [Next]_vars
  PROVE  SnapshotsOK'
<1> USE DEF LedgerIInv
<1> SUFFICES ASSUME NEW m \in InService', m.step \in Holding,
                    examStatus' # "gone", NEW q \in Questions,
                    m.answers[q] # None
    PROVE  answer'[m.attempt][q] # None
  BY DEF SnapshotsOK, SnapshotOf
<1>1. LedgerStep /\ examStatus # "gone"
  BY StepShape DEF LedgerStep, DeleteExam
<1>2. \A a \in Attempts : answer[a][q] # None => answer'[a][q] # None
  BY <1>1, AnswersGrow
<1>3. CASE m.answers = answer[m.attempt] /\ UNCHANGED answer
  BY <1>3
<1>4. ASSUME NEW k \in InService, k.step \in Holding,
             m.attempt = k.attempt, m.answers = k.answers
      PROVE  answer'[m.attempt][q] # None
  <2>1. k.attempt \in Attempts
    BY <1>4, InServiceTyped DEF CallOK, Holding
  <2>2. answer[k.attempt][q] # None
    BY <1>1, <1>4 DEF SnapshotsOK, SnapshotOf
  <2>3. QED
    BY <1>2, <1>4, <2>1, <2>2
<1>5. QED
  BY <1>3, <1>4, NextSnapshots

(* The response to a successful finish.                                    *)
FinishReply(k) == [Session(k, k.attempt, k.answers) EXCEPT !.grades = k.grades]

(* A step answers one request at most, and the only 200 of a finish is the *)
(* one of Finalize.                                                        *)
LEMMA NextResponses ==
  ASSUME TypeInv, [Next]_vars
  PROVE  \/ \A c \in Clients : resp'[c] = resp[c] \/ ~FinishedOK(resp'[c])
         \/ \E c \in Clients :
              /\ At(c, "finalize")
              /\ CommitGrades(call[c])
              /\ UNCHANGED examStatus
              /\ resp' = [resp EXCEPT ![c] = FinishReply(call[c])]
<1> DEFINE Quiet == \A c \in Clients : resp'[c] = resp[c] \/ ~FinishedOK(resp'[c])
<1>1. ServiceInv
  BY DEF TypeInv, TypeOK, ServiceTypeOK, ServiceInv
<1>2. ASSUME NEW c \in Clients, NEW r, resp' = [resp EXCEPT ![c] = r],
             ~FinishedOK(r)
      PROVE  Quiet
  BY <1>1, <1>2 DEF ServiceInv
<1>3. ASSUME NEW c \in Clients, NEW code \in Codes, Refuse(c, code)
      PROVE  Quiet
  <2>1. [NoResponse EXCEPT !.code = code].kind = "start"
    BY DEF NoResponse
  <2>2. ~FinishedOK([NoResponse EXCEPT !.code = code])
    BY <2>1 DEF FinishedOK
  <2>3. QED
    BY <1>2, <1>3, <2>2 DEF Refuse, Reply
<1>4. {"bad_request", "not_found", "forbidden", "conflict", "error", "too_many"}
        \subseteq Codes
  BY DEF Codes
<1>5. ASSUME NEW c \in Clients, NEW k, Proceed(c, k)
      PROVE  Quiet
  BY <1>5 DEF Proceed
<1>6. ASSUME NEW c \in Clients, NEW k, k.kind # "finish", NEW a, NEW answers,
             Reply(c, Session(k, a, answers))
      PROVE  Quiet
  BY <1>2, <1>6 DEF Reply, Session, FinishedOK
<1>7. ASSUME NEW c \in Clients, NEW k, QuestionsListed(c, k)
      PROVE  Quiet
  BY <1>3, <1>4, <1>5, <1>7 DEF QuestionsListed
<1>8. ASSUME NEW c \in Clients, Reads(c)
      PROVE  Quiet
  <2>1. CASE ReadAttempt(c)
    BY <1>3, <1>4, <1>5, <2>1 DEF ReadAttempt
  <2>2. CASE ReadExam(c)
    BY <1>3, <1>4, <1>5, <2>2 DEF ReadExam
  <2>3. CASE ReadAccess(c)
    BY <1>3, <1>4, <1>5, <2>3 DEF ReadAccess
  <2>4. CASE ReadLinks(c) \/ ReadQuestions(c) \/ ReadOptions(c)
    BY <1>5, <1>7, <2>4 DEF ReadLinks, ReadQuestions, ReadOptions
  <2>5. CASE ReadActive(c) \/ CheckStart(c)
    BY <1>3, <1>4, <1>5, <2>5 DEF ReadActive, CheckStart
  <2>6. CASE ReadAnswers(c)
    <3> DEFINE n == [call[c] EXCEPT !.answers = answer[call[c].attempt]]
    <3>1. CASE n.kind \in {"start", "session"}
                 /\ Reply(c, Session(n, n.attempt, n.answers))
      BY <1>6, <3>1
    <3>2. QED
      BY <1>5, <2>6, <3>1 DEF ReadAnswers
  <2>7. QED
    BY <1>8, <2>1, <2>2, <2>3, <2>4, <2>5, <2>6 DEF Reads
<1>9. ASSUME NEW c \in Clients,
             Create(c) \/ Submit(c) \/ Reserve(c) \/ Verify(c)
      PROVE  Quiet
  <2> DEFINE k == call[c]
  <2>1. k \in Call /\ CallOK(k)
    BY DEF TypeInv, TypeOK, ServiceTypeOK, CallsOK
  <2>2. CASE Create(c)
    <3>1. k.kind = "start"
      BY <2>1, <2>2 DEF Create, At, CallOK
    <3>2. ASSUME NEW a, Reply(c, Session(k, a, NoAnswers))
          PROVE  Quiet
      BY <1>6, <3>1, <3>2
    <3>3. QED
      BY <1>3, <1>4, <2>2, <3>2 DEF Create
  <2>3. CASE Submit(c)
    <3> DEFINE r == [Session(k, k.attempt, NoAnswers) EXCEPT
                       !.answers[k.question] = k.value]
    <3>1. k.kind = "submit"
      BY <2>1, <2>3 DEF Submit, At, CallOK
    <3>2. r.kind = k.kind
      BY <2>1 DEF Session, Call
    <3>3. ~FinishedOK(r)
      BY <3>1, <3>2 DEF FinishedOK
    <3>4. CASE Reply(c, r)
      BY <1>2, <3>3, <3>4 DEF Reply
    <3>5. QED
      BY <1>3, <1>4, <2>3, <3>4 DEF Submit
  <2>4. CASE Reserve(c) \/ Verify(c)
    BY <1>3, <1>4, <1>5, <2>4 DEF Reserve, Verify
  <2>5. QED
    BY <1>9, <2>2, <2>3, <2>4
<1>10. ASSUME NEW c \in Clients, CallFails(c) \/ CallTimesOut(c)
       PROVE  Quiet
  BY <1>3, <1>4, <1>10 DEF CallFails, CallTimesOut
<1>11. ASSUME NEW c \in Clients, Arrive(c)
       PROVE  Quiet
  <2>1. ~FinishedOK(NoResponse)
    BY DEF NoResponse, FinishedOK
  <2>2. QED
    BY <1>2, <1>11, <2>1 DEF Arrive
<1>12. ASSUME NEW c \in Clients, Finalize(c)
       PROVE  \/ Quiet
              \/ /\ At(c, "finalize")
                 /\ CommitGrades(call[c])
                 /\ UNCHANGED examStatus
                 /\ resp' = [resp EXCEPT ![c] = FinishReply(call[c])]
  BY <1>3, <1>4, <1>12 DEF Finalize, Reply, FinishReply, examVars
<1>13. CASE UNCHANGED resp
  BY <1>13
<1>14. QED
  BY <1>8, <1>9, <1>10, <1>11, <1>12, <1>13
     DEF Next, Serve, Reads, OrphanCommits, OrphanVanishes, Manage, vars

(* The 200 of a finish: its attempt exists and holds what was returned.    *)
ResponseInv ==
  /\ SnapshotsOK
  /\ FinishedKnown
  /\ FinishedResponseIsFinal
  /\ OneFinishWins

(* No step makes a successful finish response false: the attempt was in    *)
(* progress when it was graded, and a completed one is frozen.             *)
LEMMA ResponseInvStep ==
  ASSUME LedgerIInv, ResponseInv, [Next]_vars
  PROVE  ResponseInv'
<1> USE DEF LedgerIInv
<1>1. SnapshotsOK'
  BY SnapshotsStep DEF ResponseInv
<1>2. LedgerStep
  BY StepShape
(* What was returned before this step stays true.                          *)
<1>3. ASSUME NEW c \in Clients, FinishedOK(resp[c]), examStatus' # "gone"
      PROVE  /\ resp[c].attempt \in Attempts
             /\ status[resp[c].attempt] = "completed"
             /\ status'[resp[c].attempt] = "completed"
             /\ answer'[resp[c].attempt] = resp[c].answers
             /\ verdict'[resp[c].attempt] = resp[c].grades
  <2>1. examStatus # "gone"
    BY <1>2, <1>3 DEF LedgerStep, DeleteExam
  <2>2. /\ resp[c].attempt \in Attempts
        /\ status[resp[c].attempt] = "completed"
        /\ answer[resp[c].attempt] = resp[c].answers
        /\ verdict[resp[c].attempt] = resp[c].grades
    BY <1>3, <2>1 DEF ResponseInv, FinishedKnown, FinishedResponseIsFinal, FinishedOK
  <2>3. QED
    BY <1>2, <1>3, <2>2, FrozenStep
<1>4. CASE \A c \in Clients : resp'[c] = resp[c] \/ ~FinishedOK(resp'[c])
  <2>1. FinishedKnown'
    BY <1>4 DEF ResponseInv, FinishedKnown, FinishedOK
  <2>2. FinishedResponseIsFinal'
    BY <1>3, <1>4 DEF FinishedResponseIsFinal, FinishedOK
  <2>3. OneFinishWins'
    BY <1>4 DEF ResponseInv, OneFinishWins, FinishedOK
  <2>4. QED
    BY <1>1, <2>1, <2>2, <2>3 DEF ResponseInv
<1>5. ASSUME NEW c \in Clients, At(c, "finalize"), CommitGrades(call[c]),
             UNCHANGED examStatus,
             resp' = [resp EXCEPT ![c] = FinishReply(call[c])]
      PROVE  ResponseInv'
  <2> DEFINE k == call[c]
             r == FinishReply(k)
  <2>1. k \in InService /\ k.step = "finalize" /\ k \in Call /\ CallOK(k)
    BY <1>5, InServiceTyped DEF InService, At
  <2>2. /\ k.attempt \in Attempts
        /\ NewVerdicts(k) = k.grades
        /\ \A q \in Questions : answer[k.attempt][q] # None =>
             k.answers[q] = answer[k.attempt][q]
    BY <1>5, <2>1, GradesStored DEF LedgerInv
  <2>3. examStatus # "gone"
    BY <1>5, <2>2
       DEF LedgerInv, AbsentIsEmpty, CommitGrades, InProgress
  <2>4. answer[k.attempt] = k.answers
    <3>1. \A q \in Questions : k.answers[q] # None => answer[k.attempt][q] # None
      BY <2>1, <2>3 DEF ResponseInv, SnapshotsOK, SnapshotOf, Holding
    <3>2. answer[k.attempt] \in Answers /\ k.answers \in Answers
      BY <2>1, <2>2 DEF TypeInv, TypeOK, LedgerTypeOK, Call
    <3>3. QED
      BY <2>2, <3>1, <3>2 DEF Answers
  <2>5. /\ r.attempt = k.attempt /\ r.answers = k.answers /\ r.grades = k.grades
        /\ r.kind = k.kind /\ r.code = "ok"
    BY DEF FinishReply, Session
  <2>6. /\ status'[k.attempt] = "completed"
        /\ answer'[k.attempt] = k.answers
        /\ verdict'[k.attempt] = k.grades
        /\ status[k.attempt] = "in_progress"
    BY <1>5, <2>2, <2>4
       DEF CommitGrades, InProgress, TypeInv, TypeOK, LedgerTypeOK
  <2>7. resp'[c] = r /\ \A d \in Clients : d # c => resp'[d] = resp[d]
    BY <1>5 DEF TypeInv, TypeOK, ServiceTypeOK
  <2>8. FinishedKnown'
    BY <2>2, <2>5, <2>7 DEF ResponseInv, FinishedKnown, FinishedOK
  <2>9. FinishedResponseIsFinal'
    BY <1>3, <2>5, <2>6, <2>7 DEF FinishedResponseIsFinal, FinishedOK
  <2>10. ASSUME NEW d \in Clients, d # c, FinishedOK(resp'[d])
         PROVE  resp'[d].attempt # k.attempt
    BY <1>3, <1>5, <2>3, <2>6, <2>7, <2>10
  <2>11. OneFinishWins'
    BY <2>5, <2>7, <2>10 DEF ResponseInv, OneFinishWins, FinishedOK
  <2>12. QED
    BY <1>1, <2>8, <2>9, <2>11 DEF ResponseInv
<1>6. QED
  BY <1>4, <1>5, NextResponses

(* No client has been told anything in the initial state.                  *)
LEMMA ResponseInvInit ==
  ASSUME Init
  PROVE  ResponseInv
<1>1. ~FinishedOK(NoResponse)
  BY DEF NoResponse, FinishedOK
<1>2. \A k \in InService : k = IdleCall
  BY DEF Init, InService
<1>3. SnapshotsOK
  BY <1>2 DEF SnapshotsOK, SnapshotOf, IdleCall, Holding
<1>4. QED
  BY <1>1, <1>3
     DEF Init, ResponseInv, FinishedKnown, FinishedResponseIsFinal,
         OneFinishWins, FinishedOK

(* The invariant of the responses holds in every reachable state.          *)
LEMMA ResponseInvAlways == Spec => []ResponseInv
<1>1. LedgerIInv /\ ResponseInv /\ [Next]_vars => ResponseInv'
  BY ResponseInvStep
<1>2. QED
  BY <1>1, ResponseInvInit, LedgerIInvAlways, PTL DEF Spec

(* A client that was told its attempt is finished was told the truth, and  *)
(* no late, repeated or abandoned call makes it false.                     *)
THEOREM FinishedResponsesAreFinal == Spec => []FinishedResponseIsFinal
<1>1. ResponseInv => FinishedResponseIsFinal
  BY DEF ResponseInv
<1>2. QED
  BY <1>1, ResponseInvAlways, PTL

(* Two clients are never both told that they finished one attempt.         *)
THEOREM FinishSucceedsOnce == Spec => []OneFinishWins
<1>1. ResponseInv => OneFinishWins
  BY DEF ResponseInv
<1>2. QED
  BY <1>1, ResponseInvAlways, PTL

-----------------------------------------------------------------------------
(* The quota.  Answers that are reserved and not yet sent to the verifier  *)
(* are pairs of a client and a question, so that their number is the       *)
(* cardinality of a set to which a request adds its own answers.           *)

AnswersOf(c) == {<<c, q>> : q \in OpenAnswered(call[c])}

Waiting(u) ==
  {x \in Clients \X Questions :
     /\ call[x[1]].step = "verify" /\ call[x[1]].user = u
     /\ x[2] \in OpenAnswered(call[x[1]])}

QuotaInv ==
  \A u \in Users :
    /\ IsFiniteSet(Waiting(u))
    /\ verified[u] + Cardinality(Waiting(u)) <= usage[u]
    /\ usage[u] <= QuotaLimit

(* The answers of a request are as many as the units that it reserves.     *)
LEMMA AnswersCounted ==
  ASSUME NEW c \in Clients, call[c] \in Call
  PROVE  /\ IsFiniteSet(AnswersOf(c))
         /\ Cardinality(AnswersOf(c)) = Units(call[c])
<1> DEFINE S == OpenAnswered(call[c])
           f == [q \in S |-> <<c, q>>]
<1>1. IsFiniteSet(S)
  <2>1. S \subseteq Questions
    BY DEF Call, OpenAnswered
  <2>2. QED
    BY <2>1, FS_Subset, ConstantsAssumption DEF ConstantsAssumption
<1>2. f \in Bijection(S, AnswersOf(c))
  <2>1. f \in [S -> AnswersOf(c)]
    BY DEF AnswersOf
  <2>2. \A q, r \in S : f[q] = f[r] => q = r
    OBVIOUS
  <2>3. \A x \in AnswersOf(c) : \E q \in S : f[q] = x
    BY DEF AnswersOf
  <2>4. QED
    BY <2>1, <2>2, <2>3 DEF Bijection, Injection, Surjection, IsInjective
<1>3. ExistsBijection(S, AnswersOf(c))
  BY <1>2 DEF ExistsBijection
<1>4. QED
  BY <1>1, <1>3, FS_Bijection DEF Units

(* No request but one whose reservation was granted gets to the verifier   *)
(* with open answers.                                                      *)
LEMMA OnlyReservedWait ==
  ASSUME TypeInv, QuotaEnabled, [Next]_vars,
         \A c \in Clients : ~(Reserve(c) /\ ChargeUnits(call[c])),
         NEW d \in Clients, call'[d].step = "verify"
  PROVE  call'[d] = call[d] \/ OpenAnswered(call'[d]) = {}
<1> DEFINE Fine(n) == n.step = "verify" => OpenAnswered(n) = {}
           Goal == call'[d] = call[d] \/ OpenAnswered(call'[d]) = {}
<1>1. ServiceInv
  BY DEF TypeInv, TypeOK, ServiceTypeOK, ServiceInv
<1>2. Fine(IdleCall)
  BY DEF IdleCall
<1>3. ASSUME NEW c \in Clients, NEW n, Fine(n), call' = [call EXCEPT ![c] = n]
      PROVE  Goal
  BY <1>1, <1>3 DEF ServiceInv
<1>4. ASSUME NEW c \in Clients, NEW r, Reply(c, r) PROVE Goal
  BY <1>2, <1>3, <1>4 DEF Reply
<1>5. ASSUME NEW c \in Clients, NEW k \in Call, NEW st \in Steps \ {"verify"},
             Proceed(c, [k EXCEPT !.step = st])
      PROVE  Goal
  <2>1. [k EXCEPT !.step = st].step = st
    BY DEF Call
  <2>2. QED
    BY <1>3, <1>5, <2>1 DEF Proceed
<1>6. {"access", "links", "questions", "options", "active", "answers", "submit",
       "create", "insert", "exam", "attempt", "reserve", "finalize"}
         \subseteq Steps \ {"verify"}
  BY DEF Steps
<1>7. ASSUME NEW c \in Clients, NEW k \in Call, QuestionsListed(c, k)
      PROVE  Goal
  BY <1>4, <1>5, <1>6, <1>7 DEF QuestionsListed, Refuse
<1>8. ASSUME NEW c \in Clients, Reads(c) PROVE Goal
  <2> DEFINE k == call[c]
  <2>1. k \in Call /\ CallOK(k)
    BY DEF TypeInv, TypeOK, ServiceTypeOK, CallsOK
  <2>2. CASE ReadAttempt(c)
    <3> DEFINE n == [k EXCEPT !.step = "exam", !.status = status[k.attempt]]
    <3>1. Fine(n)
      BY <2>1 DEF Call
    <3>2. QED
      BY <1>3, <1>4, <2>2, <3>1 DEF ReadAttempt, Proceed, Refuse
  <2>3. CASE ReadExam(c) \/ ReadAccess(c) \/ CheckStart(c)
    BY <1>4, <1>5, <1>6, <2>1, <2>3 DEF ReadExam, ReadAccess, CheckStart, Refuse
  <2>4. CASE ReadLinks(c)
    <3> DEFINE n == [k EXCEPT !.step = "questions", !.questions = linked]
    <3>1. Fine(n)
      BY <2>1 DEF Call
    <3>2. QED
      BY <1>3, <1>7, <2>1, <2>4, <3>1 DEF ReadLinks, Proceed
  <2>5. CASE ReadQuestions(c)
    <3> DEFINE n == [k EXCEPT !.step = "options", !.questions = @ \cap rows,
                              !.expected = expected]
    <3>1. Fine(n)
      BY <2>1 DEF Call
    <3>2. QED
      BY <1>3, <2>5, <3>1 DEF ReadQuestions, Proceed
  <2>6. CASE ReadOptions(c)
    <3>1. options \subseteq Options /\ correct \subseteq Options
      BY DEF TypeInv, TypeOK, ExamTypeOK
    <3>2. [k EXCEPT !.options = options, !.correct = correct] \in Call
      BY <2>1, <3>1 DEF Call
    <3>3. QED
      BY <1>7, <2>6, <3>2 DEF ReadOptions
  <2>7. CASE ReadActive(c)
    <3>1. ASSUME NEW a \in Active(k.user),
                 Proceed(c, [k EXCEPT !.step = "answers", !.attempt = a])
          PROVE  Goal
      <4> DEFINE n == [k EXCEPT !.step = "answers", !.attempt = a]
      <4>1. Fine(n)
        BY <2>1 DEF Call
      <4>2. QED
        BY <1>3, <3>1, <4>1 DEF Proceed
    <3>2. QED
      BY <1>5, <1>6, <2>1, <2>7, <3>1 DEF ReadActive
  <2>8. CASE ReadAnswers(c)
    <3> DEFINE m == [k EXCEPT !.answers = answer[k.attempt]]
               n == [m EXCEPT !.step = "verify"]
               o == [m EXCEPT !.step = "reserve"]
    <3>1. m.questions = n.questions /\ m.expected = n.expected
          /\ m.answers = n.answers /\ o.step = "reserve"
      BY <2>1 DEF Call
    <3>2. OpenAnswered(n) = OpenAnswered(m)
      BY <3>1 DEF OpenAnswered
    <3>3. Fine(o)
      BY <3>1
    <3>4. OpenAnswered(m) = {} => Fine(n)
      BY <3>2
    <3>5. \/ \E r : Reply(c, r)
          \/ Proceed(c, o)
          \/ OpenAnswered(m) = {} /\ Proceed(c, n)
      BY <2>8 DEF ReadAnswers
    <3>6. QED
      BY <1>3, <1>4, <3>3, <3>4, <3>5 DEF Proceed
  <2>9. QED
    BY <1>8, <2>2, <2>3, <2>4, <2>5, <2>6, <2>7, <2>8 DEF Reads
<1>9. ASSUME NEW c \in Clients, Arrive(c) PROVE Goal
  <2>1. ASSUME NEW n, n.step \in {"exam", "attempt"},
               call' = [call EXCEPT ![c] = n]
        PROVE  Goal
    BY <1>3, <2>1
  <2>2. PICK u \in Users :
          \/ call' = [call EXCEPT ![c] = [IdleCall EXCEPT
                       !.user = u, !.kind = "start", !.step = "exam"]]
          \/ \E a \in Attempts, kind \in {"session", "finish"} :
               call' = [call EXCEPT ![c] = [IdleCall EXCEPT
                         !.user = u, !.kind = kind, !.step = "attempt",
                         !.attempt = a]]
          \/ \E a \in Attempts, q \in Questions, v \in Values :
               call' = [call EXCEPT ![c] = [IdleCall EXCEPT
                         !.user = u, !.kind = "submit", !.step = "attempt",
                         !.attempt = a, !.question = q, !.value = v]]
    BY <1>9 DEF Arrive
  <2>3. CASE call' = [call EXCEPT ![c] = [IdleCall EXCEPT
                        !.user = u, !.kind = "start", !.step = "exam"]]
    <3> DEFINE n == [IdleCall EXCEPT
                       !.user = u, !.kind = "start", !.step = "exam"]
    <3>1. n.step = "exam"
      BY DEF IdleCall
    <3> HIDE DEF n
    <3>2. QED
      BY <2>1, <2>3, <3>1 DEF n
  <2>4. ASSUME NEW a \in Attempts, NEW kind \in {"session", "finish"},
               call' = [call EXCEPT ![c] = [IdleCall EXCEPT
                         !.user = u, !.kind = kind, !.step = "attempt",
                         !.attempt = a]]
        PROVE  Goal
    <3> DEFINE n == [IdleCall EXCEPT !.user = u, !.kind = kind,
                                     !.step = "attempt", !.attempt = a]
    <3>1. n.step = "attempt"
      BY DEF IdleCall
    <3>2. call' = [call EXCEPT ![c] = n]
      BY <2>4
    <3> HIDE DEF n
    <3>3. QED
      BY <2>1, <3>1, <3>2
  <2>5. ASSUME NEW a \in Attempts, NEW q \in Questions, NEW v \in Values,
               call' = [call EXCEPT ![c] = [IdleCall EXCEPT
                         !.user = u, !.kind = "submit", !.step = "attempt",
                         !.attempt = a, !.question = q, !.value = v]]
        PROVE  Goal
    <3> DEFINE n == [IdleCall EXCEPT !.user = u, !.kind = "submit",
                                     !.step = "attempt", !.attempt = a,
                                     !.question = q, !.value = v]
    <3>1. n.step = "attempt"
      BY DEF IdleCall
    <3>2. call' = [call EXCEPT ![c] = n]
      BY <2>5
    <3> HIDE DEF n
    <3>3. QED
      BY <2>1, <3>1, <3>2
  <2>6. QED
    BY <2>2, <2>3, <2>4, <2>5
<1>10. ASSUME NEW c \in Clients, Create(c) \/ Submit(c) \/ Finalize(c)
              \/ CallFails(c) \/ CallTimesOut(c)
       PROVE  Goal
  BY <1>4, <1>10 DEF Create, Submit, Finalize, CallFails, CallTimesOut, Refuse
<1>11. ASSUME NEW c \in Clients, Reserve(c) PROVE Goal
  BY <1>4, <1>11 DEF Reserve, Refuse
<1>12. ASSUME NEW c \in Clients, Verify(c) PROVE Goal
  <2>1. call[c] \in Call
    BY <1>1 DEF ServiceInv
  <2>2. PICK judged :
          Proceed(c, [call[c] EXCEPT !.step = "finalize",
                                     !.grades = Graded(call[c], judged)])
    BY <1>12 DEF Verify
  <2>3. Fine([call[c] EXCEPT !.step = "finalize",
                             !.grades = Graded(call[c], judged)])
    BY <2>1 DEF Call
  <2>4. QED
    BY <1>3, <2>2, <2>3 DEF Proceed
<1>13. CASE \/ \E i \in 1 .. MaxFaults : OrphanCommits(i) \/ OrphanVanishes(i)
            \/ Manage \/ UNCHANGED vars
  BY <1>13 DEF OrphanCommits, OrphanVanishes, Manage, vars
<1>14. QED
  BY <1>8, <1>9, <1>10, <1>11, <1>12, <1>13 DEF Next, Serve, Reads

(* Of two disjoint finite sets of answers, the union has as many as both.  *)
LEMMA Together ==
  ASSUME NEW S, NEW T, IsFiniteSet(S), IsFiniteSet(T), S \cap T = {}
  PROVE  /\ IsFiniteSet(S \cup T)
         /\ Cardinality(S \cup T) = Cardinality(S) + Cardinality(T)
<1>1. Cardinality(S \cap T) = 0
  BY FS_EmptySet
<1>2. Cardinality(S) \in Nat /\ Cardinality(T) \in Nat
  BY FS_CardinalityType
<1>3. /\ IsFiniteSet(S \cup T)
      /\ Cardinality(S \cup T) =
           Cardinality(S) + Cardinality(T) - Cardinality(S \cap T)
  BY FS_Union
<1>4. QED
  BY <1>1, <1>2, <1>3

(* The granted reservation of a request adds its answers to the waiting.   *)
LEMMA ReserveKeepsQuota ==
  ASSUME TypeInv, QuotaInv, NEW c \in Clients, Reserve(c), ChargeUnits(call[c])
  PROVE  QuotaInv'
<1> DEFINE k == call[c]
           m == [k EXCEPT !.step = "verify"]
<1>1. /\ k \in Call /\ k.user \in Users /\ k.step = "reserve"
      /\ call \in [Clients -> Call]
      /\ usage \in [Users -> Nat] /\ verified \in [Users -> Nat]
  BY DEF TypeInv, TypeOK, ServiceTypeOK, CallsOK, CallOK, Reserve, At
<1>2. Units(k) \in Nat
  BY <1>1, UnitsTyped
<1>3. QuotaLimit \in Nat
  BY ConstantsAssumption DEF ConstantsAssumption
<1>4. call' = [call EXCEPT ![c] = m]
  BY <1>1, <1>2, <1>3 DEF Reserve, Proceed, ChargeUnits
<1>5. /\ UNCHANGED verified
      /\ usage' = [usage EXCEPT ![k.user] = @ + Units(k)]
      /\ usage[k.user] + Units(k) <= QuotaLimit
  BY DEF Reserve, ChargeUnits
<1>6. /\ m.step = "verify" /\ m.user = k.user
      /\ OpenAnswered(m) = OpenAnswered(k) /\ OpenAnswered(k) \subseteq Questions
  BY <1>1 DEF Call, OpenAnswered
<1>7. \A d \in Clients : call'[d] = IF d = c THEN m ELSE call[d]
  BY <1>1, <1>4
<1>8. \A u \in Users :
        Waiting(u)' = Waiting(u) \cup (IF u = k.user THEN AnswersOf(c) ELSE {})
  <2>1. ASSUME NEW u \in Users, NEW d \in Clients, NEW q \in Questions
        PROVE  <<d, q>> \in Waiting(u)' <=>
                 \/ <<d, q>> \in Waiting(u)
                 \/ u = k.user /\ <<d, q>> \in AnswersOf(c)
    <3>1. CASE d = c
      BY <1>1, <1>6, <1>7, <3>1 DEF Waiting, AnswersOf
    <3>2. CASE d # c
      BY <1>7, <3>2 DEF Waiting, AnswersOf
    <3>3. QED
      BY <3>1, <3>2
  <2>2. AnswersOf(c) \subseteq Clients \X Questions
    BY <1>6 DEF AnswersOf
  <2>3. \A u \in Users : /\ Waiting(u) \subseteq Clients \X Questions
                         /\ Waiting(u)' \subseteq Clients \X Questions
    BY DEF Waiting
  <2>4. QED
    BY <2>1, <2>2, <2>3
<1>9. \A u \in Users : Waiting(u) \cap AnswersOf(c) = {}
  BY <1>1 DEF Waiting, AnswersOf
<1>10. IsFiniteSet(AnswersOf(c)) /\ Cardinality(AnswersOf(c)) = Units(k)
  BY <1>1, AnswersCounted
<1>11. ASSUME NEW u \in Users
       PROVE  /\ IsFiniteSet(Waiting(u)')
              /\ verified'[u] + Cardinality(Waiting(u)') <= usage'[u]
              /\ usage'[u] <= QuotaLimit
  <2>1. /\ IsFiniteSet(Waiting(u)) /\ Cardinality(Waiting(u)) \in Nat
        /\ verified[u] + Cardinality(Waiting(u)) <= usage[u]
        /\ usage[u] <= QuotaLimit
        /\ verified[u] \in Nat /\ usage[u] \in Nat
    BY <1>1, FS_CardinalityType DEF QuotaInv
  <2>2. CASE u = k.user
    <3>1. Waiting(u)' = Waiting(u) \cup AnswersOf(c)
      BY <1>8, <2>2
    <3>2. /\ IsFiniteSet(Waiting(u)')
          /\ Cardinality(Waiting(u)') = Cardinality(Waiting(u)) + Units(k)
      BY <1>9, <1>10, <2>1, <3>1, Together
    <3>3. usage'[u] = usage[u] + Units(k) /\ verified'[u] = verified[u]
      BY <1>1, <1>5, <2>2
    <3>4. QED
      BY <1>2, <1>3, <1>5, <2>1, <2>2, <3>2, <3>3
  <2>3. CASE u # k.user
    <3>1. Waiting(u)' = Waiting(u)
      BY <1>8, <2>3
    <3>2. usage'[u] = usage[u] /\ verified'[u] = verified[u]
      BY <1>1, <1>5, <2>3
    <3>3. QED
      BY <2>1, <3>1, <3>2
  <2>4. QED
    BY <2>2, <2>3
<1>12. QED
  BY <1>11 DEF QuotaInv

(* A request that is verified takes its answers out of the waiting.        *)
LEMMA VerifyKeepsQuota ==
  ASSUME TypeInv, QuotaInv, QuotaEnabled, [Next]_vars, NEW c \in Clients,
         Verify(c)
  PROVE  QuotaInv'
<1> DEFINE k == call[c]
<1>1. /\ k \in Call /\ k.user \in Users /\ k.step = "verify"
      /\ call \in [Clients -> Call]
      /\ usage \in [Users -> Nat] /\ verified \in [Users -> Nat]
  BY DEF TypeInv, TypeOK, ServiceTypeOK, CallsOK, CallOK, Verify, At
<1>2. Units(k) \in Nat /\ OpenAnswered(k) \subseteq Questions
  BY <1>1, UnitsTyped DEF Call, OpenAnswered
<1>3. /\ \A d \in Clients \ {c} : call'[d] = call[d]
      /\ call'[c].step = "finalize"
  <2>1. PICK judged :
          Proceed(c, [k EXCEPT !.step = "finalize", !.grades = Graded(k, judged)])
    BY DEF Verify
  <2>2. [k EXCEPT !.step = "finalize", !.grades = Graded(k, judged)].step
          = "finalize"
    BY <1>1 DEF Call
  <2>3. QED
    BY <1>1, <2>1, <2>2 DEF Proceed
<1>4. OpenAnswered(k) = {} => Units(k) = 0
  BY FS_EmptySet DEF Units
<1>5. UNCHANGED usage /\ verified' = [verified EXCEPT ![k.user] = @ + Units(k)]
  <2>1. verified[k.user] + 0 = verified[k.user]
    BY <1>1
  <2>2. QED
    BY <1>1, <1>4, <2>1 DEF Verify
<1>6. \A u \in Users : Waiting(u) =
        Waiting(u)' \cup (IF u = k.user THEN AnswersOf(c) ELSE {})
  BY <1>1, <1>2, <1>3 DEF Waiting, AnswersOf
<1>7. \A u \in Users : Waiting(u)' \cap AnswersOf(c) = {}
  BY <1>3 DEF Waiting, AnswersOf
<1>8. IsFiniteSet(AnswersOf(c)) /\ Cardinality(AnswersOf(c)) = Units(k)
  BY <1>1, AnswersCounted
<1>9. ASSUME NEW u \in Users
      PROVE  /\ IsFiniteSet(Waiting(u)')
             /\ verified'[u] + Cardinality(Waiting(u)') <= usage'[u]
             /\ usage'[u] <= QuotaLimit
  <2>1. /\ IsFiniteSet(Waiting(u)) /\ Cardinality(Waiting(u)) \in Nat
        /\ verified[u] + Cardinality(Waiting(u)) <= usage[u]
        /\ usage[u] <= QuotaLimit
        /\ verified[u] \in Nat /\ usage[u] \in Nat
    BY <1>1, FS_CardinalityType DEF QuotaInv
  <2>2. IsFiniteSet(Waiting(u)')
    <3>1. Waiting(u)' \subseteq Waiting(u)
      BY <1>6
    <3>2. QED
      BY <2>1, <3>1, FS_Subset
  <2>3. Cardinality(Waiting(u)') \in Nat
    BY <2>2, FS_CardinalityType
  <2>4. CASE u = k.user
    <3>1. Waiting(u) = Waiting(u)' \cup AnswersOf(c)
      BY <1>6, <2>4
    <3>2. Cardinality(Waiting(u)) = Cardinality(Waiting(u)') + Units(k)
      BY <1>7, <1>8, <2>2, <3>1, Together
    <3>3. usage'[u] = usage[u] /\ verified'[u] = verified[u] + Units(k)
      BY <1>1, <1>5, <2>4
    <3>4. QED
      BY <1>2, <2>1, <2>2, <2>3, <3>2, <3>3
  <2>5. CASE u # k.user
    <3>1. Waiting(u)' = Waiting(u)
      BY <1>6, <2>5
    <3>2. usage'[u] = usage[u] /\ verified'[u] = verified[u]
      BY <1>1, <1>5, <2>5
    <3>3. QED
      BY <2>1, <3>1, <3>2
  <2>6. QED
    BY <2>4, <2>5
<1>10. QED
  BY <1>9 DEF QuotaInv

(* But for a verification no answer is sent to the verifier, and units are *)
(* only ever added, within the quota.                                      *)
LEMMA UsageGrows ==
  ASSUME TypeInv, QuotaInv, [Next]_vars, \A c \in Clients : ~Verify(c)
  PROVE  /\ UNCHANGED verified
         /\ \A u \in Users : usage[u] <= usage'[u] /\ usage'[u] <= QuotaLimit
<1> DEFINE Goal == /\ UNCHANGED verified
                   /\ \A u \in Users :
                        usage[u] <= usage'[u] /\ usage'[u] <= QuotaLimit
<1>1. usage \in [Users -> Nat] /\ QuotaLimit \in Nat
  BY ConstantsAssumption DEF TypeInv, TypeOK, ServiceTypeOK, ConstantsAssumption
<1>2. CASE UNCHANGED usageVars
  BY <1>1, <1>2 DEF usageVars, QuotaInv
<1>3. ASSUME NEW k \in InService, k.step # "idle", ChargeUnits(k),
             UNCHANGED verified
      PROVE  Goal
  <2>1. k.user \in Users /\ Units(k) \in Nat
    BY <1>3, InServiceTyped, UnitsTyped DEF CallOK
  <2>2. QED
    BY <1>1, <1>3, <2>1 DEF ChargeUnits, QuotaInv
<1>4. ASSUME NEW c \in Clients, Reads(c) \/ Arrive(c) PROVE UNCHANGED usageVars
  BY <1>4 DEF Reads, ReadAttempt, ReadExam, ReadAccess, ReadLinks,
              ReadQuestions, ReadOptions, ReadActive, ReadAnswers, CheckStart,
              ReadOnly, Arrive
<1>5. ASSUME NEW c \in Clients,
             Create(c) \/ Submit(c) \/ Finalize(c) \/ CallFails(c) \/ CallTimesOut(c)
      PROVE  UNCHANGED usageVars
  BY <1>5 DEF Create, Submit, Finalize, CallFails, CallTimesOut
<1>6. ASSUME NEW c \in Clients, Reserve(c) PROVE Goal
  BY <1>2, <1>3, <1>6 DEF Reserve, At, InService, usageVars
<1>7. ASSUME NEW i \in 1 .. MaxFaults, OrphanCommits(i) \/ OrphanVanishes(i)
      PROVE  Goal
  BY <1>2, <1>3, <1>7 DEF OrphanCommits, OrphanVanishes, InService, usageVars
<1>8. CASE Manage \/ UNCHANGED vars
  BY <1>2, <1>8 DEF Manage, vars
<1>9. QED
  BY <1>2, <1>4, <1>5, <1>6, <1>7, <1>8 DEF Next, Serve, Reads

(* Units reserved and answers waiting stay in balance.                     *)
LEMMA QuotaInvStep ==
  ASSUME TypeInv, QuotaInv, QuotaEnabled, [Next]_vars
  PROVE  QuotaInv'
<1>1. CASE \E c \in Clients : Verify(c)
  BY <1>1, VerifyKeepsQuota
<1>2. CASE \E c \in Clients : Reserve(c) /\ ChargeUnits(call[c])
  BY <1>2, ReserveKeepsQuota
<1>3. CASE /\ \A c \in Clients : ~Verify(c)
           /\ \A c \in Clients : ~(Reserve(c) /\ ChargeUnits(call[c]))
  <2>1. \A d \in Clients : call'[d].step = "verify" =>
          call'[d] = call[d] \/ OpenAnswered(call'[d]) = {}
    BY <1>3, OnlyReservedWait
  <2>2. \A u \in Users : Waiting(u)' \subseteq Waiting(u)
    BY <2>1 DEF Waiting
  <2>3. /\ UNCHANGED verified
        /\ \A u \in Users : usage[u] <= usage'[u] /\ usage'[u] <= QuotaLimit
    BY <1>3, UsageGrows
  <2>4. ASSUME NEW u \in Users
        PROVE  /\ IsFiniteSet(Waiting(u)')
               /\ verified'[u] + Cardinality(Waiting(u)') <= usage'[u]
               /\ usage'[u] <= QuotaLimit
    <3>1. /\ IsFiniteSet(Waiting(u))
          /\ verified[u] + Cardinality(Waiting(u)) <= usage[u]
      BY DEF QuotaInv
    <3>2. /\ IsFiniteSet(Waiting(u)')
          /\ Cardinality(Waiting(u)') <= Cardinality(Waiting(u))
      BY <2>2, <3>1, FS_Subset
    <3>3. Cardinality(Waiting(u)) \in Nat /\ Cardinality(Waiting(u)') \in Nat
      BY <3>1, <3>2, FS_CardinalityType
    <3>4. verified[u] \in Nat /\ usage[u] \in Nat /\ usage'[u] \in Nat
      <4>1. CountersTypeOK'
        BY CountersTyped
      <4>2. QED
        BY <4>1 DEF CountersTypeOK, TypeInv, TypeOK, ServiceTypeOK
    <3>5. QED
      BY <2>3, <3>1, <3>2, <3>3, <3>4
  <2>5. QED
    BY <2>4 DEF QuotaInv
<1>4. QED
  BY <1>1, <1>2, <1>3

(* No answer reaches the verifier that no unit was reserved for, nor more  *)
(* than the quota, however many finishes of a user overlap, are repeated,  *)
(* or are given up while their reservation commits.                        *)
THEOREM VerificationIsReserved == Spec => []NoUnreservedVerification
<1> DEFINE I == QuotaEnabled => QuotaInv
<1>1. Init => I
  <2> SUFFICES ASSUME Init PROVE QuotaInv
    OBVIOUS
  <2>1. \A c \in Clients : call[c].step # "verify"
    BY DEF Init, IdleCall
  <2>2. \A u \in Users : Waiting(u) = {}
    BY <2>1 DEF Waiting
  <2>3. IsFiniteSet({}) /\ Cardinality({}) = 0
    BY FS_EmptySet
  <2>4. \A u \in Users : verified[u] = 0 /\ usage[u] = 0
    BY DEF Init
  <2>5. QuotaLimit \in Nat
    BY ConstantsAssumption DEF ConstantsAssumption
  <2>6. QED
    BY <2>2, <2>3, <2>4, <2>5 DEF QuotaInv
<1>2. TypeInv /\ I /\ [Next]_vars => I'
  BY QuotaInvStep
<1>3. TypeInv /\ I => NoUnreservedVerification
  <2> SUFFICES ASSUME TypeInv, QuotaInv, NEW u \in Users
               PROVE  verified[u] <= usage[u] /\ usage[u] <= QuotaLimit
    BY DEF NoUnreservedVerification
  <2>1. Cardinality(Waiting(u)) \in Nat
    BY FS_CardinalityType DEF QuotaInv
  <2>2. verified[u] \in Nat /\ usage[u] \in Nat
    BY DEF TypeInv, TypeOK, ServiceTypeOK
  <2>3. QED
    BY <2>1, <2>2 DEF QuotaInv
<1>4. LedgerIInv => TypeInv
  BY DEF LedgerIInv
<1>5. QED
  BY <1>1, <1>2, <1>3, <1>4, LedgerIInvAlways, PTL DEF Spec
=============================================================================
