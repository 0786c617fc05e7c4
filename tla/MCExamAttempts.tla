--------------------------- MODULE MCExamAttempts ---------------------------
(***************************************************************************)
(* Small instances of ExamAttempts for TLC: one closed question q1 with    *)
(* the options o1 (correct) and o2, and one open question q2 whose         *)
(* expected answer is t1.                                                  *)
(***************************************************************************)
EXTENDS ExamAttempts, TLC

CONSTANTS q1, q2, o1, o2, t1, t2

MCQuestions      == {q1, q2}
MCQuestionOf     == [o \in Options |-> q1]
MCExpectedAnswer == [q \in Questions |-> IF q = q2 THEN t1 ELSE None]

Symmetry == Permutations(Clients) \cup Permutations(Attempts)
=============================================================================
