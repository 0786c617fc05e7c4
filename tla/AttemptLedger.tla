---------------------------- MODULE AttemptLedger ---------------------------
(***************************************************************************)
(* What the exam attempt workflow promises, without requests, calls or     *)
(* faults: a ledger of attempts in which every operation takes effect at   *)
(* once.  ExamAttempts implements it.                                      *)
(***************************************************************************)
EXTENDS Naturals

CONSTANTS Users, Attempts, Questions, Values, AttemptLimit, None

VARIABLES status, owner, number, score, answer, verdict

vars == <<status, owner, number, score, answer, verdict>>

Taken(u) == {a \in Attempts : status[a] # "absent" /\ owner[a] = u}

Init ==
  /\ status  = [a \in Attempts |-> "absent"]
  /\ owner   = [a \in Attempts |-> None]
  /\ number  = [a \in Attempts |-> 0]
  /\ score   = [a \in Attempts |-> [earned |-> {}, counted |-> {}]]
  /\ answer  = [a \in Attempts |-> [q \in Questions |-> None]]
  /\ verdict = [a \in Attempts |-> [q \in Questions |-> "none"]]

(* A user with no attempt in progress gets a new one, with the least       *)
(* number not used yet, as long as that is within the limit.               *)
Start(u, a, n) ==
  /\ status[a] = "absent"
  /\ \A b \in Taken(u) : status[b] = "completed" /\ number[b] # n
  /\ \A m \in 1 .. n - 1 : \E b \in Taken(u) : number[b] = m
  /\ status' = [status EXCEPT ![a] = "in_progress"]
  /\ owner'  = [owner EXCEPT ![a] = u]
  /\ number' = [number EXCEPT ![a] = n]
  /\ UNCHANGED <<score, answer, verdict>>

(* An answer is stored or replaced, without a grade.                       *)
Answer(a, q, v) ==
  /\ status[a] = "in_progress"
  /\ answer' = [answer EXCEPT ![a][q] = v]
  /\ UNCHANGED <<status, owner, number, score, verdict>>

(* The attempt is completed: every answer gets its verdict and the score   *)
(* counts all of those that are correct.                                   *)
Finish(a, grades, counted) ==
  /\ status[a] = "in_progress"
  /\ \A q \in Questions : grades[q] = "none" <=> answer[a][q] = None
  /\ {q \in Questions : grades[q] = "correct"} \subseteq counted
  /\ verdict' = [verdict EXCEPT ![a] = grades]
  /\ score'   = [score EXCEPT ![a] =
                   [earned  |-> {q \in Questions : grades[q] = "correct"},
                    counted |-> counted]]
  /\ status'  = [status EXCEPT ![a] = "completed"]
  /\ UNCHANGED <<owner, number, answer>>

(* The exam is deleted, and all its attempts with it.                      *)
Erase ==
  /\ status'  = [a \in Attempts |-> "absent"]
  /\ owner'   = [a \in Attempts |-> None]
  /\ number'  = [a \in Attempts |-> 0]
  /\ score'   = [a \in Attempts |-> [earned |-> {}, counted |-> {}]]
  /\ answer'  = [a \in Attempts |-> [q \in Questions |-> None]]
  /\ verdict' = [a \in Attempts |-> [q \in Questions |-> "none"]]

Next ==
  \/ \E u \in Users, a \in Attempts, n \in 1 .. AttemptLimit : Start(u, a, n)
  \/ \E a \in Attempts, q \in Questions, v \in Values : Answer(a, q, v)
  \/ \E a \in Attempts, counted \in SUBSET Questions,
        grades \in [Questions -> {"none", "correct", "wrong"}] :
       Finish(a, grades, counted)
  \/ Erase

Spec == Init /\ [][Next]_vars
=============================================================================
