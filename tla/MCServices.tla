------------------------------- MODULE MCServices ------------------------------
(***************************************************************************)
(* Accounts, StudyActivity and Chunking on small instances, in one run.    *)
(* They share no variable, so a property of one of them holds whatever the *)
(* others do, and each takes steps only while the others are in their      *)
(* initial states: the state space is the sum of the three and not their   *)
(* product.                                                                *)
(***************************************************************************)
EXTENDS Accounts, StudyActivity, Chunking, TLC

CONSTANTS address

MCEmailOf == [u \in Identities |-> address]

Mix(f, t, m, o) ==
  [flashcard |-> f, true_false |-> t, multiple_choice |-> m, open |-> o]

MCFlashcardRequests == {Mix(2, 0, 0, 0), Mix(1, 0, 0, 0)}
MCExamRequests == {Mix(0, 1, 1, 0)}

MCActivities ==
  {[kind |-> "study_session", quantity |-> 1, seconds |-> 2],
   [kind |-> "flashcard_reviewed", quantity |-> 1, seconds |-> 0],
   [kind |-> "flashcard_reviewed", quantity |-> 2, seconds |-> 0]}

MCQueries == {[offset |-> 0, calendar |-> TRUE, days |-> 2],
              [offset |-> -1, calendar |-> FALSE, days |-> 2]}

ServicesInit == AccountsInit /\ StudyInit /\ ChunkingInit

ServicesNext ==
  \/ /\ StudyInit /\ ChunkingInit
     /\ AccountsNext /\ UNCHANGED <<studyVars, chunkingVars>>
  \/ /\ AccountsInit /\ ChunkingInit
     /\ StudyNext /\ UNCHANGED <<accountVars, chunkingVars>>
  \/ /\ AccountsInit /\ StudyInit
     /\ ChunkingNext /\ UNCHANGED <<accountVars, studyVars>>

ServicesSpec ==
  ServicesInit /\ [][ServicesNext]_<<accountVars, studyVars, chunkingVars>>

(* Requests, rows, objects, calls, events and chunks have the types that   *)
(* their modules give them.                                                *)
ServicesTypeOK == AccountsTypeOK /\ StudyTypeOK /\ ChunkingTypeOK

(* Clients and slots are the same model values, and so are identities and  *)
(* keys, which fits the sum: fewer permutations to try.                    *)
Symmetry == Permutations(Identities) \cup Permutations(Clients)
=============================================================================
