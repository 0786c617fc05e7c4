--------------------------- MODULE MCAiUsageQuota ---------------------------
(* Limits of the operations of the instances of AiUsageQuota.              *)
EXTENDS AiUsageQuota, TLC

CONSTANTS chat, exam, u1, c1, c2, c3

MCHourLimit == [o \in Operations |-> 2]
MCDayLimit  == [o \in Operations |-> 3]

Symmetry == Permutations(Callers) \cup Permutations(Operations)
=============================================================================
