--------------------------- MODULE AuthRateLimiter ---------------------------
(***************************************************************************)
(* The limiter of the authentication routes: a sliding window for every    *)
(* address and every account of an operation, in the memory of a process.  *)
(* The dependency that calls it is a coroutine, so checks run one after    *)
(* another on the event loop, and each reads the clock after all earlier   *)
(* ones: the instants in a deque never decrease.                           *)
(*                                                                         *)
(* admitted[k] is the history of key k, the instants of all the requests   *)
(* ever admitted with it; the deque of k is what is left of it when the    *)
(* first dropped[k] are gone (all of them when there is no deque).         *)
(***************************************************************************)
EXTENDS Naturals, Sequences, FiniteSets

CONSTANTS
  Keys,           \* operation, and address or digest of the account
  Requests,       \* the sets of keys that a request is checked with
  Limit, Window,  \* of each key; the window in seconds
  Second,         \* ticks of the clock in a second
  Coarse,         \* Retry-After is a multiple of it (5 seconds)
  StaleAge,       \* age of the deques that are cleaned up (600 seconds)
  Period,         \* admitted requests between two clean-ups (256)
  None,
  MaxClock        \* bound: last instant

ASSUME LimiterAssumption ==
  /\ Requests \subseteq SUBSET Keys
  /\ Limit \in [Keys -> Nat \ {0}]
  /\ Window \in [Keys -> Nat \ {0}]
  /\ Second \in Nat \ {0} /\ Coarse \in Nat \ {0}
  /\ StaleAge \in Nat /\ Period \in Nat \ {0}
  /\ MaxClock \in Nat
  /\ None \notin [keys : Requests, until : Nat]
  \* the longest window of the policies is 300 seconds
  /\ \A k \in Keys : Window[k] <= StaleAge

VARIABLES
  clock,
  admitted, dropped,
  checks,         \* admitted requests since the last clean-up
  refusal         \* the last refused request: its keys, and the instant it
                  \* was told to wait for, until another one uses a key of it

vars == <<clock, admitted, dropped, checks, refusal>>

(* The instants of a key are in order, none is ahead of the clock, and no  *)
(* more of them are gone than there were.  Only because of the order are   *)
(* the expired ones all at the end that they leave by.                     *)
TypeOK ==
  /\ clock \in 0 .. MaxClock
  /\ admitted \in [Keys -> Seq(Nat)]
  /\ \A k \in Keys : \A j \in DOMAIN admitted[k] :
       /\ admitted[k][j] <= clock
       /\ \A i \in 1 .. j : admitted[k][i] <= admitted[k][j]
  /\ dropped \in [Keys -> Nat]
  /\ \A k \in Keys : dropped[k] <= Len(admitted[k])
  /\ checks \in 0 .. Period - 1
  /\ refusal \in {None} \cup [keys : Requests, until : Nat]

-----------------------------------------------------------------------------
(* The deque of a key, once its expired instants have been taken from its  *)
(* left end.                                                               *)

Ticks(k) == Window[k] * Second

(* Mutated form: it still counts.                                          *)
OlderThanWindow(k, i) == admitted[k][i] + Ticks(k) < clock

(* An instant exactly as old as the window is outside it.                  *)
Expired(k, i) == admitted[k][i] + Ticks(k) <= clock

Gone(k) == 1 .. dropped[k] \cup {i \in DOMAIN admitted[k] : Expired(k, i)}

Popped(k) == Cardinality(Gone(k))

Full(k) == Len(admitted[k]) - Popped(k) >= Limit[k]

(* Ticks until the oldest instant of the deque expires.                    *)
Rest(k) == admitted[k][Popped(k) + 1] + Ticks(k) - clock

RoundedUp(x, unit) == ((x + unit - 1) \div unit) * unit

(* Mutated form: the next lower multiple.                                  *)
BackOffDown(k) ==
  LET s == (Rest(k) \div (Coarse * Second)) * Coarse * Second
  IN  IF s < Coarse * Second THEN Coarse * Second ELSE s

(* Whole seconds, and a multiple of Coarse, of which there is at least one.*)
BackOff(k) ==
  RoundedUp(RoundedUp(Rest(k), Second), Coarse * Second)

-----------------------------------------------------------------------------
Popping(r) == [k \in Keys |-> IF k \in r THEN Popped(k) ELSE dropped[k]]

(* Some key is full: nothing is charged, and the client is told how long   *)
(* to wait for the slowest of the full ones.                               *)
Refuse(r) ==
  /\ \E k \in r :
       /\ Full(k)
       /\ \A j \in r : Full(j) => BackOff(j) <= BackOff(k)
       /\ refusal' = [keys |-> r, until |-> clock + BackOff(k)]
  /\ dropped' = Popping(r)
  /\ UNCHANGED <<clock, admitted, checks>>

(* Mutated form: the age of a deque is that of its oldest instant.         *)
StaleByOldest(k, d) ==
  d < Len(admitted[k]) => admitted[k][d + 1] + StaleAge * Second <= clock

(* A deque that is empty, or whose last instant is old, is deleted.        *)
Stale(k, d) ==
  d < Len(admitted[k]) =>
    admitted[k][Len(admitted[k])] + StaleAge * Second <= clock

CleanedUp(r) ==
  [k \in Keys |-> IF k \notin r /\ Stale(k, Popping(r)[k])
                  THEN Len(admitted[k]) ELSE Popping(r)[k]]

(* The code counts for ever and takes the remainder when it looks.         *)
NextCheck == (checks + 1) % Period

(* Mutated form: the instants are added at the end that they leave by.     *)
ChargedAtLeft(r) ==
  [k \in Keys |-> IF k \in r THEN <<clock>> \o admitted[k] ELSE admitted[k]]

(* The instant goes to the right end of the deques.                        *)
Charged(r) ==
  [k \in Keys |-> IF k \in r THEN Append(admitted[k], clock) ELSE admitted[k]]

(* Every key of the request is charged; now and then the dictionary is     *)
(* cleaned up, where the keys just charged are not stale.                  *)
Admit(r) ==
  /\ \A k \in r : ~Full(k)
  /\ admitted' = Charged(r)
  /\ checks' = NextCheck
  /\ dropped' = IF checks' = 0 THEN CleanedUp(r) ELSE Popping(r)
  /\ refusal' = IF refusal # None /\ refusal.keys \cap r # {} THEN None
                ELSE refusal
  /\ UNCHANGED clock

Enforce(r) == Refuse(r) \/ Admit(r)

Tick ==
  /\ clock < MaxClock
  /\ clock' = clock + 1
  /\ UNCHANGED <<admitted, dropped, checks, refusal>>

Init ==
  /\ clock = 0
  /\ admitted = [k \in Keys |-> <<>>]
  /\ dropped = [k \in Keys |-> 0]
  /\ checks = 0
  /\ refusal = None

Next == Tick \/ \E r \in Requests : Enforce(r)

Spec == Init /\ [][Next]_vars

-----------------------------------------------------------------------------
(* Properties.                                                             *)

(* Of the requests admitted with a key, the one Limit places later comes a *)
(* whole window later: no window holds more than Limit, whatever has been  *)
(* popped or cleaned up meanwhile, and refused requests are not charged.   *)
WindowBound ==
  \A k \in Keys : \A i \in 1 .. Len(admitted[k]) - Limit[k] :
    admitted[k][i] + Ticks(k) <= admitted[k][i + Limit[k]]

(* A client that waits for the time in Retry-After is admitted, unless     *)
(* another request has been admitted with one of its keys meanwhile.       *)
RetryAfterSuffices ==
  refusal # None /\ clock >= refusal.until => \A k \in refusal.keys : ~Full(k)

(* A request is refused only when one of its keys has been admitted Limit  *)
(* times within its window.                                                *)
RefusalIsDue ==
  [][\A r \in Requests : Refuse(r) =>
       \E k \in r :
         /\ Len(admitted[k]) >= Limit[k]
         /\ admitted[k][Len(admitted[k]) + 1 - Limit[k]] + Ticks(k) > clock]_vars
=============================================================================
