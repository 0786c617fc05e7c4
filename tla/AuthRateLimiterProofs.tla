------------------------ MODULE AuthRateLimiterProofs ------------------------
(***************************************************************************)
(* Proofs about AuthRateLimiter, for every set of keys, limits and windows *)
(* of any length: the windows stay bounded whatever is popped or cleaned   *)
(* up, Retry-After is enough, and refusals are due.                        *)
(***************************************************************************)
EXTENDS AuthRateLimiter, FiniteSetTheorems, TLAPS

-----------------------------------------------------------------------------
(* What is gone from a deque was outside the window.                       *)
DroppedExpired == \A k \in Keys : \A i \in 1 .. dropped[k] : Expired(k, i)

(* Every key of the last refused request has room at the instant that the  *)
(* client was told.                                                        *)
RoomAtLast ==
  refusal # None => \A k \in refusal.keys :
    Len(admitted[k]) >= Limit[k] =>
      admitted[k][Len(admitted[k]) + 1 - Limit[k]] + Ticks(k) <= refusal.until

IInv == TypeOK /\ DroppedExpired /\ WindowBound /\ RoomAtLast

-----------------------------------------------------------------------------
(* Arithmetic.                                                             *)

(* The product is monotone.                                                *)
LEMMA TimesMonotone ==
  ASSUME NEW a \in Nat, NEW b \in Nat, NEW c \in Nat, a <= b
  PROVE  a * c <= b * c
<1>1. PICK d \in Nat : b = a + d
  <2>1. b - a \in Nat /\ b = a + (b - a)
    OBVIOUS
  <2>2. QED
    BY <2>1
<1>2. b * c = a * c + d * c
  BY <1>1
<1>3. d * c \in Nat /\ a * c \in Nat
  OBVIOUS
<1>4. QED
  BY <1>2, <1>3

(* A number is rounded up to one that is not less.                         *)
LEMMA RoundedUpBound ==
  ASSUME NEW x \in Nat, NEW u \in Nat \ {0}
  PROVE  RoundedUp(x, u) \in Nat /\ x <= RoundedUp(x, u)
<1> DEFINE q == (x + u - 1) \div u
           m == (x + u - 1) % u
<1>1. x + u - 1 \in Nat
  OBVIOUS
<1>2. q \in Nat /\ m \in 0 .. u - 1
  BY <1>1
<1>3. x + u - 1 = u * q + m
  BY <1>1
<1>4. u * q = q * u /\ q * u \in Nat
  BY <1>2
<1>5. QED
  BY <1>2, <1>3, <1>4 DEF RoundedUp

(* The windows are times.                                                  *)
LEMMA TicksType ==
  ASSUME NEW k \in Keys
  PROVE  Ticks(k) \in Nat /\ Ticks(k) <= StaleAge * Second
         /\ StaleAge * Second \in Nat /\ Limit[k] \in Nat \ {0}
<1>1. Window[k] \in Nat /\ Second \in Nat /\ StaleAge \in Nat
      /\ Window[k] <= StaleAge /\ Limit[k] \in Nat \ {0}
  BY LimiterAssumption DEF LimiterAssumption
<1>2. Window[k] * Second <= StaleAge * Second
  BY <1>1, TimesMonotone
<1>3. Window[k] * Second \in Nat /\ StaleAge * Second \in Nat
  BY <1>1
<1>4. QED
  BY <1>1, <1>2, <1>3 DEF Ticks

-----------------------------------------------------------------------------
(* The deques.                                                             *)

(* Instants are in order, up to the clock.                                 *)
LEMMA InstantsOrdered ==
  ASSUME TypeOK, NEW k \in Keys, NEW j \in 1 .. Len(admitted[k])
  PROVE  /\ admitted[k][j] \in Nat /\ admitted[k][j] <= clock
         /\ \A i \in 1 .. j : admitted[k][i] <= admitted[k][j]
BY DEF TypeOK

LEMMA CountTo ==
  ASSUME NEW n \in Nat
  PROVE  IsFiniteSet(1 .. n) /\ Cardinality(1 .. n) = n
BY FS_Interval

(* Those popped are exactly the expired ones, which are the oldest.        *)
LEMMA PoppedAreExpired ==
  ASSUME TypeOK, DroppedExpired, NEW k \in Keys
  PROVE  /\ Popped(k) \in 0 .. Len(admitted[k])
         /\ \A i \in DOMAIN admitted[k] : i <= Popped(k) <=> Expired(k, i)
<1> DEFINE n == Len(admitted[k])
<1>1. /\ admitted[k] \in Seq(Nat) /\ n \in Nat /\ DOMAIN admitted[k] = 1 .. n
      /\ dropped[k] \in Nat /\ dropped[k] <= n /\ clock \in Nat
  BY DEF TypeOK
<1>2. \A j \in 1 .. n : admitted[k][j] \in Nat
  BY <1>1
<1>3. Ticks(k) \in Nat
  BY TicksType
<1>4. Gone(k) = {i \in 1 .. n : Expired(k, i)}
  BY <1>1 DEF Gone, DroppedExpired
<1>5. \A j \in 1 .. n : \A i \in 1 .. j : Expired(k, j) => Expired(k, i)
  <2> SUFFICES ASSUME NEW j \in 1 .. n, NEW i \in 1 .. j, Expired(k, j)
               PROVE  Expired(k, i)
    OBVIOUS
  <2>1. admitted[k][i] <= admitted[k][j]
    BY <1>1 DEF TypeOK
  <2>2. i \in 1 .. n
    BY <1>1
  <2>3. QED
    BY <1>1, <1>2, <1>3, <2>1, <2>2 DEF Expired
<1>6. IsFiniteSet(1 .. n) /\ Cardinality(1 .. n) = n
  BY <1>1, CountTo
<1>7. IsFiniteSet(Gone(k)) /\ Popped(k) \in Nat /\ Popped(k) <= n
  BY <1>4, <1>6, FS_Subset, FS_CardinalityType DEF Popped
<1>8. ASSUME NEW i \in 1 .. n, Expired(k, i)
      PROVE  i <= Popped(k)
  <2>1. 1 .. i \subseteq Gone(k)
    BY <1>1, <1>4, <1>5, <1>8
  <2>2. Cardinality(1 .. i) = i
    BY CountTo
  <2>3. QED
    BY <1>7, <2>1, <2>2, FS_Subset DEF Popped
<1>9. ASSUME NEW i \in 1 .. n, ~Expired(k, i)
      PROVE  i > Popped(k)
  <2>1. Gone(k) \subseteq 1 .. i - 1
    <3> SUFFICES ASSUME NEW j \in Gone(k) PROVE j \in 1 .. i - 1
      OBVIOUS
    <3>1. j \in 1 .. n /\ Expired(k, j)
      BY <1>4
    <3>2. ~(i <= j)
      BY <1>1, <1>5, <1>9, <3>1
    <3>3. QED
      BY <1>1, <3>1, <3>2
  <2>2. IsFiniteSet(1 .. i - 1) /\ Cardinality(1 .. i - 1) = i - 1
    <3>1. i - 1 \in Nat
      BY <1>1
    <3>2. QED
      BY <3>1, CountTo
  <2>3. Popped(k) <= i - 1
    BY <2>1, <2>2, FS_Subset DEF Popped
  <2>4. QED
    BY <1>7, <2>3
<1>10. QED
  BY <1>1, <1>7, <1>8, <1>9

(* A deque is full exactly when the last Limit instants are in the window. *)
LEMMA FullDeque ==
  ASSUME TypeOK, DroppedExpired, NEW k \in Keys
  PROVE  Full(k) <=> /\ Len(admitted[k]) >= Limit[k]
                     /\ ~Expired(k, Len(admitted[k]) + 1 - Limit[k])
<1> DEFINE n == Len(admitted[k])
           last == n + 1 - Limit[k]
<1>1. n \in Nat /\ DOMAIN admitted[k] = 1 .. n /\ Limit[k] \in Nat \ {0}
  BY TicksType DEF TypeOK
<1>2. Popped(k) \in 0 .. n
      /\ \A i \in 1 .. n : i <= Popped(k) <=> Expired(k, i)
  BY <1>1, PoppedAreExpired
<1>3. CASE n >= Limit[k]
  <2>1. last \in 1 .. n
    BY <1>1, <1>3
  <2>2. last <= Popped(k) <=> Expired(k, last)
    BY <1>2, <2>1
  <2>3. QED
    BY <1>1, <1>2, <1>3, <2>1, <2>2 DEF Full
<1>4. CASE ~(n >= Limit[k])
  BY <1>1, <1>2, <1>4 DEF Full
<1>5. QED
  BY <1>3, <1>4

(* Retry-After reaches the instant at which a full key has room again.     *)
LEMMA BackOffReaches ==
  ASSUME TypeOK, DroppedExpired, WindowBound, NEW k \in Keys, Full(k)
  PROVE  /\ BackOff(k) \in Nat
         /\ admitted[k][Len(admitted[k]) + 1 - Limit[k]] + Ticks(k)
              <= clock + BackOff(k)
<1> DEFINE n == Len(admitted[k])
           last == n + 1 - Limit[k]
<1>1. /\ n \in Nat /\ DOMAIN admitted[k] = 1 .. n /\ Limit[k] \in Nat \ {0}
      /\ Ticks(k) \in Nat /\ clock \in Nat /\ admitted[k] \in Seq(Nat)
  BY TicksType DEF TypeOK
<1>2. /\ Popped(k) \in 0 .. n
      /\ \A i \in 1 .. n : i <= Popped(k) <=> Expired(k, i)
  BY <1>1, PoppedAreExpired
<1>3. n >= Limit[k] /\ ~Expired(k, last)
  BY FullDeque
<1>4. last \in 1 .. n /\ admitted[k][last] \in Nat
  BY <1>1, <1>3
<1>5. last > Popped(k)
  BY <1>1, <1>2, <1>3, <1>4
<1>6. Popped(k) >= n - Limit[k]
  <2>1. CASE n = Limit[k]
    BY <1>2, <2>1
  <2>2. CASE n # Limit[k]
    <3> DEFINE i == n - Limit[k]
    <3>1. i \in 1 .. n /\ i + Limit[k] = n /\ n \in 1 .. n
      BY <1>1, <1>3, <2>2
    <3>2. admitted[k][i] + Ticks(k) <= admitted[k][n]
      BY <3>1 DEF WindowBound
    <3>3. admitted[k][i] \in Nat /\ admitted[k][n] \in Nat
          /\ admitted[k][n] <= clock
      <4> HIDE DEF i
      <4>1. QED
        BY <3>1, InstantsOrdered
    <3>4. Expired(k, i)
      BY <1>1, <3>2, <3>3 DEF Expired
    <3>5. QED
      BY <1>2, <3>1, <3>4
  <2>3. QED
    BY <2>1, <2>2
<1>7. Popped(k) + 1 = last
  BY <1>1, <1>2, <1>5, <1>6
<1> HIDE DEF last
<1>8. Rest(k) = admitted[k][last] + Ticks(k) - clock /\ Rest(k) \in Nat
  BY <1>1, <1>3, <1>4, <1>7 DEF Rest, Expired
<1>9. Second \in Nat \ {0} /\ Coarse * Second \in Nat \ {0}
  BY LimiterAssumption DEF LimiterAssumption
<1>10. RoundedUp(Rest(k), Second) \in Nat
       /\ Rest(k) <= RoundedUp(Rest(k), Second)
  BY <1>8, <1>9, RoundedUpBound
<1>11. BackOff(k) \in Nat /\ RoundedUp(Rest(k), Second) <= BackOff(k)
  BY <1>9, <1>10, RoundedUpBound DEF BackOff
<1>12. admitted[k][last] + Ticks(k) <= clock + BackOff(k)
  BY <1>1, <1>4, <1>8, <1>10, <1>11
<1>13. QED
  BY <1>11, <1>12 DEF last

-----------------------------------------------------------------------------
(* The steps.                                                              *)

LEMMA InitIInv == Init => IInv
<1> SUFFICES ASSUME Init PROVE IInv
  OBVIOUS
<1>1. Period \in Nat \ {0} /\ MaxClock \in Nat
  BY LimiterAssumption DEF LimiterAssumption
<1>2. \A k \in Keys : admitted[k] = <<>> /\ dropped[k] = 0
  BY DEF Init
<1>3. TypeOK
  BY <1>1, <1>2 DEF Init, TypeOK
<1>4. DroppedExpired
  BY <1>2 DEF DroppedExpired
<1>5. WindowBound
  BY <1>2, TicksType DEF WindowBound
<1>6. RoomAtLast
  BY DEF Init, RoomAtLast
<1>7. QED
  BY <1>3, <1>4, <1>5, <1>6 DEF IInv

LEMMA TickStep == IInv /\ Tick => IInv'
<1> SUFFICES ASSUME IInv, Tick PROVE IInv'
  OBVIOUS
<1>1. /\ clock' = clock + 1 /\ clock \in Nat /\ clock < MaxClock
      /\ MaxClock \in Nat
      /\ UNCHANGED <<admitted, dropped, checks, refusal>>
  BY LimiterAssumption DEF Tick, IInv, TypeOK, LimiterAssumption
<1>2. TypeOK'
  <2>1. ASSUME NEW k \in Keys, NEW j \in DOMAIN admitted[k]
        PROVE  admitted[k][j] <= clock'
    <3>1. admitted[k][j] <= clock /\ admitted[k][j] \in Nat
      BY DEF IInv, TypeOK
    <3>2. QED
      BY <1>1, <3>1
  <2>2. clock' \in 0 .. MaxClock
    BY <1>1
  <2>3. QED
    BY <1>1, <2>1, <2>2 DEF IInv, TypeOK
<1>3. DroppedExpired'
  <2> SUFFICES ASSUME NEW k \in Keys, NEW i \in 1 .. dropped[k]
               PROVE  admitted[k][i] + Ticks(k) <= clock'
    BY <1>1 DEF DroppedExpired, Expired, Ticks
  <2>1. admitted[k][i] \in Nat
    BY DEF IInv, TypeOK
  <2>2. admitted[k][i] + Ticks(k) <= clock
    BY DEF IInv, DroppedExpired, Expired
  <2>3. QED
    BY <1>1, <2>1, <2>2, TicksType
<1>4. WindowBound' /\ RoomAtLast'
  BY <1>1 DEF IInv, WindowBound, RoomAtLast, Ticks
<1>5. QED
  BY <1>2, <1>3, <1>4 DEF IInv

(* Popping keeps what is dropped expired.                                  *)
LEMMA PoppingExpired ==
  ASSUME IInv, NEW r
  PROVE  /\ Popping(r) \in [Keys -> Nat]
         /\ \A k \in Keys : /\ Popping(r)[k] <= Len(admitted[k])
                            /\ \A i \in 1 .. Popping(r)[k] : Expired(k, i)
<1>1. ASSUME NEW k \in Keys
      PROVE  /\ Popping(r)[k] \in Nat
             /\ Popping(r)[k] <= Len(admitted[k])
             /\ \A i \in 1 .. Popping(r)[k] : Expired(k, i)
  <2>1. Popping(r)[k] = IF k \in r THEN Popped(k) ELSE dropped[k]
    BY DEF Popping
  <2>2. /\ admitted[k] \in Seq(Nat) /\ dropped[k] \in Nat
        /\ dropped[k] <= Len(admitted[k])
    BY DEF IInv, TypeOK
  <2>3. CASE k \in r
    <3>1. /\ Popped(k) \in 0 .. Len(admitted[k])
          /\ \A i \in DOMAIN admitted[k] : i <= Popped(k) <=> Expired(k, i)
      BY PoppedAreExpired DEF IInv
    <3>2. QED
      BY <2>1, <2>2, <2>3, <3>1
  <2>4. CASE k \notin r
    BY <2>1, <2>2, <2>4 DEF IInv, DroppedExpired
  <2>5. QED
    BY <2>3, <2>4
<1>2. QED
  BY <1>1 DEF Popping

LEMMA RefuseStep ==
  ASSUME IInv, NEW r \in Requests, Refuse(r)
  PROVE  IInv'
<1>1. PICK k \in r :
        /\ Full(k)
        /\ \A j \in r : Full(j) => BackOff(j) <= BackOff(k)
        /\ refusal' = [keys |-> r, until |-> clock + BackOff(k)]
  BY DEF Refuse
<1>2. r \subseteq Keys /\ k \in Keys
  BY LimiterAssumption DEF LimiterAssumption
<1>3. dropped' = Popping(r) /\ UNCHANGED <<clock, admitted, checks>>
  BY DEF Refuse
<1>4. BackOff(k) \in Nat /\ clock \in Nat
  BY <1>1, <1>2, BackOffReaches DEF IInv, TypeOK
<1>5. TypeOK'
  <2>1. refusal' \in [keys : Requests, until : Nat]
    BY <1>1, <1>4
  <2>2. QED
    BY <1>3, <2>1, PoppingExpired DEF IInv, TypeOK
<1>6. DroppedExpired'
  BY <1>3, PoppingExpired DEF DroppedExpired, Expired, Ticks
<1>7. WindowBound'
  BY <1>3 DEF IInv, WindowBound, Ticks
<1>8. RoomAtLast'
  <2> SUFFICES ASSUME NEW j \in r, Len(admitted[j]) >= Limit[j]
               PROVE  admitted[j][Len(admitted[j]) + 1 - Limit[j]] + Ticks(j)
                        <= clock + BackOff(k)
    BY <1>1, <1>3 DEF RoomAtLast, Ticks
  <2> DEFINE last == Len(admitted[j]) + 1 - Limit[j]
  <2>1. j \in Keys /\ Limit[j] \in Nat \ {0} /\ Ticks(j) \in Nat
    BY <1>2, TicksType
  <2>2. last \in DOMAIN admitted[j] /\ admitted[j][last] \in Nat
    BY <2>1 DEF IInv, TypeOK
  <2>3. CASE Full(j)
    <3>1. BackOff(j) \in Nat
          /\ admitted[j][last] + Ticks(j) <= clock + BackOff(j)
      BY <2>1, <2>3, BackOffReaches DEF IInv
    <3>2. BackOff(j) <= BackOff(k)
      BY <1>1, <2>3
    <3>3. QED
      BY <1>4, <2>1, <2>2, <3>1, <3>2
  <2>4. CASE ~Full(j)
    <3>1. Expired(j, last)
      BY <2>1, <2>4, FullDeque DEF IInv
    <3>2. QED
      BY <1>4, <2>1, <2>2, <3>1 DEF Expired
  <2>5. QED
    BY <2>3, <2>4
<1>9. QED
  BY <1>5, <1>6, <1>7, <1>8 DEF IInv

(* A clean-up takes no instant that is still in its window.                *)
LEMMA CleanedUpExpired ==
  ASSUME IInv, NEW r
  PROVE  /\ CleanedUp(r) \in [Keys -> Nat]
         /\ \A k \in Keys : /\ CleanedUp(r)[k] <= Len(admitted[k])
                            /\ \A i \in 1 .. CleanedUp(r)[k] : Expired(k, i)
<1>1. ASSUME NEW k \in Keys
      PROVE  /\ CleanedUp(r)[k] \in Nat
             /\ CleanedUp(r)[k] <= Len(admitted[k])
             /\ \A i \in 1 .. CleanedUp(r)[k] : Expired(k, i)
  <2> DEFINE n == Len(admitted[k])
             d == Popping(r)[k]
  <2>1. CleanedUp(r)[k] = IF k \notin r /\ Stale(k, d) THEN n ELSE d
    BY DEF CleanedUp
  <2>2. n \in Nat /\ clock \in Nat /\ admitted[k] \in Seq(Nat)
    BY DEF IInv, TypeOK
  <2>3. d \in Nat /\ d <= n /\ \A i \in 1 .. d : Expired(k, i)
    BY PoppingExpired
  <2> HIDE DEF d
  <2>4. CASE ~(k \notin r /\ Stale(k, d)) \/ d = n
    BY <2>1, <2>2, <2>3, <2>4
  <2>5. CASE k \notin r /\ Stale(k, d) /\ d # n
    <3>1. n \in 1 .. n /\ d < n
      BY <2>2, <2>3, <2>5
    <3>2. admitted[k][n] + StaleAge * Second <= clock
      BY <2>5, <3>1 DEF Stale
    <3>3. ASSUME NEW i \in 1 .. n
          PROVE  Expired(k, i)
      <4>1. /\ admitted[k][i] \in Nat /\ admitted[k][n] \in Nat
            /\ admitted[k][i] <= admitted[k][n]
        BY <3>1, InstantsOrdered DEF IInv
      <4>2. Ticks(k) \in Nat /\ Ticks(k) <= StaleAge * Second
            /\ StaleAge * Second \in Nat
        BY TicksType
      <4>3. QED
        BY <2>2, <3>2, <4>1, <4>2 DEF Expired
    <3>4. QED
      BY <2>1, <2>2, <2>5, <3>3
  <2>6. QED
    BY <2>4, <2>5
<1>2. QED
  BY <1>1 DEF CleanedUp

LEMMA AdmitStep ==
  ASSUME IInv, NEW r \in Requests, Admit(r)
  PROVE  IInv'
<1>1. /\ \A k \in r : ~Full(k)
      /\ admitted' = [k \in Keys |-> IF k \in r THEN Append(admitted[k], clock)
                                     ELSE admitted[k]]
      /\ checks' = NextCheck
      /\ dropped' = IF checks' = 0 THEN CleanedUp(r) ELSE Popping(r)
      /\ refusal' = IF refusal # None /\ refusal.keys \cap r # {} THEN None
                    ELSE refusal
      /\ clock' = clock
  BY DEF Admit, Charged
<1>2. /\ clock \in 0 .. MaxClock /\ clock \in Nat
      /\ checks \in 0 .. Period - 1
      /\ refusal \in {None} \cup [keys : Requests, until : Nat]
      /\ MaxClock \in Nat /\ Period \in Nat \ {0}
  BY LimiterAssumption DEF IInv, TypeOK, LimiterAssumption
<1>3. ASSUME NEW k \in Keys
      PROVE  /\ admitted[k] \in Seq(Nat) /\ Len(admitted[k]) \in Nat
             /\ admitted'[k] \in Seq(Nat)
             /\ \A i \in 1 .. Len(admitted[k]) :
                  admitted'[k][i] = admitted[k][i]
             /\ k \in r => /\ Len(admitted'[k]) = Len(admitted[k]) + 1
                           /\ admitted'[k][Len(admitted[k]) + 1] = clock
             /\ k \notin r => admitted'[k] = admitted[k]
  <2>1. admitted[k] \in Seq(Nat)
    BY DEF IInv, TypeOK
  <2>2. admitted'[k] = IF k \in r THEN Append(admitted[k], clock)
                       ELSE admitted[k]
    BY <1>1
  <2>3. QED
    BY <1>2, <2>1, <2>2
<1>4. /\ dropped' \in [Keys -> Nat]
      /\ \A k \in Keys : /\ dropped'[k] <= Len(admitted[k])
                         /\ \A i \in 1 .. dropped'[k] : Expired(k, i)
  BY <1>1, PoppingExpired, CleanedUpExpired
<1>5. TypeOK'
  <2>1. ASSUME NEW k \in Keys, NEW j \in DOMAIN admitted'[k]
        PROVE  /\ admitted'[k][j] <= clock
               /\ \A i \in 1 .. j : admitted'[k][i] <= admitted'[k][j]
    <3> DEFINE n == Len(admitted[k])
    <3>1. /\ n \in Nat
          /\ \A i \in 1 .. n : admitted'[k][i] = admitted[k][i]
          /\ \A i \in 1 .. n : admitted[k][i] \in Nat /\ admitted[k][i] <= clock
          /\ \A h \in 1 .. n : \A i \in 1 .. h : admitted[k][i] <= admitted[k][h]
      BY <1>3, InstantsOrdered DEF IInv
    <3>2. j \in 1 .. n \/ (j = n + 1 /\ admitted'[k][n + 1] = clock)
      BY <1>3
    <3> HIDE DEF n
    <3>3. CASE j \in 1 .. n
      <4>1. ASSUME NEW i \in 1 .. j
            PROVE  i \in 1 .. n /\ admitted'[k][i] <= admitted'[k][j]
        <5>1. i \in 1 .. n
          BY <3>1, <3>3
        <5>2. QED
          BY <3>1, <3>3, <5>1
      <4>2. QED
        BY <3>1, <3>3, <4>1
    <3>4. CASE j = n + 1 /\ admitted'[k][n + 1] = clock
      <4>1. ASSUME NEW i \in 1 .. j
            PROVE  admitted'[k][i] <= clock
        <5>1. i \in 1 .. n \/ i = n + 1
          BY <3>1, <3>4
        <5>2. QED
          BY <1>2, <3>1, <3>4, <5>1
      <4>2. QED
        BY <1>2, <3>4, <4>1
    <3>5. QED
      BY <3>2, <3>3, <3>4
  <2>2. \A k \in Keys : dropped'[k] <= Len(admitted'[k])
    BY <1>3, <1>4
  <2>3. checks' \in 0 .. Period - 1
    BY <1>1, <1>2 DEF NextCheck
  <2>4. refusal' \in {None} \cup [keys : Requests, until : Nat]
    BY <1>1, <1>2
  <2>5. admitted' \in [Keys -> Seq(Nat)]
    BY <1>1, <1>3
  <2>6. QED
    BY <1>1, <1>2, <1>4, <2>1, <2>2, <2>3, <2>4, <2>5 DEF TypeOK
<1>6. DroppedExpired'
  <2> SUFFICES ASSUME NEW k \in Keys, NEW i \in 1 .. dropped'[k]
               PROVE  admitted'[k][i] + Ticks(k) <= clock
    BY <1>1 DEF DroppedExpired, Expired, Ticks
  <2>1. i \in 1 .. Len(admitted[k]) /\ Expired(k, i)
    BY <1>3, <1>4
  <2>2. QED
    BY <1>3, <2>1 DEF Expired
<1>7. WindowBound'
  <2> SUFFICES ASSUME NEW k \in Keys,
                      NEW i \in 1 .. Len(admitted'[k]) - Limit[k]
               PROVE  admitted'[k][i] + Ticks(k) <= admitted'[k][i + Limit[k]]
    BY DEF WindowBound, Ticks
  <2> DEFINE n == Len(admitted[k])
  <2>1. Limit[k] \in Nat \ {0} /\ i \in Nat /\ i >= 1
    BY <1>3, TicksType
  <2>2. /\ n \in Nat
        /\ \A j \in 1 .. n : admitted'[k][j] = admitted[k][j]
        /\ i + Limit[k] <= Len(admitted'[k])
        /\ \/ Len(admitted'[k]) = n
           \/ /\ k \in r /\ Len(admitted'[k]) = n + 1
              /\ admitted'[k][n + 1] = clock
    BY <1>3, <2>1
  <2>3. CASE i + Limit[k] <= n
    <3>1. i \in 1 .. n - Limit[k]
      BY <2>1, <2>2, <2>3
    <3>2. admitted[k][i] + Ticks(k) <= admitted[k][i + Limit[k]]
      BY <3>1 DEF IInv, WindowBound
    <3> HIDE DEF n
    <3>3. i \in 1 .. n /\ i + Limit[k] \in 1 .. n
      BY <2>1, <2>2, <2>3
    <3>4. QED
      BY <2>2, <3>2, <3>3
  <2>4. CASE i + Limit[k] > n
    <3>1. /\ k \in r /\ i + Limit[k] = n + 1
          /\ admitted'[k][i + Limit[k]] = clock
      BY <2>1, <2>2, <2>4
    <3>2. n >= Limit[k] /\ i = n + 1 - Limit[k] /\ i \in 1 .. n
      BY <2>1, <2>2, <3>1
    <3>3. ~Full(k)
      BY <1>1, <3>1
    <3>4. Full(k) <=> ~Expired(k, i)
      BY <3>2, FullDeque DEF IInv
    <3>5. admitted[k][i] + Ticks(k) <= clock
      BY <3>3, <3>4 DEF Expired
    <3>6. QED
      BY <2>2, <3>1, <3>2, <3>5
  <2>5. QED
    BY <2>1, <2>2, <2>3, <2>4
<1>8. RoomAtLast'
  <2> SUFFICES ASSUME refusal' # None, NEW k \in refusal'.keys,
                      Len(admitted'[k]) >= Limit[k]
               PROVE  admitted'[k][Len(admitted'[k]) + 1 - Limit[k]] + Ticks(k)
                        <= refusal'.until
    BY DEF RoomAtLast, Ticks
  <2>1. refusal' = refusal /\ refusal # None /\ k \notin r
    BY <1>1
  <2>2. refusal.keys \in Requests /\ k \in Keys
    BY <1>2, <2>1, LimiterAssumption DEF LimiterAssumption
  <2>3. QED
    BY <1>3, <2>1, <2>2 DEF IInv, RoomAtLast
<1>9. QED
  BY <1>5, <1>6, <1>7, <1>8 DEF IInv

LEMMA NextIInv == IInv /\ [Next]_vars => IInv'
<1> SUFFICES ASSUME IInv, [Next]_vars PROVE IInv'
  OBVIOUS
<1>1. CASE Tick
  BY <1>1, TickStep
<1>2. ASSUME NEW r \in Requests, Enforce(r)
      PROVE  IInv'
  BY <1>2, RefuseStep, AdmitStep DEF Enforce
<1>3. CASE UNCHANGED vars
  BY <1>3 DEF vars, IInv, TypeOK, DroppedExpired, WindowBound, RoomAtLast,
              Expired, Ticks
<1>4. QED
  BY <1>1, <1>2, <1>3 DEF Next

-----------------------------------------------------------------------------
(* The theorems.                                                           *)

(* The invariant of the limiter holds in every reachable state.            *)
THEOREM Invariance == Spec => []IInv
BY InitIInv, NextIInv, PTL DEF Spec

(* The deques of the limiter (enforce) keep their types: the instants of a *)
(* key are in order, and none is ahead of the clock.                       *)
THEOREM TypeCorrect == Spec => []TypeOK
<1>1. IInv => TypeOK
  BY DEF IInv
<1>2. QED
  BY <1>1, Invariance, PTL

(* No window of a key holds more admitted requests than its limit, whatever*)
(* enforce pops and cleans up.                                             *)
THEOREM WindowsBounded == Spec => []WindowBound
<1>1. IInv => WindowBound
  BY DEF IInv
<1>2. QED
  BY <1>1, Invariance, PTL

(* After the Retry-After of a refused request each of its keys has room,   *)
(* unless another request was admitted with one of them.                   *)
THEOREM WaitingSuffices == Spec => []RetryAfterSuffices
<1>1. IInv => RetryAfterSuffices
  <2> SUFFICES ASSUME IInv, refusal # None, clock >= refusal.until,
                      NEW k \in refusal.keys, Full(k)
               PROVE  FALSE
    BY DEF RetryAfterSuffices
  <2> DEFINE last == Len(admitted[k]) + 1 - Limit[k]
  <2>1. refusal.keys \in Requests /\ refusal.until \in Nat /\ clock \in Nat
    BY DEF IInv, TypeOK
  <2>2. k \in Keys
    BY <2>1, LimiterAssumption DEF LimiterAssumption
  <2>3. Len(admitted[k]) >= Limit[k] /\ ~Expired(k, last)
    BY <2>2, FullDeque DEF IInv
  <2>4. admitted[k][last] + Ticks(k) <= refusal.until
    BY <2>3 DEF IInv, RoomAtLast
  <2>5. last \in 1 .. Len(admitted[k])
    BY <2>2, <2>3, TicksType DEF IInv, TypeOK
  <2> HIDE DEF last
  <2>6. admitted[k][last] \in Nat /\ Ticks(k) \in Nat
    BY <2>2, <2>5, InstantsOrdered, TicksType DEF IInv
  <2>7. QED
    BY <2>1, <2>3, <2>4, <2>6 DEF Expired
<1>2. QED
  BY <1>1, Invariance, PTL

(* enforce refuses a request only when one of its keys was admitted Limit  *)
(* times within its window.                                                *)
THEOREM RefusalsDue == Spec => RefusalIsDue
<1> DEFINE Due(r) ==
      Refuse(r) => \E k \in r :
        /\ Len(admitted[k]) >= Limit[k]
        /\ admitted[k][Len(admitted[k]) + 1 - Limit[k]] + Ticks(k) > clock
<1>1. IInv => \A r \in Requests : Due(r)
  <2> SUFFICES ASSUME IInv, NEW r \in Requests, Refuse(r)
               PROVE  \E k \in r :
                        /\ Len(admitted[k]) >= Limit[k]
                        /\ admitted[k][Len(admitted[k]) + 1 - Limit[k]]
                             + Ticks(k) > clock
    OBVIOUS
  <2>1. PICK k \in r : Full(k)
    BY DEF Refuse
  <2> DEFINE last == Len(admitted[k]) + 1 - Limit[k]
  <2>2. k \in Keys
    BY LimiterAssumption DEF LimiterAssumption
  <2>3. Len(admitted[k]) >= Limit[k] /\ ~Expired(k, last)
    BY <2>1, <2>2, FullDeque DEF IInv
  <2>4. last \in 1 .. Len(admitted[k])
    BY <2>2, <2>3, TicksType DEF IInv, TypeOK
  <2> HIDE DEF last
  <2>5. admitted[k][last] \in Nat /\ Ticks(k) \in Nat /\ clock \in Nat
    BY <2>2, <2>4, InstantsOrdered, TicksType DEF IInv, TypeOK
  <2>6. admitted[k][last] + Ticks(k) > clock
    BY <2>3, <2>5 DEF Expired
  <2>7. QED
    BY <2>3, <2>6 DEF last
<1>2. IInv => [\A r \in Requests : Due(r)]_vars
  BY <1>1
<1>3. QED
  BY <1>2, Invariance, PTL DEF RefusalIsDue
=============================================================================
