------------------------- MODULE AiUsageQuotaProofs -------------------------
(***************************************************************************)
(* Proofs about AiUsageQuota, for every value of its constants: whatever   *)
(* the order in which reservations read their clocks, get the lock and     *)
(* commit, no hour and no day holds more units than its limit.             *)
(***************************************************************************)
EXTENDS AiUsageQuota, FiniteSetTheorems, TLAPS

-----------------------------------------------------------------------------
(* Days and units.                                                         *)

(* An instant lies in its day.                                             *)
LEMMA DayBounds ==
  ASSUME NEW t \in Nat
  PROVE  /\ DayOf(t) \in Nat /\ DayStart(t) \in Nat
         /\ DayStart(t) <= t /\ t < DayStart(t) + Day
BY QuotaAssumption DEF QuotaAssumption, DayOf, DayStart

(* The units of the rows I of the sequence h.                              *)
UnitsIn(h, I) == {p \in I \X (1 .. MaxUnits) : p[2] <= h[p[1]].units}

(* There are finitely many units, and fewer in a subset.                   *)
LEMMA UnitsFinite ==
  ASSUME NEW h \in Seq(Row), NEW I, I \subseteq DOMAIN h,
         NEW J, J \subseteq I
  PROVE  /\ IsFiniteSet(UnitsIn(h, I))
         /\ Cardinality(UnitsIn(h, I)) \in Nat
         /\ Cardinality(UnitsIn(h, J)) \in Nat
         /\ Cardinality(UnitsIn(h, J)) <= Cardinality(UnitsIn(h, I))
<1>1. IsFiniteSet(1 .. Len(h)) /\ IsFiniteSet(1 .. MaxUnits)
  BY FS_Interval, QuotaAssumption DEF QuotaAssumption
<1>2. IsFiniteSet(I)
  BY <1>1, FS_Subset
<1>3. IsFiniteSet(I \X (1 .. MaxUnits))
  BY <1>1, <1>2, FS_Product
<1>4. UnitsIn(h, I) \subseteq I \X (1 .. MaxUnits)
  BY DEF UnitsIn
<1>5. UnitsIn(h, J) \subseteq UnitsIn(h, I)
  BY DEF UnitsIn
<1>6. IsFiniteSet(UnitsIn(h, I))
  BY <1>3, <1>4, FS_Subset
<1>7. QED
  BY <1>5, <1>6, FS_Subset, FS_CardinalityType

(* A row that is appended does not change the units of the others.         *)
LEMMA UnitsKept ==
  ASSUME NEW h \in Seq(Row), NEW r \in Row, NEW I, I \subseteq DOMAIN h
  PROVE  UnitsIn(Append(h, r), I) = UnitsIn(h, I)
BY DEF UnitsIn

(* A row of n units has n units.                                           *)
LEMMA UnitsOfOne ==
  ASSUME NEW h \in Seq(Row), NEW i \in DOMAIN h
  PROVE  /\ IsFiniteSet(UnitsIn(h, {i}))
         /\ Cardinality(UnitsIn(h, {i})) = h[i].units
<1>1. h[i].units \in 1 .. MaxUnits /\ h[i].units \in Nat
  <2>1. h[i] \in Row
    OBVIOUS
  <2>2. QED
    BY <2>1, QuotaAssumption DEF Row, QuotaAssumption
<1>2. UnitsIn(h, {i}) = {i} \X (1 .. h[i].units)
  BY <1>1, QuotaAssumption DEF UnitsIn, QuotaAssumption
<1>3. IsFiniteSet({i}) /\ Cardinality({i}) = 1
  BY FS_Singleton
<1>4. IsFiniteSet(1 .. h[i].units) /\ Cardinality(1 .. h[i].units) = h[i].units
  <2> DEFINE n == h[i].units
  <2>1. n \in Nat /\ n >= 1 /\ 1 \in Int /\ n \in Int
    BY <1>1, QuotaAssumption DEF QuotaAssumption
  <2> HIDE DEF n
  <2>2. IsFiniteSet(1 .. n) /\ Cardinality(1 .. n) = IF 1 > n THEN 0 ELSE n - 1 + 1
    BY <2>1, FS_Interval
  <2>3. IsFiniteSet(1 .. n) /\ Cardinality(1 .. n) = n
    BY <2>1, <2>2
  <2>4. QED
    BY <2>3 DEF n
<1>5. /\ IsFiniteSet({i} \X (1 .. h[i].units))
      /\ Cardinality({i} \X (1 .. h[i].units)) = h[i].units
  <2>1. Cardinality({i} \X (1 .. h[i].units))
          = Cardinality({i}) * Cardinality(1 .. h[i].units)
    BY <1>3, <1>4, FS_Product
  <2>2. 1 * h[i].units = h[i].units
    BY <1>1
  <2>3. IsFiniteSet({i} \X (1 .. h[i].units))
    BY <1>3, <1>4, FS_Product
  <2>4. QED
    BY <1>3, <1>4, <2>1, <2>2, <2>3
<1>6. QED
  BY <1>1, <1>2, <1>5

(* The heart of the bounds: if the rows W are among the rows K that were   *)
(* counted, and the row r fits beside K, then W and r are within the limit.*)
LEMMA RowFits ==
  ASSUME NEW h \in Seq(Row), NEW r \in Row, NEW K, K \subseteq DOMAIN h,
         NEW W, W \subseteq K, NEW limit \in Nat,
         Cardinality(UnitsIn(h, K)) + r.units <= limit
  PROVE  Cardinality(UnitsIn(Append(h, r), W \cup {Len(h) + 1})) <= limit
<1> DEFINE g == Append(h, r)
           n == Len(h) + 1
<1>1. g \in Seq(Row) /\ n \in DOMAIN g /\ g[n] = r /\ DOMAIN h \subseteq DOMAIN g
  OBVIOUS
<1>2. UnitsIn(g, W \cup {n}) = UnitsIn(g, W) \cup UnitsIn(g, {n})
  BY DEF UnitsIn
<1>3. /\ IsFiniteSet(UnitsIn(h, W))
      /\ Cardinality(UnitsIn(h, W)) \in Nat
      /\ Cardinality(UnitsIn(h, K)) \in Nat
      /\ Cardinality(UnitsIn(h, W)) <= Cardinality(UnitsIn(h, K))
  BY UnitsFinite
<1>4. UnitsIn(g, W) = UnitsIn(h, W)
  BY UnitsKept
<1>5. IsFiniteSet(UnitsIn(g, {n})) /\ Cardinality(UnitsIn(g, {n})) = r.units
  BY <1>1, UnitsOfOne
<1>6. r.units \in Nat
  BY DEF Row
<1>7. Cardinality(UnitsIn(g, W) \cup UnitsIn(g, {n}))
        <= Cardinality(UnitsIn(g, W)) + Cardinality(UnitsIn(g, {n}))
  <2>1. Cardinality(UnitsIn(g, W) \cap UnitsIn(g, {n})) \in Nat
    BY <1>3, <1>4, FS_Intersection, FS_CardinalityType
  <2>2. Cardinality(UnitsIn(g, W) \cup UnitsIn(g, {n}))
          = Cardinality(UnitsIn(g, W)) + Cardinality(UnitsIn(g, {n}))
              - Cardinality(UnitsIn(g, W) \cap UnitsIn(g, {n}))
    BY <1>3, <1>4, <1>5, FS_Union
  <2>3. Cardinality(UnitsIn(g, W)) \in Nat /\ Cardinality(UnitsIn(g, {n})) \in Nat
    BY <1>3, <1>4, <1>5, <1>6
  <2>4. QED
    BY <2>1, <2>2, <2>3
<1>8. Cardinality(UnitsIn(g, W \cup {n})) \in Nat
  BY <1>2, <1>3, <1>4, <1>5, FS_Union, FS_CardinalityType
<1>9. Cardinality(UnitsIn(g, W \cup {n}))
        <= Cardinality(UnitsIn(h, W)) + r.units
  BY <1>2, <1>4, <1>5, <1>7
<1>10. Cardinality(UnitsIn(g, W \cup {n})) <= limit
  <2> HIDE DEF g, n
  <2> QED
    BY <1>3, <1>6, <1>8, <1>9
<1>11. QED
  BY <1>10

-----------------------------------------------------------------------------
(* The inductive invariant.                                                *)

(* Two calls that have counted are of different users or operations.       *)
Exclusive ==
  \A c, d \in Callers :
    /\ call[c].step = "counted" /\ call[d].step = "counted"
    /\ call[c].user = call[d].user /\ call[c].op = call[d].op
    => c = d

(* What a call has counted is still what there is to count.                *)
CountsCurrent ==
  \A c \in Callers : call[c].step = "counted" =>
    LET k == call[c] IN
    /\ k.hourly = Since(RowsOf(k.user, k.op), HourStart(k.now))
    /\ k.daily  = Since(RowsOf(k.user, k.op), DayStart(k.now))

HourRows(u, o, t) == {i \in RowsOf(u, o) : history[i].at \in t .. t + Hour}
DayRows(u, o, d)  == {i \in RowsOf(u, o) : DayOf(history[i].at) = d}

(* HourlyBound and DailyBound, for instants to come as well.               *)
HourlyInv ==
  \A u \in Users, o \in Operations, t \in Nat :
    Cardinality(UnitsOf(HourRows(u, o, t))) <= HourLimit[o]

DailyInv ==
  \A u \in Users, o \in Operations, d \in Nat :
    Cardinality(UnitsOf(DayRows(u, o, d))) <= DayLimit[o]

Inv ==
  /\ TypeOK
  /\ RecentRowsStored
  /\ Exclusive
  /\ CountsCurrent
  /\ HourlyInv
  /\ DailyInv

(* The rows of the table are typed.                                        *)
LEMMA RowsTyped ==
  ASSUME TypeOK, NEW i \in DOMAIN history
  PROVE  /\ history[i] \in Row
         /\ history[i].at \in Nat /\ history[i].at <= clock
<1>1. history \in Seq(Row)
  BY DEF TypeOK
<1>2. history[i] \in Row
  BY <1>1
<1>3. QED
  BY <1>2 DEF Row, TypeOK

(* The empty table satisfies the invariant.                                *)
LEMMA InvInit ==
  ASSUME Init
  PROVE  Inv
<1>1. TypeOK
  BY QuotaAssumption DEF Init, TypeOK, Call, IdleCall, Codes, QuotaAssumption
<1>2. RecentRowsStored /\ Exclusive /\ CountsCurrent
  BY DEF Init, RecentRowsStored, Exclusive, CountsCurrent, IdleCall
<1>3. \A I : I \subseteq DOMAIN history => UnitsOf(I) = {}
  BY DEF Init, UnitsOf
<1>4. Cardinality({}) = 0
  BY FS_EmptySet
<1>5. \A o \in Operations : HourLimit[o] \in Nat /\ DayLimit[o] \in Nat
  BY QuotaAssumption DEF QuotaAssumption
<1>6. \A u, o, t : HourRows(u, o, t) \subseteq DOMAIN history /\
                   DayRows(u, o, t) \subseteq DOMAIN history
  BY DEF HourRows, DayRows, RowsOf
<1>7. HourlyInv /\ DailyInv
  <2>1. ASSUME NEW u \in Users, NEW o \in Operations, NEW t \in Nat
        PROVE  /\ Cardinality(UnitsOf(HourRows(u, o, t))) <= HourLimit[o]
               /\ Cardinality(UnitsOf(DayRows(u, o, t))) <= DayLimit[o]
    <3>1. UnitsOf(HourRows(u, o, t)) = {} /\ UnitsOf(DayRows(u, o, t)) = {}
      BY <1>3, <1>6
    <3>2. QED
      BY <3>1, <1>4, <1>5
  <2>2. QED
    BY <2>1 DEF HourlyInv, DailyInv
<1>8. QED
  BY <1>1, <1>2, <1>7 DEF Inv

(* A step that keeps the rows keeps the sums over them.                    *)
LEMMA SameRows ==
  ASSUME HourlyInv, DailyInv, UNCHANGED history
  PROVE  HourlyInv' /\ DailyInv'
<1>1. \A u, o, t : /\ UnitsOf(HourRows(u, o, t))' = UnitsOf(HourRows(u, o, t))
                   /\ UnitsOf(DayRows(u, o, t))' = UnitsOf(DayRows(u, o, t))
  BY DEF HourRows, DayRows, UnitsOf, RowsOf, DayOf
<1>2. HourlyInv'
  BY <1>1 DEF HourlyInv
<1>3. DailyInv'
  BY <1>1 DEF DailyInv
<1>4. QED
  BY <1>2, <1>3

(* What a call counts when it gets the lock is all there is in its hour    *)
(* and in its day: the purge has spared it.                                *)
LEMMA CountIsComplete ==
  ASSUME TypeOK, RecentRowsStored, NEW c \in Callers, call[c].step = "waiting"
  PROVE  LET k == call[c] IN
         /\ Since(Counted(k), HourStart(k.now)) =
              Since(RowsOf(k.user, k.op), HourStart(k.now))
         /\ Since(Counted(k), DayStart(k.now)) =
              Since(RowsOf(k.user, k.op), DayStart(k.now))
<1> DEFINE k == call[c]
<1>1. k.now \in Nat /\ clock \in Nat /\ clock <= k.now + MaxWait
  BY DEF TypeOK, Call
<1>2. DayStart(k.now) \in Nat /\ k.now < DayStart(k.now) + Day
  BY <1>1, DayBounds
<1>3. ASSUME NEW i \in DOMAIN history,
             history[i].at >= HourStart(k.now) \/ history[i].at >= DayStart(k.now)
      PROVE  i \in stored \ Purged(k)
  <2>1. history[i].at \in Nat
    BY RowsTyped
  <2>2. history[i].at + Retention >= clock /\ history[i].at + Retention >= k.now
    BY <1>1, <1>2, <1>3, <2>1, QuotaAssumption DEF HourStart, QuotaAssumption
  <2>3. ~(history[i].at + Retention < k.now)
    BY <1>1, <2>1, <2>2, QuotaAssumption DEF QuotaAssumption
  <2>4. QED
    BY <2>2, <2>3 DEF RecentRowsStored, Purged
<1>4. stored \subseteq DOMAIN history
  BY DEF TypeOK
<1>5. QED
  BY <1>3, <1>4 DEF Since, Counted, RowsOf

-----------------------------------------------------------------------------
(* Each action preserves the invariant.                                    *)

(* A record of a call with a few fields replaced is typed.                 *)
LEMMA IdleTyped == IdleCall \in Call /\ IdleCall.step = "idle"
BY QuotaAssumption DEF IdleCall, Call, QuotaAssumption

(* A caller that is answered leaves nothing behind.                        *)
LEMMA AnswerStep ==
  ASSUME TypeOK, Exclusive, CountsCurrent, NEW c \in Callers,
         NEW code \in Codes, Answer(c, code), UNCHANGED <<clock, history>>
  PROVE  /\ call' \in [Callers -> Call] /\ resp' \in [Callers -> Codes]
         /\ \A d \in Callers : call'[d].step # "idle" => call'[d] = call[d]
         /\ Exclusive' /\ CountsCurrent'
<1>1. call' = [call EXCEPT ![c] = IdleCall] /\ resp' = [resp EXCEPT ![c] = code]
  BY DEF Answer
<1>2. call' \in [Callers -> Call] /\ resp' \in [Callers -> Codes]
  BY <1>1, IdleTyped DEF TypeOK
<1>3. \A d \in Callers : call'[d].step # "idle" => call'[d] = call[d]
  BY <1>1, IdleTyped DEF TypeOK
<1>4. Exclusive'
  BY <1>3 DEF Exclusive
<1>5. CountsCurrent'
  BY <1>3 DEF CountsCurrent, Since, RowsOf, HourStart, DayStart, DayOf
<1>6. QED
  BY <1>2, <1>3, <1>4, <1>5

(* A call that starts, and one that is refused at once.                    *)
LEMMA BeginStep ==
  ASSUME Inv, NEW c \in Callers, Begin(c)
  PROVE  Inv'
<1> USE DEF Inv
<1>1. UNCHANGED <<clock, history, stored, active, faults>>
  BY DEF Begin
<1>2. RecentRowsStored' /\ HourlyInv' /\ DailyInv'
  BY <1>1, SameRows DEF RecentRowsStored
<1>3. CASE \E code \in Codes : Answer(c, code)
  <2>1. PICK code \in Codes : Answer(c, code)
    BY <1>3
  <2>2. QED
    BY <1>1, <1>2, <2>1, AnswerStep DEF TypeOK
<1>4. ASSUME NEW u \in Users, NEW o \in Operations, NEW n \in 1 .. MaxUnits,
             call' = [call EXCEPT ![c] =
                        [IdleCall EXCEPT !.step = "waiting", !.user = u,
                                         !.op = o, !.units = n, !.now = clock]],
             resp' = [resp EXCEPT ![c] = "none"]
      PROVE  Inv'
  <2> DEFINE k == [IdleCall EXCEPT !.step = "waiting", !.user = u,
                                   !.op = o, !.units = n, !.now = clock]
  <2>1. clock \in Nat /\ clock <= clock + MaxWait
    BY QuotaAssumption DEF TypeOK, QuotaAssumption
  <2>2. k \in Call /\ k.step = "waiting" /\ k.user = u /\ k.op = o
        /\ k.units = n /\ k.now = clock /\ k.hourly = {} /\ k.daily = {}
    <3>1. IdleCall \in Call /\ IdleCall.hourly = {} /\ IdleCall.daily = {}
      BY IdleTyped DEF IdleCall
    <3>2. n \in 0 .. MaxUnits
      BY QuotaAssumption DEF QuotaAssumption
    <3>3. QED
      BY <2>1, <3>1, <3>2 DEF Call
  <2> HIDE DEF k
  <2>3. call' = [call EXCEPT ![c] = k]
    BY <1>4 DEF k
  <2>4. /\ call'[c] = k
        /\ \A d \in Callers : d # c => call'[d] = call[d]
        /\ call' \in [Callers -> Call]
    BY <2>2, <2>3 DEF TypeOK
  <2>5. resp' \in [Callers -> Codes]
    BY <1>4 DEF TypeOK, Codes
  <2>6. TypeOK'
    BY <1>1, <2>1, <2>2, <2>4, <2>5 DEF TypeOK
  <2>7. Exclusive'
    BY <2>2, <2>4 DEF Exclusive
  <2>8. CountsCurrent'
    BY <1>1, <2>2, <2>4 DEF CountsCurrent, Since, RowsOf, HourStart, DayStart, DayOf
  <2>9. QED
    BY <1>2, <2>6, <2>7, <2>8
<1>5. QED
  BY <1>3, <1>4 DEF Begin, Codes, ValidUnits, TypeOK

(* A call that gets the lock and counts.                                   *)
LEMMA CountStep ==
  ASSUME Inv, NEW c \in Callers, CountUsage(c)
  PROVE  Inv'
<1> USE DEF Inv
<1> DEFINE k == call[c]
           m == call'[c]
<1>1. UNCHANGED <<clock, history, stored, active, resp, faults>>
      /\ k.step = "waiting" /\ Unlocked(k)
  BY DEF CountUsage
<1>2. RecentRowsStored' /\ HourlyInv' /\ DailyInv'
  BY <1>1, SameRows DEF RecentRowsStored
<1>3. k \in Call /\ k.user \in Users /\ k.op \in Operations
  BY <1>1 DEF TypeOK
<1>4. /\ m.step = "counted"
      /\ m.hourly = Since(RowsOf(k.user, k.op), HourStart(k.now))
      /\ m.daily = Since(RowsOf(k.user, k.op), DayStart(k.now))
      /\ m.user = k.user /\ m.op = k.op /\ m.units = k.units /\ m.now = k.now
      /\ \A d \in Callers : d # c => call'[d] = call[d]
  BY <1>1, <1>3, CountIsComplete DEF CountUsage, TypeOK, Call
<1>5. /\ Since(RowsOf(k.user, k.op), HourStart(k.now)) \subseteq DOMAIN history
      /\ Since(RowsOf(k.user, k.op), DayStart(k.now)) \subseteq DOMAIN history
      /\ DOMAIN history \subseteq Nat
  BY DEF Since, RowsOf, TypeOK
<1>6. call' \in [Callers -> Call]
  <2>1. call' = [call EXCEPT ![c] =
                   [k EXCEPT !.step = "counted",
                             !.hourly = Since(Counted(k), HourStart(k.now)),
                             !.daily = Since(Counted(k), DayStart(k.now))]]
    BY <1>3 DEF CountUsage, TypeOK, Call
  <2>2. /\ Since(Counted(k), HourStart(k.now)) \in SUBSET Nat
        /\ Since(Counted(k), DayStart(k.now)) \in SUBSET Nat
    BY <1>1, <1>5, CountIsComplete
  <2>3. [k EXCEPT !.step = "counted",
                  !.hourly = Since(Counted(k), HourStart(k.now)),
                  !.daily = Since(Counted(k), DayStart(k.now))] \in Call
    BY <1>3, <2>2 DEF Call
  <2>4. QED
    BY <2>1, <2>3 DEF TypeOK
<1>7. TypeOK'
  BY <1>1, <1>3, <1>4, <1>5, <1>6 DEF TypeOK
<1>8. Exclusive'
  BY <1>1, <1>4 DEF Exclusive, Unlocked
<1>9. CountsCurrent'
  BY <1>1, <1>4 DEF CountsCurrent, Since, RowsOf, HourStart, DayStart, DayOf
<1>10. QED
  BY <1>2, <1>7, <1>8, <1>9

(* A row that is committed fits in every hour and every day it belongs to. *)
LEMMA CommitStep ==
  ASSUME Inv, NEW c \in Callers, Commit(c)
  PROVE  Inv'
<1> DEFINE k == call[c]
           r == RowOf(k)
           n == Len(history) + 1
           g == Append(history, r)
<1>1. /\ k.step = "counted" /\ Fits(k)
      /\ history' = g /\ stored' = (stored \ Purged(k)) \cup {n}
      /\ UNCHANGED <<clock, active>>
      /\ faults' \in 0 .. MaxFaults
  BY QuotaAssumption DEF Commit, Fault, Inv, TypeOK, QuotaAssumption
<1>2. /\ k \in Call /\ k.user \in Users /\ k.op \in Operations
      /\ k.units \in 1 .. MaxUnits /\ k.now \in Nat /\ k.now <= clock
      /\ clock \in Nat
  BY <1>1 DEF Inv, TypeOK, Call
<1>3. r \in Row /\ r.user = k.user /\ r.op = k.op /\ r.units = k.units
      /\ r.at = k.now
  BY <1>2 DEF RowOf, Row
<1>4. /\ history \in Seq(Row) /\ g \in Seq(Row) /\ n \in DOMAIN g /\ g[n] = r
      /\ DOMAIN g = DOMAIN history \cup {n} /\ n \notin DOMAIN history
      /\ \A i \in DOMAIN history : g[i] = history[i]
  BY <1>3 DEF Inv, TypeOK
<1>5. PICK code \in Codes : Answer(c, code)
  BY DEF Commit, Codes
<1>6. /\ call' \in [Callers -> Call] /\ resp' \in [Callers -> Codes]
      /\ \A d \in Callers : d # c => call'[d] = call[d]
      /\ call'[c].step = "idle"
  BY <1>5, IdleTyped DEF Answer, Inv, TypeOK
<1> HIDE DEF g, n, r
<1>7. TypeOK'
  <2>1. stored' \subseteq DOMAIN history'
    BY <1>1, <1>4 DEF Inv, TypeOK
  <2>2. \A i \in DOMAIN history' : history'[i].at <= clock'
    BY <1>1, <1>2, <1>3, <1>4 DEF Inv, TypeOK
  <2>3. active' \subseteq Users /\ clock' \in 0 .. MaxClock
    BY <1>1 DEF Inv, TypeOK
  <2>4. \A d \in Callers : call'[d].step # "idle" =>
          /\ call'[d].user \in Users /\ call'[d].op \in Operations
          /\ call'[d].units \in 1 .. MaxUnits
          /\ call'[d].now <= clock' /\ clock' <= call'[d].now + MaxWait
          /\ call'[d].hourly \cup call'[d].daily \subseteq DOMAIN history'
    BY <1>1, <1>4, <1>6 DEF Inv, TypeOK
  <2>5. QED
    BY <1>1, <1>4, <1>6, <2>1, <2>2, <2>3, <2>4 DEF TypeOK
<1>8. RecentRowsStored'
  <2>1. ASSUME NEW i \in DOMAIN history, history[i].at + Retention >= clock
        PROVE  i \in stored'
    <3>1. i \in stored /\ history[i].at \in Nat
      BY <2>1, RowsTyped DEF Inv, RecentRowsStored
    <3>2. ~(history[i].at + Retention < k.now)
      BY <1>2, <2>1, <3>1, QuotaAssumption DEF QuotaAssumption
    <3>3. QED
      BY <1>1, <3>1, <3>2 DEF Purged
  <2>2. QED
    BY <1>1, <1>4, <2>1 DEF RecentRowsStored
<1>9. Exclusive'
  BY <1>6 DEF Inv, Exclusive
<1>10. ASSUME NEW u, NEW o, ~(u = k.user /\ o = k.op)
       PROVE  RowsOf(u, o)' = RowsOf(u, o)
  BY <1>1, <1>3, <1>4, <1>10 DEF RowsOf
<1>11. CountsCurrent'
  <2>1. ASSUME NEW d \in Callers, call'[d].step = "counted"
        PROVE  (LET m == call[d] IN
                /\ m.hourly = Since(RowsOf(m.user, m.op), HourStart(m.now))
                /\ m.daily  = Since(RowsOf(m.user, m.op), DayStart(m.now)))'
    <3>1. d # c /\ call'[d] = call[d] /\ call[d].step = "counted"
      BY <1>6, <2>1
    <3>2. ~(call[d].user = k.user /\ call[d].op = k.op)
      BY <1>1, <3>1 DEF Inv, Exclusive
    <3> DEFINE R(t) == {i \in DOMAIN g : /\ g[i].user = call[d].user
                                       /\ g[i].op = call[d].op
                                       /\ g[i].at >= t}
    <3>3. \A t : R(t) = Since(RowsOf(call[d].user, call[d].op), t)
      BY <1>3, <1>4, <3>2 DEF Since, RowsOf
    <3>4. /\ call[d].hourly = R(HourStart(call[d].now))
          /\ call[d].daily = R(DayStart(call[d].now))
      BY <3>1, <3>3 DEF Inv, CountsCurrent
    <3> DEFINE m == call[d]
    <3>5. /\ Since(RowsOf(m.user, m.op), HourStart(m.now))' = R(HourStart(m.now))
          /\ Since(RowsOf(m.user, m.op), DayStart(m.now))' = R(DayStart(m.now))
      BY <1>1, <3>1 DEF Since, RowsOf, HourStart, DayStart, DayOf
    <3>6. QED
      BY <3>1, <3>4, <3>5
  <2>2. QED
    BY <2>1 DEF CountsCurrent
<1>12. /\ k.hourly = Since(RowsOf(k.user, k.op), HourStart(k.now))
       /\ k.daily = Since(RowsOf(k.user, k.op), DayStart(k.now))
       /\ k.hourly \subseteq DOMAIN history /\ k.daily \subseteq DOMAIN history
  BY <1>1 DEF Inv, CountsCurrent, Since, RowsOf
<1>13. /\ HourLimit[k.op] \in Nat /\ DayLimit[k.op] \in Nat
       /\ Cardinality(UnitsIn(history, k.hourly)) + r.units <= HourLimit[k.op]
       /\ Cardinality(UnitsIn(history, k.daily)) + r.units <= DayLimit[k.op]
  BY <1>1, <1>2, <1>3, QuotaAssumption DEF Fits, UnitsOf, UnitsIn, QuotaAssumption
<1>14. HourlyInv'
  <2> SUFFICES ASSUME NEW u \in Users, NEW o \in Operations, NEW t \in Nat
               PROVE  Cardinality(UnitsOf(HourRows(u, o, t)))' <= HourLimit[o]
    BY DEF HourlyInv
  <2> DEFINE W == HourRows(u, o, t)
             V == {i \in DOMAIN g : /\ g[i].user = u /\ g[i].op = o
                                    /\ g[i].at \in t .. t + Hour}
  <2>1. UnitsOf(HourRows(u, o, t))' = UnitsIn(g, V)
    BY <1>1 DEF UnitsOf, UnitsIn, HourRows, RowsOf
  <2>2. Cardinality(UnitsIn(history, W)) <= HourLimit[o] /\ W \subseteq DOMAIN history
    BY DEF Inv, HourlyInv, UnitsOf, UnitsIn, HourRows, RowsOf
  <2>3. CASE u = k.user /\ o = k.op /\ k.now \in t .. t + Hour
    <3>1. V = W \cup {n}
      BY <1>3, <1>4, <2>3 DEF HourRows, RowsOf
    <3>2. W \subseteq k.hourly
      <4>1. ASSUME NEW i \in W
            PROVE  history[i].at >= HourStart(k.now)
        <5>1. i \in DOMAIN history /\ history[i].at >= t
          BY DEF HourRows, RowsOf
        <5>2. history[i].at \in Nat
          BY <5>1, RowsTyped DEF Inv
        <5>3. k.now <= t + Hour
          BY <2>3
        <5> DEFINE now == k.now
                   at == history[i].at
        <5>4. now \in Nat /\ at \in Nat /\ now <= t + Hour /\ at >= t /\ Hour \in Nat
          BY <1>2, <5>1, <5>2, <5>3, QuotaAssumption DEF QuotaAssumption
        <5> HIDE DEF now, at
        <5>5. at >= now - Hour
          BY <5>4
        <5>6. QED
          BY <5>5 DEF at, now, HourStart
      <4>2. QED
        BY <1>12, <2>3, <4>1 DEF Since, HourRows
    <3>3. Cardinality(UnitsIn(g, W \cup {n})) <= HourLimit[k.op]
      BY <1>3, <1>4, <1>12, <1>13, <3>2, RowFits DEF g, n
    <3>4. QED
      BY <2>1, <2>3, <3>1, <3>3
  <2>4. CASE ~(u = k.user /\ o = k.op /\ k.now \in t .. t + Hour)
    <3>1. V = W
      BY <1>3, <1>4, <2>4 DEF HourRows, RowsOf
    <3>2. UnitsIn(g, W) = UnitsIn(history, W)
      BY <1>3, <1>4, <2>2, UnitsKept DEF g
    <3>3. QED
      BY <2>1, <2>2, <3>1, <3>2
  <2>5. QED
    BY <2>3, <2>4
<1>15. DailyInv'
  <2> SUFFICES ASSUME NEW u \in Users, NEW o \in Operations, NEW d \in Nat
               PROVE  Cardinality(UnitsOf(DayRows(u, o, d)))' <= DayLimit[o]
    BY DEF DailyInv
  <2> DEFINE W == DayRows(u, o, d)
             V == {i \in DOMAIN g : /\ g[i].user = u /\ g[i].op = o
                                    /\ DayOf(g[i].at) = d}
  <2>1. UnitsOf(DayRows(u, o, d))' = UnitsIn(g, V)
    BY <1>1 DEF UnitsOf, UnitsIn, DayRows, RowsOf, DayOf
  <2>2. Cardinality(UnitsIn(history, W)) <= DayLimit[o] /\ W \subseteq DOMAIN history
    BY DEF Inv, DailyInv, UnitsOf, UnitsIn, DayRows, RowsOf
  <2>3. CASE u = k.user /\ o = k.op /\ DayOf(k.now) = d
    <3>1. V = W \cup {n}
      BY <1>3, <1>4, <2>3 DEF DayRows, RowsOf
    <3>2. W \subseteq k.daily
      <4>1. ASSUME NEW i \in W
            PROVE  history[i].at >= DayStart(k.now)
        <5>1. history[i].at \in Nat /\ DayOf(history[i].at) = DayOf(k.now)
          BY <2>3, RowsTyped DEF Inv, DayRows, RowsOf
        <5>2. DayStart(history[i].at) = DayStart(k.now)
          BY <5>1 DEF DayStart
        <5>3. QED
          BY <1>2, <5>1, <5>2, DayBounds
      <4>2. QED
        BY <1>12, <2>3, <4>1 DEF Since, DayRows
    <3>3. Cardinality(UnitsIn(g, W \cup {n})) <= DayLimit[k.op]
      BY <1>3, <1>4, <1>12, <1>13, <3>2, RowFits DEF g, n
    <3>4. QED
      BY <2>1, <2>3, <3>1, <3>3
  <2>4. CASE ~(u = k.user /\ o = k.op /\ DayOf(k.now) = d)
    <3>1. V = W
      BY <1>3, <1>4, <2>4 DEF DayRows, RowsOf
    <3>2. UnitsIn(g, W) = UnitsIn(history, W)
      BY <1>3, <1>4, <2>2, UnitsKept DEF g
    <3>3. QED
      BY <2>1, <2>2, <3>1, <3>2
  <2>5. QED
    BY <2>3, <2>4
<1>16. QED
  BY <1>7, <1>8, <1>9, <1>11, <1>14, <1>15 DEF Inv

(* A call that ends without a row, a change of a user's status, and the    *)
(* passage of time.                                                        *)
LEMMA QuietStep ==
  ASSUME Inv,
         \/ \E c \in Callers : RefuseUsage(c) \/ Cancel(c)
         \/ \E u \in Users : SetUserStatus(u)
         \/ Tick
         \/ UNCHANGED vars
  PROVE  Inv'
<1>1. HourlyInv' /\ DailyInv'
  BY SameRows DEF Inv, RefuseUsage, Cancel, SetUserStatus, Tick, vars
<1>2. CASE \E c \in Callers : RefuseUsage(c) \/ Cancel(c)
  <2>1. PICK c \in Callers : RefuseUsage(c) \/ Cancel(c)
    BY <1>2
  <2>2. /\ UNCHANGED <<clock, history, stored, active>>
        /\ faults' \in 0 .. MaxFaults
        /\ \E code \in Codes : Answer(c, code)
    BY <2>1, QuotaAssumption
       DEF RefuseUsage, Cancel, Fault, Codes, Inv, TypeOK, QuotaAssumption
  <2>3. /\ call' \in [Callers -> Call] /\ resp' \in [Callers -> Codes]
        /\ \A d \in Callers : call'[d].step # "idle" => call'[d] = call[d]
        /\ Exclusive' /\ CountsCurrent'
    BY <2>2, AnswerStep DEF Inv
  <2>4. QED
    BY <1>1, <2>2, <2>3 DEF Inv, TypeOK, RecentRowsStored
<1>3. CASE UNCHANGED <<clock, history, stored, call, resp>>
           /\ active' \subseteq Users /\ faults' \in 0 .. MaxFaults
  BY <1>1, <1>3
     DEF Inv, TypeOK, RecentRowsStored, Exclusive, CountsCurrent, Since, RowsOf,
         HourStart, DayStart, DayOf
<1>4. CASE Tick
  <2>1. /\ UNCHANGED <<history, stored, active, call, resp, faults>>
        /\ clock' = clock + 1 /\ clock' \in 0 .. MaxClock /\ clock \in Nat
    BY <1>4, QuotaAssumption DEF Tick, Inv, TypeOK, QuotaAssumption
  <2>2. \A c \in Callers : call[c].step # "idle" =>
          call[c].now <= clock' /\ clock' <= call[c].now + MaxWait
    BY <1>4, <2>1, QuotaAssumption DEF Tick, Inv, TypeOK, Call, QuotaAssumption
  <2>3. \A i \in DOMAIN history :
          /\ history[i].at <= clock'
          /\ history[i].at + Retention >= clock' => i \in stored
    BY <2>1, RowsTyped, QuotaAssumption DEF Inv, RecentRowsStored, QuotaAssumption
  <2>4. QED
    BY <1>1, <2>1, <2>2, <2>3
       DEF Inv, TypeOK, RecentRowsStored, Exclusive, CountsCurrent, Since,
           RowsOf, HourStart, DayStart, DayOf
<1>5. QED
  BY <1>2, <1>3, <1>4, QuotaAssumption
     DEF SetUserStatus, Fault, vars, Inv, TypeOK, QuotaAssumption

(* The invariant holds in every reachable state.                           *)
LEMMA InvAlways == Spec => []Inv
<1>1. Init => Inv
  BY InvInit
<1>2. Inv /\ [Next]_vars => Inv'
  BY BeginStep, CountStep, CommitStep, QuietStep DEF Next, Serve
<1>3. QED
  BY <1>1, <1>2, PTL DEF Spec

(* Calls and rows are always of their types, and no call decides with a    *)
(* clock that is ahead, or late by more than its life.                     *)
THEOREM TypeCorrect == Spec => []TypeOK
<1>1. Inv => TypeOK
  BY DEF Inv
<1>2. QED
  BY <1>1, InvAlways, PTL

(* No hour holds more units of an operation than its hourly limit.         *)
THEOREM HoursBounded == Spec => []HourlyBound
<1>1. Inv => HourlyBound
  BY DEF Inv, HourlyInv, HourlyBound, HourRows, TypeOK
<1>2. QED
  BY <1>1, InvAlways, PTL

(* No UTC day holds more units of an operation than its daily limit.       *)
THEOREM DaysBounded == Spec => []DailyBound
<1>1. Inv => DailyBound
  BY DEF Inv, DailyInv, DailyBound, DayRows, TypeOK
<1>2. QED
  BY <1>1, InvAlways, PTL

(* The purge removes no row that a count may still need.                   *)
THEOREM RecentRowsKept == Spec => []RecentRowsStored
<1>1. Inv => RecentRowsStored
  BY DEF Inv
<1>2. QED
  BY <1>1, InvAlways, PTL

(* Nobody is refused for units older than the windows and the wait.        *)
THEOREM RefusalsJustified == Spec => RefusalIsJustified
<1> DEFINE Used(u, o, t) == {i \in RowsOf(u, o) : history[i].at + t + MaxWait >= clock}
<1>1. ASSUME Inv, [Next]_vars, NEW c \in Callers, call[c].step = "counted",
             resp[c] # "too_many", resp'[c] = "too_many"
      PROVE  LET k == call[c] IN
             \/ Cardinality(UnitsOf(Used(k.user, k.op, Hour))) + k.units > HourLimit[k.op]
             \/ Cardinality(UnitsOf(Used(k.user, k.op, Day))) + k.units > DayLimit[k.op]
  <2> DEFINE k == call[c]
  <2>1. ~Fits(k)
    BY <1>1 DEF Next, vars, Begin, Serve, CountUsage, Commit, RefuseUsage, Cancel,
                Answer, SetUserStatus, Tick, Inv, TypeOK
  <2>2. /\ k.units \in Nat /\ k.now \in Nat /\ clock \in Nat /\ k.op \in Operations
        /\ clock <= k.now + MaxWait
    BY <1>1, QuotaAssumption DEF Inv, TypeOK, Call, QuotaAssumption
  <2>3. /\ k.hourly = Since(RowsOf(k.user, k.op), HourStart(k.now))
        /\ k.daily = Since(RowsOf(k.user, k.op), DayStart(k.now))
    BY <1>1 DEF Inv, CountsCurrent
  <2>4. k.now < DayStart(k.now) + Day /\ DayStart(k.now) \in Nat
    BY <2>2, DayBounds
  <2>5. /\ k.hourly \subseteq Used(k.user, k.op, Hour)
        /\ k.daily \subseteq Used(k.user, k.op, Day)
    <3>1. \A i \in RowsOf(k.user, k.op) : history[i].at \in Nat
      BY <1>1, RowsTyped DEF Inv, RowsOf
    <3>2. QED
      BY <2>2, <2>3, <2>4, <3>1, QuotaAssumption
         DEF Since, HourStart, QuotaAssumption
  <2>6. \A t : Used(k.user, k.op, t) \subseteq DOMAIN history
    BY DEF RowsOf
  <2>7. \A I : UnitsOf(I) = UnitsIn(history, I)
    BY DEF UnitsOf, UnitsIn
  <2>8. history \in Seq(Row)
    BY <1>1 DEF Inv, TypeOK
  <2> HIDE DEF Used
  <2>9. /\ Cardinality(UnitsOf(k.hourly)) <= Cardinality(UnitsOf(Used(k.user, k.op, Hour)))
        /\ Cardinality(UnitsOf(k.daily)) <= Cardinality(UnitsOf(Used(k.user, k.op, Day)))
        /\ Cardinality(UnitsOf(k.hourly)) \in Nat
        /\ Cardinality(UnitsOf(k.daily)) \in Nat
        /\ Cardinality(UnitsOf(Used(k.user, k.op, Hour))) \in Nat
        /\ Cardinality(UnitsOf(Used(k.user, k.op, Day))) \in Nat
    BY <2>5, <2>6, <2>7, <2>8, UnitsFinite
  <2>10. HourLimit[k.op] \in Nat /\ DayLimit[k.op] \in Nat
    BY <2>2, QuotaAssumption DEF QuotaAssumption
  <2>11. QED
    BY <2>1, <2>2, <2>9, <2>10 DEF Fits
<1>2. Inv /\ [Next]_vars =>
        \A c \in Callers :
          call[c].step = "counted" /\ resp[c] # "too_many" /\ resp'[c] = "too_many" =>
            LET k == call[c] IN
            \/ Cardinality(UnitsOf(Used(k.user, k.op, Hour))) + k.units > HourLimit[k.op]
            \/ Cardinality(UnitsOf(Used(k.user, k.op, Day))) + k.units > DayLimit[k.op]
  BY <1>1
<1>3. QED
  BY <1>2, InvAlways, PTL DEF RefusalIsJustified, Spec
=============================================================================
