---------------------------- MODULE AiUsageQuota ----------------------------
(***************************************************************************)
(* The durable quota of AI operations: reserve_ai_usage, a function of the *)
(* database that every use case calls before it calls a provider.  A call  *)
(* reads its clock when it starts, then may wait for the advisory lock of  *)
(* its user and operation, counts what is stored under that lock, and      *)
(* commits or is rolled back.  So rows are not committed in the order of   *)
(* their timestamps, and a call decides with a clock that is late.         *)
(*                                                                         *)
(* The rows ever committed are the sequence history; stored holds the      *)
(* places of those that no purge has deleted yet.  A row of n units stands *)
(* for n pairs <<place, i>>, so that a sum of units is a cardinality.      *)
(***************************************************************************)
EXTENDS Integers, Sequences, FiniteSets

CONSTANTS
  Users,
  Operations,   \* chat, document_embedding, flashcards, exam, exam_grading
  Callers,      \* calls of the function that may be in flight together
  HourLimit,    \* units per operation in any hour
  DayLimit,     \* units per operation in a UTC day
  Hour, Day,    \* lengths, in ticks of the clock
  Retention,    \* age at which rows are purged (30 days)
  MaxUnits,     \* most units of one call (100)
  MaxWait,      \* longest life of a call (statement timeout of the database)
  None,
  MaxClock,     \* bound: last instant
  MaxFaults     \* bound: replies lost, calls cancelled, users (de)activated

ASSUME QuotaAssumption ==
  /\ HourLimit \in [Operations -> Nat]
  /\ DayLimit \in [Operations -> Nat]
  /\ Hour \in Nat \ {0} /\ Day \in Nat \ {0}
  /\ Retention \in Nat
  /\ MaxUnits \in Nat \ {0}
  /\ MaxWait \in Nat
  /\ MaxClock \in Nat
  /\ MaxFaults \in Nat
  /\ None \notin Users \cup Operations
  \* thirty days are longer than a window and the life of a call
  /\ Hour + MaxWait <= Retention
  /\ Day + MaxWait <= Retention

VARIABLES
  clock,
  history, stored,   \* ai_usage_events: ever committed, and still there
  active,            \* users whose status is active
  call,              \* calls in flight
  resp,              \* what the last call of each caller was told
  faults

vars == <<clock, history, stored, active, call, resp, faults>>

Row == [user : Users, op : Operations, units : 1 .. MaxUnits, at : Nat]

Codes == {"none", "ok", "not_found", "bad_request", "too_many", "error"}

(* now: statement_timestamp(); hourly, daily: the rows counted.            *)
Call == [step  : {"idle", "waiting", "counted"},
         user  : Users \cup {None},
         op    : Operations \cup {None},
         units : 0 .. MaxUnits,
         now   : Nat,
         hourly : SUBSET Nat,
         daily  : SUBSET Nat]

IdleCall == [step |-> "idle", user |-> None, op |-> None, units |-> 0,
             now |-> 0, hourly |-> {}, daily |-> {}]

(* Rows are numbered by their place in history, only stored rows are       *)
(* counted, and nothing is stamped or decided with a clock ahead of time.  *)
TypeOK ==
  /\ clock \in 0 .. MaxClock
  /\ history \in Seq(Row)
  /\ stored \subseteq DOMAIN history
  /\ active \subseteq Users
  /\ call \in [Callers -> Call]
  /\ resp \in [Callers -> Codes]
  /\ faults \in 0 .. MaxFaults
  /\ \A i \in DOMAIN history : history[i].at <= clock
  /\ \A c \in Callers : call[c].step # "idle" =>
       /\ call[c].user \in Users /\ call[c].op \in Operations
       /\ call[c].units \in 1 .. MaxUnits
       /\ call[c].now <= clock /\ clock <= call[c].now + MaxWait
       /\ call[c].hourly \cup call[c].daily \subseteq DOMAIN history

-----------------------------------------------------------------------------
(* Rows and units.                                                         *)

RowsOf(u, o) == {i \in DOMAIN history : history[i].user = u /\ history[i].op = o}

Since(I, t) == {i \in I : history[i].at >= t}

(* SUM(units) over the rows I is the number of these pairs.                *)
UnitsOf(I) == {p \in I \X (1 .. MaxUnits) : p[2] <= history[p[1]].units}

DayOf(t) == t \div Day

(* The instants back to which a call with clock now counts.                *)
HourStart(now) == now - Hour

(* Mutated form: only the last hour counts.                                *)
DayStartTooLate(now) == now - Hour

(* date_trunc('day', now).                                                 *)
DayStart(now) == DayOf(now) * Day

-----------------------------------------------------------------------------
Fault == faults < MaxFaults /\ faults' = faults + 1

Answer(c, code) ==
  /\ call' = [call EXCEPT ![c] = IdleCall]
  /\ resp' = [resp EXCEPT ![c] = code]

ValidUnits(n) == n \in 1 .. MaxUnits

(* A call starts: the clock is read, the user and the units are checked.   *)
Begin(c) ==
  /\ call[c].step = "idle"
  /\ \E u \in Users, o \in Operations, n \in 0 .. MaxUnits + 1 :
       \/ u \notin active /\ Answer(c, "error")
       \/ u \in active /\ ~ValidUnits(n) /\ Answer(c, "bad_request")
       \/ /\ u \in active /\ ValidUnits(n)
          /\ call' = [call EXCEPT ![c] =
                        [IdleCall EXCEPT !.step = "waiting", !.user = u,
                                         !.op = o, !.units = n, !.now = clock]]
          /\ resp' = [resp EXCEPT ![c] = "none"]
  /\ UNCHANGED <<clock, history, stored, active, faults>>

(* Mutated form: the function takes no lock.                               *)
NoLock(k) == TRUE

(* Nobody else is between the lock and the end of its transaction for the  *)
(* same user and operation.                                                *)
Unlocked(k) ==
  \A d \in Callers :
    ~(call[d].step = "counted" /\ call[d].user = k.user /\ call[d].op = k.op)

(* Mutated form: rows are purged after an hour.                            *)
PurgedTooSoon(k) ==
  {i \in stored : history[i].user = k.user /\ history[i].at + Hour <= k.now}

(* Rows of the user, of any operation, that the call deletes.              *)
Purged(k) ==
  {i \in stored : history[i].user = k.user /\ history[i].at + Retention < k.now}

Counted(k) == (stored \ Purged(k)) \cap RowsOf(k.user, k.op)

(* The lock is granted, the old rows are deleted and the rest is counted.  *)
CountUsage(c) ==
  LET k == call[c] IN
  /\ k.step = "waiting"
  /\ Unlocked(k)
  /\ call' = [call EXCEPT ![c].step   = "counted",
                          ![c].hourly = Since(Counted(k), HourStart(k.now)),
                          ![c].daily  = Since(Counted(k), DayStart(k.now))]
  /\ UNCHANGED <<clock, history, stored, active, resp, faults>>

(* Mutated form: the last unit of a limit is never given.                  *)
FitsBelow(k) ==
  /\ Cardinality(UnitsOf(k.hourly)) + k.units < HourLimit[k.op]
  /\ Cardinality(UnitsOf(k.daily)) + k.units < DayLimit[k.op]

(* Both windows have room for the units asked for.                         *)
Fits(k) ==
  /\ Cardinality(UnitsOf(k.hourly)) + k.units <= HourLimit[k.op]
  /\ Cardinality(UnitsOf(k.daily)) + k.units <= DayLimit[k.op]

RowOf(k) == [user |-> k.user, op |-> k.op, units |-> k.units, at |-> k.now]

(* The row is inserted and the transaction commits; its reply may be lost. *)
Commit(c) ==
  LET k == call[c] IN
  /\ k.step = "counted"
  /\ Fits(k)
  /\ stored'  = (stored \ Purged(k)) \cup {Len(history) + 1}
  /\ history' = Append(history, RowOf(k))
  /\ \/ Answer(c, "ok") /\ UNCHANGED faults
     \/ Answer(c, "error") /\ Fault
  /\ UNCHANGED <<clock, active>>

(* Over a limit the function raises, which undoes the purge as well.       *)
RefuseUsage(c) ==
  /\ call[c].step = "counted"
  /\ ~Fits(call[c])
  /\ Answer(c, "too_many")
  /\ UNCHANGED <<clock, history, stored, active, faults>>

(* A call is cancelled, or its connection is lost: it is rolled back.      *)
Cancel(c) ==
  /\ call[c].step # "idle"
  /\ Fault
  /\ Answer(c, "error")
  /\ UNCHANGED <<clock, history, stored, active>>

SetUserStatus(u) ==
  /\ Fault
  /\ active' = IF u \in active THEN active \ {u} ELSE active \cup {u}
  /\ UNCHANGED <<clock, history, stored, call, resp>>

(* Time passes; the database lets no call live longer than MaxWait.        *)
Tick ==
  /\ clock < MaxClock
  /\ \A c \in Callers : call[c].step # "idle" => clock < call[c].now + MaxWait
  /\ clock' = clock + 1
  /\ UNCHANGED <<history, stored, active, call, resp, faults>>

Init ==
  /\ clock = 0
  /\ history = <<>>
  /\ stored = {}
  /\ active = Users
  /\ call = [c \in Callers |-> IdleCall]
  /\ resp = [c \in Callers |-> "none"]
  /\ faults = 0

Serve(c) == CountUsage(c) \/ Commit(c) \/ RefuseUsage(c)

Next ==
  \/ \E c \in Callers : Begin(c) \/ Serve(c) \/ Cancel(c)
  \/ \E u \in Users : SetUserStatus(u)
  \/ Tick

Spec == Init /\ [][Next]_vars

-----------------------------------------------------------------------------
(* Properties.                                                             *)

(* Between any two instants an hour apart a user has reserved no more than *)
(* the hourly limit of an operation, purged rows included, although calls  *)
(* count with late clocks and commit out of order.                         *)
HourlyBound ==
  \A u \in Users, o \in Operations, t \in 0 .. clock :
    Cardinality(UnitsOf({i \in RowsOf(u, o) : history[i].at \in t .. t + Hour}))
      <= HourLimit[o]

(* On no UTC day has a user reserved more than the daily limit.            *)
DailyBound ==
  \A u \in Users, o \in Operations, d \in 0 .. DayOf(clock) :
    Cardinality(UnitsOf({i \in RowsOf(u, o) : DayOf(history[i].at) = d}))
      <= DayLimit[o]

(* A row that some later count may need is still stored.                   *)
RecentRowsStored ==
  \A i \in DOMAIN history : history[i].at + Retention >= clock => i \in stored

(* A reservation is refused only when the units of the operation reserved  *)
(* in the hour or the day before it, give or take the wait for the lock,   *)
(* leave no room for it.                                                   *)
RefusalIsJustified ==
  [][\A c \in Callers :
       call[c].step = "counted" /\ resp[c] # "too_many" /\ resp'[c] = "too_many" =>
         LET used(t) == Cardinality(UnitsOf({i \in RowsOf(call[c].user, call[c].op) :
                                               history[i].at + t + MaxWait >= clock}))
         IN \/ used(Hour) + call[c].units > HourLimit[call[c].op]
            \/ used(Day) + call[c].units > DayLimit[call[c].op]]_vars
=============================================================================
