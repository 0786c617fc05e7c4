----------------------------- MODULE StudyActivity -----------------------------
(***************************************************************************)
(* What a user generates, does and is told about it: flashcards and exams  *)
(* generated from a notebook, the learning events that record activity,    *)
(* and the statistics made of them.                                        *)
(*                                                                         *)
(* Limits, locks and statistics are each user's own, so the module is      *)
(* about one user, whose calls run at once: a call that its client has     *)
(* given up goes on like any other, and its retry is another call.         *)
(***************************************************************************)
EXTENDS Integers, Sequences, FiniteSets, FiniteSetsExt

CONSTANTS
  Notebooks, Slots, Keys, Idle,
  Activities,   \* what clients report: kind, quantity, seconds
  FlashcardRequests, ExamRequests,  \* what is asked for: how many of each type
  QuotaEnabled,                    \* ai_usage_quota_enabled
  ActivityItems, ActivitySeconds,  \* bounds of an activity
  MinSession, ReviewSeconds,       \* shortest session, longest review
  Window, WindowLimit,             \* events in a minute
  DayLength, DayEvents, DaySeconds, DayCards,
  Durations,    \* seconds that an attempt at an exam may take
  Queries,      \* time zone and period of statistics that are asked for
  MaxTime, MaxWait, MaxGenerations, MaxAttempts, MaxEvents  \* bounds

Types == {"flashcard", "true_false", "multiple_choice", "open"}

ASSUME StudyAssumption ==
  /\ IsFiniteSet(Notebooks)
  /\ FlashcardRequests \subseteq
       {r \in [Types -> Nat] : /\ r["flashcard"] > 0
                              /\ \A t \in Types \ {"flashcard"} : r[t] = 0}
  /\ ExamRequests \subseteq {r \in [Types -> Nat] : r["flashcard"] = 0}
  /\ Activities \subseteq [kind : {"study_session", "flashcard_reviewed"},
                           quantity : Nat, seconds : Nat]
  /\ QuotaEnabled \in BOOLEAN
  /\ ActivityItems \in Nat /\ ActivitySeconds \in Nat
  /\ MinSession \in Nat /\ ReviewSeconds \in Nat
  /\ Window \in Nat /\ DayLength \in Nat \ {0}
  /\ WindowLimit \in Nat /\ DayEvents \in Nat /\ DaySeconds \in Nat /\ DayCards \in Nat
  /\ IsFiniteSet(Durations) /\ Durations \subseteq Nat
  /\ Queries \subseteq [offset : Int, calendar : BOOLEAN, days : Nat \ {0}]
  /\ MaxTime \in Nat /\ MaxWait \in Nat
  /\ MaxGenerations \in Nat /\ MaxAttempts \in Nat /\ MaxEvents \in Nat

VARIABLES
  now,        \* the clock of the database
  access,     \* what the user may do in each notebook: "none" too while the
              \* profile is not active, and "deleted" when there is no notebook
  events,     \* history: rows of user_learning_events of the user, as committed
  stored,     \* those of them that are still in the table
  generations,  \* requests for material that have passed the reservation
  charged,    \* those of them that a unit of the quota was reserved for
  made,       \* history: what was stored for each of them
  call,       \* the calls that run
  accepted    \* history: activities answered 201

studyVars ==
  <<now, access, events, stored, generations, charged, made, call, accepted>>

tables == <<now, access, events, stored, generations, charged, made>>

NoItems == [t \in Types |-> 0]

Requests == FlashcardRequests \cup ExamRequests

(* by: the client's key, the generation or the document or link for which  *)
(* the server records it.                                                  *)
Sources ==
  [client : Keys] \cup [generation : 1 .. MaxGenerations] \cup [server : 1 .. MaxEvents]

Event ==
  [kind : {"study_session", "flashcard_reviewed", "resource_generated",
           "document_uploaded or notebook_shared"},
   quantity : Nat, seconds : Nat, notebook : Notebooks, at : 0 .. MaxTime,
   by : Sources]

Recording ==
  [op : {"record"}, step : {"wait", "insert"}, notebook : Notebooks,
   activity : Activities, key : Keys, since : 0 .. MaxTime]

Generation ==
  [op : {"generate"}, step : {"reserve", "retrieve", "complete", "persist"},
   notebook : Notebooks, asked : Requests, draft : Requests \cup {NoItems},
   number : 0 .. MaxGenerations]

Material == [asked : Requests, items : Requests, notebook : Notebooks]

Exists(n) == access[n] # "deleted"

StudyTypeOK ==
  /\ now \in 0 .. MaxTime
  /\ access \in [Notebooks -> {"none", "read", "manage", "deleted"}]
  /\ events \in Seq(Event)
  /\ stored \subseteq {i \in DOMAIN events : Exists(events[i].notebook)}
  /\ generations \in 0 .. MaxGenerations
  /\ charged \subseteq 1 .. generations
  /\ made \in [1 .. MaxGenerations -> Seq(Material)]
  /\ call \in [Slots -> Recording \cup Generation \cup {Idle}]
  /\ accepted \subseteq [notebook : Notebooks, activity : Activities, key : Keys]

-----------------------------------------------------------------------------
(* Calls.                                                                  *)

Run(c, k) == call' = [call EXCEPT ![c] = k]

Finish(c) == Run(c, Idle)

InStep(c, o, s) == call[c] # Idle /\ call[c].op = o /\ call[c].step = s

Size(d) == d["flashcard"] + d["true_false"] + d["multiple_choice"] + d["open"]

(* A call that fails, or is refused, ends without any trace of its step.   *)
Fail(c) ==
  /\ call[c] # Idle
  /\ Finish(c)
  /\ UNCHANGED <<tables, accepted>>

-----------------------------------------------------------------------------
(* Generated material.                                                     *)

HasAccess(n) == access[n] \in {"read", "manage"}

(* Requests are taken from managers, for the configured model.             *)
HasManageAccess(n) == access[n] = "manage"

Begin(c, n, r) ==
  /\ call[c] = Idle
  /\ HasManageAccess(n)
  /\ Run(c, [op |-> "generate", step |-> "reserve", notebook |-> n, asked |-> r,
             draft |-> NoItems, number |-> 0])
  /\ UNCHANGED <<tables, accepted>>

GenerateFlashcards(c, n) == \E r \in FlashcardRequests : Begin(c, n, r)
GenerateExam(c, n) == \E r \in ExamRequests : Begin(c, n, r)

(* A unit is reserved unless the quota refuses it (see AiUsageQuota), and  *)
(* nothing is when there is no quota.                                      *)
ReserveUnit(c) ==
  /\ InStep(c, "generate", "reserve")
  /\ generations < MaxGenerations
  /\ generations' = generations + 1
  /\ charged' = IF QuotaEnabled THEN charged \cup {generations + 1} ELSE charged
  /\ Run(c, [call[c] EXCEPT !.step = "retrieve", !.number = generations + 1])
  /\ UNCHANGED <<now, access, events, stored, made, accepted>>

(* OpenRouter answers an object, or the request fails.                     *)
AskOpenRouter(c, k) == Run(c, k) \/ Finish(c)

(* Sources like what is wanted are looked for, and there are some.         *)
GenerationSources(c) ==
  /\ InStep(c, "generate", "retrieve")
  /\ AskOpenRouter(c, [call[c] EXCEPT !.step = "complete"])
  /\ UNCHANGED <<tables, accepted>>

(* What the model may answer in the form that it is asked for: items that  *)
(* are all different, of the types of the form, but any number of each.    *)
FlashcardDrafts == FlashcardRequests
ExamDrafts == ExamRequests
StructuredCompletion(r) ==
  IF r \in FlashcardRequests THEN FlashcardDrafts ELSE ExamDrafts

(* _validate_exam_counts, and the count of flashcards.  Mutated form: any. *)
AnyCounts(d, r) == TRUE
ValidCounts(d, r) == \A t \in Types : d[t] = r[t]

Complete(c) ==
  /\ InStep(c, "generate", "complete")
  /\ \E d \in StructuredCompletion(call[c].asked) :
       /\ ValidCounts(d, call[c].asked)
       /\ AskOpenRouter(c, [call[c] EXCEPT !.step = "persist", !.draft = d])
  /\ UNCHANGED <<tables, accepted>>

(* Options that a question may have, and how many of them are correct: as  *)
(* the drafts give them, and as the function of the database wants them.   *)
QuestionPayload(t) ==
  CASE t = "multiple_choice" -> [options : 2 .. 6, correct : {1}]
    [] t = "true_false"      -> [options : {2}, correct : {1}]
    [] OTHER                 -> [options : {0}, correct : {0}]

ValidQuestion(t, q) ==
  CASE t = "multiple_choice" -> q.options \in 2 .. 6 /\ q.correct = 1
    [] t = "true_false"      -> q.options = 2 /\ q.correct = 1
    [] OTHER                 -> q.options = 0

(* A row is committed.                                                     *)
Commit(e) ==
  /\ Exists(e.notebook)
  /\ events' = Append(events, e)
  /\ stored' = stored \cup {Len(events) + 1}

MaterialEvent(k, quantity) ==
  [kind |-> "resource_generated", quantity |-> quantity, seconds |-> 0,
   notebook |-> k.notebook, at |-> now, by |-> [generation |-> k.number]]

(* The material and its event are stored in one transaction, if the user   *)
(* may still do it and there are 1 to 20 items.                            *)
StoreMaterial(k, quantity) ==
  /\ HasManageAccess(k.notebook)
  /\ Size(k.draft) \in 1 .. 20
  /\ Len(events) < MaxEvents
  /\ made' = [made EXCEPT ![k.number] =
                Append(@, [asked |-> k.asked, items |-> k.draft,
                           notebook |-> k.notebook])]
  /\ Commit(MaterialEvent(k, quantity))
  /\ UNCHANGED <<now, access, generations, charged>>

PersistFlashcards(c) ==
  /\ InStep(c, "generate", "persist") /\ call[c].draft \in FlashcardRequests
  /\ StoreMaterial(call[c], Size(call[c].draft))
  /\ Finish(c)
  /\ UNCHANGED accepted

PersistExam(c) ==
  /\ InStep(c, "generate", "persist") /\ call[c].draft \in ExamRequests
  /\ \A t \in Types : call[c].draft[t] > 0 =>
       \E q \in QuestionPayload(t) : ValidQuestion(t, q)
  /\ StoreMaterial(call[c], 1)
  /\ Finish(c)
  /\ UNCHANGED accepted

ServerEvents ==
  {i \in DOMAIN events : events[i].kind = "document_uploaded or notebook_shared"}

ServerEvent(n) ==
  [kind |-> "document_uploaded or notebook_shared", quantity |-> 1, seconds |-> 0,
   notebook |-> n, at |-> now, by |-> [server |-> Cardinality(ServerEvents) + 1]]

CommitServerEvent(n) ==
  /\ Len(events) < MaxEvents
  /\ Commit(ServerEvent(n))
  /\ UNCHANGED <<now, access, generations, charged, made, call, accepted>>

(* The event of a document that was uploaded (see DocumentIngestion): if   *)
(* it fails or is refused, the upload has succeeded all the same.          *)
RecordServerActivity(n) == HasAccess(n) /\ CommitServerEvent(n)

(* A manager links the notebook with a room, which is an event too.        *)
AttachRoomNotebook(n) == HasManageAccess(n) /\ CommitServerEvent(n)

-----------------------------------------------------------------------------
(* Learning events that clients report.                                    *)

(* The time of an event is that of the call, before it waits for its turn. *)
Record(c, n, a, key) ==
  /\ call[c] = Idle
  /\ Run(c, [op |-> "record", step |-> "wait", notebook |-> n, activity |-> a,
             key |-> key, since |-> now])
  /\ UNCHANGED <<tables, accepted>>

EventOf(k) ==
  [kind |-> k.activity.kind, quantity |-> k.activity.quantity,
   seconds |-> k.activity.seconds, notebook |-> k.notebook, at |-> k.since,
   by |-> [client |-> k.key]]

OfKey(key) == {i \in stored : events[i].by = [client |-> key]}

(* Calls of the same user take turns.  Mutated form: they do not.          *)
NoLock == TRUE
Unlocked == \A c \in Slots : ~InStep(c, "record", "insert")

(* A key that is known answers for the event that it has recorded, if that *)
(* is the one reported again.                                              *)
Replays(k, i) == [EventOf(k) EXCEPT !.at = events[i].at] = events[i]

Accept(k) ==
  accepted' = accepted \cup
    {[notebook |-> k.notebook, activity |-> k.activity, key |-> k.key]}

Replay(c) ==
  /\ InStep(c, "record", "wait") /\ Unlocked
  /\ \E i \in OfKey(call[c].key) : Replays(call[c], i)
  /\ Accept(call[c])
  /\ Finish(c)
  /\ UNCHANGED tables

InBounds(a) == a.quantity \in 1 .. ActivityItems /\ a.seconds <= ActivitySeconds

(* One session of some length, or cards that were reviewed.                *)
ActivityShape(a) ==
  /\ a.kind = "study_session" => a.quantity = 1 /\ a.seconds >= MinSession
  /\ a.kind = "flashcard_reviewed" => a.seconds <= ReviewSeconds

(* The database checks again what the request was checked for.             *)
Valid(a) == InBounds(a) /\ ActivityShape(a)

DayStart(t) == t - (t % DayLength)

Since(t) == {i \in stored : events[i].at >= t}

(* SUM: each element of I is counted as often as amount says.              *)
Total(I, amount) == Cardinality(UNION {{i} \X (1 .. amount[i]) : i \in I})

SecondsOf(log, I) == Total(I, [i \in I |-> log[i].seconds])

Reviewed(log, I) ==
  LET cards == {i \in I : log[i].kind = "flashcard_reviewed"}
  IN Total(cards, [i \in cards |-> log[i].quantity])

(* All rows count, and so do those that came while the call waited.        *)
WithinLimits(k) ==
  LET today == Since(DayStart(k.since)) IN
  /\ Cardinality(Since(k.since - Window)) < WindowLimit
  /\ Cardinality(today) < DayEvents
  /\ SecondsOf(events, today) + k.activity.seconds <= DaySeconds
  /\ k.activity.kind = "flashcard_reviewed" =>
       Reviewed(events, today) + k.activity.quantity <= DayCards

Check(c) ==
  /\ InStep(c, "record", "wait") /\ Unlocked
  /\ OfKey(call[c].key) = {}
  /\ Valid(call[c].activity)
  /\ HasAccess(call[c].notebook)
  /\ WithinLimits(call[c])
  /\ Len(events) < MaxEvents
  /\ Run(c, [call[c] EXCEPT !.step = "insert"])
  /\ UNCHANGED <<tables, accepted>>

(* The transaction commits, unless the notebook is gone, and is answered,  *)
(* though maybe not in time.                                               *)
Insert(c) ==
  /\ InStep(c, "record", "insert")
  /\ Commit(EventOf(call[c]))
  /\ Accept(call[c])
  /\ Finish(c)
  /\ UNCHANGED <<now, access, generations, charged, made>>

-----------------------------------------------------------------------------
(* What happens meanwhile to the notebook, to rooms and to the profile     *)
(* (see Workspace and Accounts).                                           *)

(* Rows of a notebook that is deleted, by the user or by another manager,  *)
(* go with it; it never comes back.  Mutated form: they stay.              *)
Unreferenced(n) == stored
Cascade(n) == {i \in stored : events[i].notebook # n}

DeleteNotebook(n) ==
  /\ Exists(n)
  /\ access' = [access EXCEPT ![n] = "deleted"]
  /\ stored' = Cascade(n)
  /\ UNCHANGED <<now, events, generations, charged, made, call, accepted>>

SetAccess(n, a) ==
  /\ Exists(n)
  /\ access' = [access EXCEPT ![n] = a]
  /\ UNCHANGED <<now, events, stored, generations, charged, made, call, accepted>>

(* No call waits longer than MaxWait.                                      *)
Tick ==
  /\ now < MaxTime
  /\ \A c \in Slots : call[c] # Idle /\ call[c].op = "record" =>
       now < call[c].since + MaxWait
  /\ now' = now + 1
  /\ UNCHANGED <<access, events, stored, generations, charged, made, call, accepted>>

StudyInit ==
  /\ now = 0
  /\ access \in [Notebooks -> {"manage"}]
  /\ events = <<>> /\ stored = {}
  /\ generations = 0 /\ charged = {}
  /\ made = [g \in 1 .. MaxGenerations |-> <<>>]
  /\ call = [c \in Slots |-> Idle]
  /\ accepted = {}

Arrival(c) ==
  \E n \in Notebooks :
    \/ GenerateFlashcards(c, n) \/ GenerateExam(c, n)
    \/ \E a \in Activities, key \in Keys : Record(c, n, a, key)

CallStep(c) ==
  \/ ReserveUnit(c) \/ GenerationSources(c) \/ Complete(c)
  \/ PersistFlashcards(c) \/ PersistExam(c)
  \/ Replay(c) \/ Check(c) \/ Insert(c)
  \/ Fail(c)

Surroundings ==
  \/ \E n \in Notebooks :
       \/ RecordServerActivity(n) \/ AttachRoomNotebook(n)
       \/ DeleteNotebook(n)
       \/ \E a \in {"none", "read", "manage"} : SetAccess(n, a)
  \/ Tick

StudyNext == (\E c \in Slots : Arrival(c) \/ CallStep(c)) \/ Surroundings

StudySpec == StudyInit /\ [][StudyNext]_studyVars

-----------------------------------------------------------------------------
(* Statistics: what was read of notebooks, attempts and events, at a time  *)
(* which is that before the first of them was read.                        *)

DayOf(s, t) == (t + s.query.offset) \div DayLength

(* Days of a time zone; an event may be of a day after the statistics.     *)
ActiveDays(s) ==
  {DayOf(s, a.at) : a \in s.attempts} \cup
  {DayOf(s, s.events[i].at) : i \in DOMAIN s.events}

(* The days of the run that each active day ends, taken in order: the day  *)
(* before is the previous one when it was active.                          *)
RunOf(days) ==
  LET run[d \in days] == IF d - 1 \in days THEN run[d - 1] + 1 ELSE 1
  IN run

(* Active days in a row from a day backwards.                              *)
RunBack(days) ==
  LET back[d \in Int] == IF d \in days THEN 1 + back[d - 1] ELSE 0
  IN back

(* _streak: the best run, the run that ends today or yesterday, and which  *)
(* of the last seven days were active.                                     *)
Streak(days, today) ==
  [best    |-> Max({0} \cup {RunOf(days)[d] : d \in days}),
   current |-> RunBack(days)[IF today \in days THEN today ELSE today - 1],
   days    |-> [o \in 0 .. 6 |-> today - o \in days]]

(* _period_start: of a week or month that has begun, or of so many days.   *)
PeriodStart(today, q) ==
  IF q.calendar THEN today - (today % q.days) ELSE today - (q.days - 1)

SecondsAt(A) == Total(A, [a \in A |-> a.seconds])

(* _learning_points: exams, cards and seconds (shown in minutes) of a day. *)
Point(s, day) ==
  LET A == {a \in s.attempts : DayOf(s, a.at) = day}
      I == {i \in DOMAIN s.events : DayOf(s, s.events[i].at) = day}
  IN [exams   |-> Cardinality(A),
      cards   |-> Reviewed(s.events, I),
      seconds |-> SecondsAt(A) + SecondsOf(s.events, I)]

LearningPoints(s) ==
  LET today == DayOf(s, s.now)
  IN [day \in PeriodStart(today, s.query) .. today |-> Point(s, day)]

(* Seconds of a notebook, listed or not.  Mutated form: those of exams.    *)
ExamSeconds(s, n) == SecondsAt({a \in s.attempts : a.notebook = n})

StudySeconds(s, n) ==
  SecondsAt({a \in s.attempts : a.notebook = n}) +
  SecondsOf(s.events, {i \in DOMAIN s.events : s.events[i].notebook = n})

TimeByNotebook(s) ==
  [n \in {m \in s.notebooks : StudySeconds(s, m) > 0} |-> StudySeconds(s, n)]

TotalSeconds(s) == Total(Notebooks, [n \in Notebooks |-> StudySeconds(s, n)])

Statistics(s) ==
  [learning |-> LearningPoints(s),
   streak   |-> Streak(ActiveDays(s), DayOf(s, s.now)),
   time     |-> TimeByNotebook(s),
   total    |-> TotalSeconds(s)]

(* Completed attempts at exams (see ExamAttempts), which may be older than *)
(* all events.                                                             *)
Attempts == [notebook : Notebooks, at : -MaxTime .. now, seconds : Durations]

(* The reads are not atomic: notebooks may be those of some time before,   *)
(* and the attempts at their exams, whichever there are, too; the events   *)
(* are read last.                                                          *)
NotebookIds == SUBSET Notebooks

ReadTimes == {now - 1, now}

Snapshots ==
  {[now |-> t, query |-> q, notebooks |-> N, events |-> [i \in stored |-> events[i]],
    attempts |-> {a \in A : a.notebook \in N}] :
     t \in ReadTimes, q \in Queries, N \in NotebookIds,
     A \in UNION {kSubset(k, Attempts) : k \in 0 .. MaxAttempts}}

-----------------------------------------------------------------------------

FromClient(I) == {i \in I : "client" \in DOMAIN events[i].by}

OfGeneration(g) == {i \in DOMAIN events : events[i].by = [generation |-> g]}

(* Rows ever committed for an activity that was accepted.                  *)
RowsOf(a) ==
  {i \in DOMAIN events : /\ events[i].by = [client |-> a.key]
                         /\ events[i].notebook = a.notebook}

(* The limits of what clients report hold at any time, for every minute    *)
(* and every UTC day, not only for the last one when an event was checked: *)
(* calls overlap, and an event has the time at which its call came.  They  *)
(* are limits of the rows in the table: a deleted notebook frees them.     *)
LimitsKept ==
  \A t \in 0 .. now :
    LET minute == FromClient(Since(t) \ Since(t + Window + 1))
        day == FromClient(Since(DayStart(t)) \ Since(DayStart(t) + DayLength))
    IN /\ Cardinality(minute) <= WindowLimit
       /\ Cardinality(day) <= DayEvents
       /\ SecondsOf(events, day) <= DaySeconds
       /\ Reviewed(events, day) <= DayCards

(* A generation stores its material once at most, complete and as it was   *)
(* asked for, with exactly one event that says how much it is, and, where  *)
(* there is a quota, only if a unit was reserved for it.  An activity that *)
(* was accepted, at first or when it was reported again, was recorded once *)
(* and as it was reported.  No event is lost before its notebook, and no   *)
(* key has two events in the table, though a key may serve again when the  *)
(* notebook of its event was deleted.                                      *)
EventsAreExact ==
  /\ \A g \in 1 .. MaxGenerations :
       /\ Len(made[g]) = Cardinality(OfGeneration(g))
       /\ Len(made[g]) <= (IF g <= generations THEN 1 ELSE 0)
       /\ QuotaEnabled /\ made[g] # <<>> => g \in charged
       /\ \A i \in OfGeneration(g) :
            LET m == made[g][1] IN
            /\ m.items = m.asked
            /\ events[i].notebook = m.notebook
            /\ events[i].quantity =
                 IF m.asked["flashcard"] > 0 THEN m.asked["flashcard"] ELSE 1
  /\ \A a \in accepted :
       /\ Cardinality(RowsOf(a)) = 1
       /\ \A i \in RowsOf(a) :
            /\ events[i].kind = a.activity.kind
            /\ events[i].quantity = a.activity.quantity
            /\ events[i].seconds = a.activity.seconds
  /\ \A i \in DOMAIN events : Exists(events[i].notebook) => i \in stored
  /\ \A key \in Keys : Cardinality(OfKey(key)) <= 1

LongestRun(days) ==
  Max({0} \cup {n \in 1 .. Cardinality(days) :
                  \E d \in days : d .. d + n - 1 \subseteq days})

(* Statistics agree with each other and with the activity that they are    *)
(* made of, even when midnight passes or an exam is completed between the  *)
(* reads, or a notebook is not the user's any more.  Calls that run may    *)
(* all fail, so that nothing is missed by looking when there are none.     *)
StatisticsAddUp ==
  now > 0 /\ (\A c \in Slots : call[c] = Idle) => \A s \in Snapshots :
    LET active_dates == ActiveDays(s)
        data == Statistics(s)
        streak == data.streak
        points == data.learning
    IN /\ streak.best = LongestRun(active_dates)
       /\ streak.current <= streak.best
       /\ streak.current > 0 <=> streak.days[0] \/ streak.days[1]
       /\ \A d \in DOMAIN points :
            points[d].exams + points[d].cards + points[d].seconds > 0 =>
              d \in active_dates
       /\ Total(DOMAIN points, [d \in DOMAIN points |-> points[d].seconds]) <= data.total
       /\ Total(DOMAIN data.time, data.time) <= data.total
=============================================================================
