------------------------- MODULE StudyActivityProofs --------------------------
(***************************************************************************)
(* StudyActivity, for any notebooks, requests, activities, keys, limits    *)
(* and bounds, with or without a quota: generations and reports are exact, *)
(* limits hold of every minute and day, and statistics add up.             *)
(***************************************************************************)
EXTENDS StudyActivity, FiniteSetTheorems, TLAPS

(* A call that generates and has passed the reservation.                   *)
Paying(c) == call[c] # Idle /\ call[c].op = "generate" /\ call[c].step # "reserve"

(* Its number is one that was given, with a unit if there is a quota.      *)
Fits(k) ==
  k.number \in 1 .. generations /\ (QuotaEnabled => k.number \in charged)

(* What a call knows: its number, and when it stores its draft, that this  *)
(* is what was asked for.                                                  *)
CallsFit ==
  \A c \in Slots :
    /\ Paying(c) => Fits(call[c])
    /\ InStep(c, "generate", "persist") => call[c].draft = call[c].asked

TypeInv == StudyTypeOK /\ CallsFit

Calls == Recording \cup Generation

(* A call that runs is of one of the two kinds.                             *)
LEMMA Running ==
  ASSUME StudyTypeOK, NEW c \in Slots, call[c] # Idle
  PROVE  /\ call[c] \in Calls
         /\ call[c].op = "record" => call[c] \in Recording
         /\ call[c].op = "generate" => call[c] \in Generation
BY DEF StudyTypeOK, Calls, Recording, Generation

(* A slot runs a call, and the other slots go on.                           *)
LEMMA Ran ==
  ASSUME StudyTypeOK, NEW c \in Slots, NEW k \in Calls \cup {Idle}, Run(c, k)
  PROVE  /\ call' \in [Slots -> Recording \cup Generation \cup {Idle}]
         /\ call'[c] = k
         /\ \A d \in Slots \ {c} : call'[d] = call[d]
BY DEF StudyTypeOK, Run, Calls

(* A slot is free, and the other slots go on.                               *)
LEMMA Finished ==
  ASSUME StudyTypeOK, NEW c \in Slots, Finish(c)
  PROVE  /\ call' \in [Slots -> Recording \cup Generation \cup {Idle}]
         /\ call'[c] = Idle
         /\ \A d \in Slots \ {c} : call'[d] = call[d]
BY Ran DEF Finish

(* The calls fit when one of them moves on to a call that fits.            *)
LEMMA FitMoved ==
  ASSUME TypeInv, NEW c \in Slots, NEW k \in Calls \cup {Idle}, Run(c, k),
         UNCHANGED <<generations, charged>>,
         k # Idle /\ k.op = "generate" /\ k.step # "reserve" => Fits(k),
         k # Idle /\ k.op = "generate" /\ k.step = "persist" => k.draft = k.asked
  PROVE  CallsFit'
<1>1. call'[c] = k /\ \A d \in Slots \ {c} : call'[d] = call[d]
  BY Ran DEF TypeInv
<1>2. ASSUME NEW d \in Slots
      PROVE  /\ Paying(d)' => Fits(call[d])'
             /\ InStep(d, "generate", "persist")' => call'[d].draft = call'[d].asked
  BY <1>1, <1>2 DEF TypeInv, CallsFit, Paying, InStep, Fits
<1> QED
  BY <1>2 DEF CallsFit

LEMMA FitStays ==
  ASSUME TypeInv, UNCHANGED <<call, generations, charged>>
  PROVE  CallsFit'
BY DEF TypeInv, CallsFit, Paying, InStep, Fits

LEMMA TypeFails ==
  ASSUME TypeInv, NEW c \in Slots, Finish(c), UNCHANGED <<tables, accepted>>
  PROVE  TypeInv'
<1>1. call' \in [Slots -> Recording \cup Generation \cup {Idle}]
  BY Finished DEF TypeInv
<1>2. CallsFit'
  BY FitMoved DEF Finish, tables
<1> QED
  BY <1>1, <1>2 DEF TypeInv, StudyTypeOK, tables, Exists

LEMMA TypeMoves ==
  ASSUME TypeInv, NEW c \in Slots, NEW k \in Calls, Run(c, k),
         UNCHANGED <<tables, accepted>>,
         k.op = "generate" /\ k.step # "reserve" => Fits(k),
         k.op = "generate" /\ k.step = "persist" => k.draft = k.asked
  PROVE  TypeInv'
<1>1. call' \in [Slots -> Recording \cup Generation \cup {Idle}]
  BY Ran DEF TypeInv
<1>2. CallsFit'
  BY FitMoved DEF tables
<1> QED
  BY <1>1, <1>2 DEF TypeInv, StudyTypeOK, tables, Exists

LEMMA TypeBegins ==
  ASSUME TypeInv, NEW c \in Slots, NEW n \in Notebooks, NEW r \in Requests, Begin(c, n, r)
  PROVE  TypeInv'
<1> DEFINE k == [op |-> "generate", step |-> "reserve", notebook |-> n, asked |-> r,
                 draft |-> NoItems, number |-> 0]
<1>1. k \in Calls
  BY StudyAssumption DEF Calls, Generation
<1> QED
  BY <1>1, TypeMoves DEF Begin

LEMMA TypeReserves ==
  ASSUME TypeInv, NEW c \in Slots, ReserveUnit(c)
  PROVE  TypeInv'
<1> DEFINE k == [call[c] EXCEPT !.step = "retrieve", !.number = generations + 1]
<1>1. call[c] \in Generation
  BY Running DEF ReserveUnit, InStep, TypeInv
<1>2. /\ generations \in Nat /\ generations' = generations + 1
      /\ generations + 1 \in 0 .. MaxGenerations
  <2>1. generations \in 0 .. MaxGenerations
    BY DEF TypeInv, StudyTypeOK
  <2>2. generations < MaxGenerations /\ generations' = generations + 1
    BY DEF ReserveUnit
  <2> QED
    BY <2>1, <2>2, StudyAssumption
<1>3. k \in Calls /\ k.number = generations + 1 /\ k.step = "retrieve"
  BY <1>1, <1>2 DEF Calls, Generation
<1>4. call' \in [Slots -> Recording \cup Generation \cup {Idle}]
      /\ call'[c] = k /\ \A d \in Slots \ {c} : call'[d] = call[d]
  BY <1>3, Ran DEF ReserveUnit, TypeInv
<1> HIDE DEF k
<1>5. /\ charged' \subseteq 1 .. generations' /\ charged \subseteq charged'
      /\ QuotaEnabled => generations + 1 \in charged'
  BY <1>2 DEF ReserveUnit, TypeInv, StudyTypeOK
<1>6. CallsFit'
  <2>1. ASSUME NEW d \in Slots
        PROVE  /\ Paying(d)' => Fits(call[d])'
               /\ InStep(d, "generate", "persist")' => call'[d].draft = call'[d].asked
    <3>1. CASE d = c
      <4>1. call'[d].number = generations + 1 /\ call'[d].step = "retrieve"
        BY <1>3, <1>4, <3>1
      <4>2. Fits(call[d])'
        BY <1>2, <1>5, <4>1 DEF Fits
      <4> QED
        BY <4>1, <4>2 DEF InStep
    <3>2. CASE d # c
      BY <1>2, <1>4, <1>5, <3>2 DEF TypeInv, CallsFit, Paying, InStep, Fits
    <3> QED
      BY <3>1, <3>2
  <2> QED
    BY <2>1 DEF CallsFit
<1> QED
  BY <1>2, <1>4, <1>5, <1>6 DEF ReserveUnit, TypeInv, StudyTypeOK, Exists

LEMMA TypeRetrieves ==
  ASSUME TypeInv, NEW c \in Slots, GenerationSources(c)
  PROVE  TypeInv'
<1> DEFINE k == [call[c] EXCEPT !.step = "complete"]
<1>1. call[c] \in Generation /\ Fits(call[c])
  BY Running DEF GenerationSources, InStep, Paying, TypeInv, CallsFit
<1>2. k \in Calls /\ k.number = call[c].number /\ k.step = "complete"
  BY <1>1 DEF Calls, Generation
<1> QED
  BY <1>1, <1>2, TypeMoves, TypeFails DEF GenerationSources, AskOpenRouter, Fits

LEMMA TypeCompletes ==
  ASSUME TypeInv, NEW c \in Slots, Complete(c)
  PROVE  TypeInv'
<1>1. call[c] \in Generation /\ Fits(call[c])
  BY Running DEF Complete, InStep, Paying, TypeInv, CallsFit
<1>2. PICK d \in StructuredCompletion(call[c].asked) :
        /\ ValidCounts(d, call[c].asked)
        /\ AskOpenRouter(c, [call[c] EXCEPT !.step = "persist", !.draft = d])
  BY DEF Complete
<1> DEFINE k == [call[c] EXCEPT !.step = "persist", !.draft = d]
<1>3. d \in Requests /\ call[c].asked \in Requests
  BY <1>1 DEF StructuredCompletion, FlashcardDrafts, ExamDrafts, Requests, Generation
<1>4. d = call[c].asked
  BY <1>2, <1>3, StudyAssumption DEF Requests, ValidCounts
<1>5. k \in Calls /\ k.number = call[c].number /\ k.draft = k.asked
  BY <1>1, <1>3, <1>4 DEF Calls, Generation
<1> QED
  BY <1>1, <1>2, <1>5, TypeMoves, TypeFails DEF Complete, AskOpenRouter, Fits

(* A row that is committed is one more, and is in the table.               *)
LEMMA EventsAdded ==
  ASSUME StudyTypeOK, NEW e \in Event, Commit(e)
  PROVE  /\ events' \in Seq(Event)
         /\ Len(events') = Len(events) + 1
         /\ DOMAIN events' = DOMAIN events \cup {Len(events) + 1}
         /\ Len(events) + 1 \notin DOMAIN events
         /\ events'[Len(events) + 1] = e
         /\ \A i \in DOMAIN events : events'[i] = events[i]
         /\ stored' = stored \cup {Len(events) + 1} /\ Exists(e.notebook)
<1>1. events \in Seq(Event) /\ events' = Append(events, e)
      /\ stored' = stored \cup {Len(events) + 1} /\ Exists(e.notebook)
  BY DEF StudyTypeOK, Commit
<1>2. Len(events) \in Nat /\ DOMAIN events = 1 .. Len(events)
  BY <1>1
<1> QED
  BY <1>1, <1>2

(* The rows of the table are rows of notebooks that exist.                 *)
LEMMA RowsAdded ==
  ASSUME StudyTypeOK, NEW e \in Event, Commit(e), access' = access
  PROVE  stored' \subseteq {i \in DOMAIN events' : Exists(events[i].notebook)'}
<1>1. /\ DOMAIN events' = DOMAIN events \cup {Len(events) + 1}
      /\ events'[Len(events) + 1] = e
      /\ \A i \in DOMAIN events : events'[i] = events[i]
      /\ stored' = stored \cup {Len(events) + 1} /\ Exists(e.notebook)
  BY EventsAdded
<1>2. stored \subseteq {i \in DOMAIN events : Exists(events[i].notebook)}
  BY DEF StudyTypeOK
<1> QED
  BY <1>1, <1>2 DEF Exists

(* The event of what a call stores.                                        *)
LEMMA MaterialTypes ==
  ASSUME TypeInv, NEW c \in Slots, InStep(c, "generate", "persist"), NEW quantity \in Nat
  PROVE  /\ call[c] \in Generation /\ Fits(call[c])
         /\ call[c].number \in 1 .. MaxGenerations
         /\ MaterialEvent(call[c], quantity) \in Event
<1> DEFINE k == call[c]
<1>1. k \in Generation /\ Fits(k)
  BY Running DEF InStep, Paying, TypeInv, CallsFit
<1>2. generations \in 0 .. MaxGenerations /\ now \in 0 .. MaxTime
  BY DEF TypeInv, StudyTypeOK
<1>3. k.number \in 1 .. MaxGenerations
  BY <1>1, <1>2, StudyAssumption DEF Fits
<1>4. [generation |-> k.number] \in Sources
  BY <1>3 DEF Sources
<1>5. MaterialEvent(k, quantity) \in Event
  BY <1>1, <1>2, <1>4 DEF Event, Generation, MaterialEvent
<1> QED
  BY <1>1, <1>3, <1>5

LEMMA TypeStores ==
  ASSUME TypeInv, NEW c \in Slots, InStep(c, "generate", "persist"),
         call[c].draft \in Requests, NEW quantity \in Nat,
         StoreMaterial(call[c], quantity), Finish(c), UNCHANGED accepted
  PROVE  TypeInv'
<1> DEFINE k == call[c]
<1> DEFINE e == MaterialEvent(k, quantity)
<1> DEFINE m == [asked |-> k.asked, items |-> k.draft, notebook |-> k.notebook]
<1>1. k \in Generation /\ k.number \in 1 .. MaxGenerations /\ e \in Event
  BY MaterialTypes
<1>2. Commit(e) /\ access' = access
  BY DEF StoreMaterial
<1> HIDE DEF e
<1>3. /\ events' \in Seq(Event)
      /\ stored' \subseteq {i \in DOMAIN events' : Exists(events[i].notebook)'}
  BY <1>1, <1>2, EventsAdded, RowsAdded DEF TypeInv
<1>4. m \in Material
  BY <1>1 DEF Material, Generation
<1>5. made' \in [1 .. MaxGenerations -> Seq(Material)]
  <2>1. made \in [1 .. MaxGenerations -> Seq(Material)] /\ made[k.number] \in Seq(Material)
    BY <1>1 DEF TypeInv, StudyTypeOK
  <2>2. Append(made[k.number], m) \in Seq(Material)
    BY <1>4, <2>1
  <2> QED
    BY <2>1, <2>2 DEF StoreMaterial
<1>6. call' \in [Slots -> Recording \cup Generation \cup {Idle}]
  BY Finished DEF TypeInv
<1>7. CallsFit'
  BY FitMoved DEF Finish, StoreMaterial
<1> QED
  BY <1>3, <1>5, <1>6, <1>7 DEF StoreMaterial, TypeInv, StudyTypeOK

LEMMA SizeIsNat ==
  ASSUME NEW d \in Requests
  PROVE  Size(d) \in Nat
BY StudyAssumption DEF Requests, Size, Types

LEMMA TypePersists ==
  ASSUME TypeInv, NEW c \in Slots, PersistFlashcards(c) \/ PersistExam(c)
  PROVE  TypeInv'
<1>1. CASE PersistFlashcards(c)
  <2>1. call[c].draft \in Requests /\ Size(call[c].draft) \in Nat
    BY <1>1, SizeIsNat DEF PersistFlashcards, Requests
  <2> QED
    BY <1>1, <2>1, TypeStores DEF PersistFlashcards
<1>2. CASE PersistExam(c)
  <2>1. call[c].draft \in Requests
    BY <1>2 DEF PersistExam, Requests
  <2> QED
    BY <1>2, <2>1, TypeStores DEF PersistExam
<1> QED
  BY <1>1, <1>2

(* Either event of the server.                                             *)
LEMMA ServerTypes ==
  ASSUME StudyTypeOK, NEW n \in Notebooks, Len(events) < MaxEvents
  PROVE  ServerEvent(n) \in Event
<1> DEFINE number == Cardinality(ServerEvents) + 1
<1>1. events \in Seq(Event) /\ Len(events) \in Nat /\ DOMAIN events = 1 .. Len(events)
  BY DEF StudyTypeOK
<1>2. IsFiniteSet(1 .. Len(events)) /\ Cardinality(1 .. Len(events)) = Len(events)
  <2>1. IsFiniteSet(1 .. Len(events))
    BY <1>1, FS_Interval
  <2>2. Cardinality(1 .. Len(events)) = IF 1 > Len(events) THEN 0 ELSE Len(events) - 1 + 1
    BY <1>1, FS_Interval
  <2> QED
    BY <1>1, <2>1, <2>2
<1>3. ServerEvents \subseteq 1 .. Len(events)
  BY <1>1 DEF ServerEvents
<1>4. IsFiniteSet(ServerEvents) /\ Cardinality(ServerEvents) <= Len(events)
  BY <1>2, <1>3, FS_Subset
<1>5. Cardinality(ServerEvents) \in Nat
  BY <1>4, FS_CardinalityType
<1>6. number \in 1 .. MaxEvents
  BY <1>1, <1>4, <1>5, StudyAssumption
<1> HIDE DEF number
<1>7. [server |-> number] \in Sources
  BY <1>6 DEF Sources
<1>8. now \in 0 .. MaxTime
  BY DEF StudyTypeOK
<1> QED
  BY <1>7, <1>8 DEF Event, ServerEvent, number

LEMMA TypeServes ==
  ASSUME TypeInv, NEW n \in Notebooks, CommitServerEvent(n)
  PROVE  TypeInv'
<1>1. ServerEvent(n) \in Event /\ Commit(ServerEvent(n)) /\ access' = access
  BY ServerTypes DEF CommitServerEvent, TypeInv
<1>2. /\ events' \in Seq(Event)
      /\ stored' \subseteq {i \in DOMAIN events' : Exists(events[i].notebook)'}
  BY <1>1, EventsAdded, RowsAdded DEF TypeInv
<1>3. CallsFit'
  BY FitStays DEF CommitServerEvent
<1> QED
  BY <1>2, <1>3 DEF CommitServerEvent, TypeInv, StudyTypeOK

LEMMA TypeRecords ==
  ASSUME TypeInv, NEW c \in Slots, NEW n \in Notebooks, NEW a \in Activities,
         NEW key \in Keys, Record(c, n, a, key)
  PROVE  TypeInv'
<1> DEFINE k == [op |-> "record", step |-> "wait", notebook |-> n, activity |-> a,
                 key |-> key, since |-> now]
<1>1. k \in Calls
  BY DEF Calls, Recording, TypeInv, StudyTypeOK
<1> QED
  BY <1>1, TypeMoves DEF Record

(* The event of a call that records, and what it is answered for.          *)
LEMMA RecordedTypes ==
  ASSUME StudyTypeOK, NEW k \in Recording
  PROVE  /\ EventOf(k) \in Event
         /\ [notebook |-> k.notebook, activity |-> k.activity, key |-> k.key]
              \in [notebook : Notebooks, activity : Activities, key : Keys]
<1>1. k.notebook \in Notebooks /\ k.activity \in Activities /\ k.key \in Keys
      /\ k.since \in 0 .. MaxTime
  BY DEF Recording
<1>2. /\ k.activity.kind \in {"study_session", "flashcard_reviewed"}
      /\ k.activity.quantity \in Nat /\ k.activity.seconds \in Nat
  BY <1>1, StudyAssumption
<1>3. [client |-> k.key] \in Sources
  BY <1>1 DEF Sources
<1> QED
  BY <1>1, <1>2, <1>3 DEF EventOf, Event

LEMMA TypeReplays ==
  ASSUME TypeInv, NEW c \in Slots, Replay(c)
  PROVE  TypeInv'
<1>1. call[c] \in Recording
  BY Running DEF Replay, InStep, TypeInv
<1>2. accepted' \subseteq [notebook : Notebooks, activity : Activities, key : Keys]
  BY <1>1, RecordedTypes DEF Replay, Accept, TypeInv, StudyTypeOK
<1>3. call' \in [Slots -> Recording \cup Generation \cup {Idle}]
  BY Finished DEF Replay, TypeInv
<1>4. CallsFit'
  BY FitMoved DEF Replay, Finish, tables
<1> QED
  BY <1>2, <1>3, <1>4 DEF Replay, TypeInv, StudyTypeOK, tables, Exists

LEMMA TypeChecks ==
  ASSUME TypeInv, NEW c \in Slots, Check(c)
  PROVE  TypeInv'
<1> DEFINE k == [call[c] EXCEPT !.step = "insert"]
<1>1. call[c] \in Recording
  BY Running DEF Check, InStep, TypeInv
<1>2. k \in Calls /\ k.op = "record"
  BY <1>1 DEF Calls, Recording
<1> QED
  BY <1>2, TypeMoves DEF Check

LEMMA TypeInserts ==
  ASSUME TypeInv, NEW c \in Slots, Insert(c)
  PROVE  TypeInv'
<1>1. call[c] \in Recording
  BY Running DEF Insert, InStep, TypeInv
<1>2. accepted' \subseteq [notebook : Notebooks, activity : Activities, key : Keys]
  BY <1>1, RecordedTypes DEF Insert, Accept, TypeInv, StudyTypeOK
<1>3. /\ events' \in Seq(Event)
      /\ stored' \subseteq {i \in DOMAIN events' : Exists(events[i].notebook)'}
  BY <1>1, RecordedTypes, EventsAdded, RowsAdded DEF Insert, TypeInv
<1>4. call' \in [Slots -> Recording \cup Generation \cup {Idle}]
  BY Finished DEF Insert, TypeInv
<1>5. CallsFit'
  BY FitMoved DEF Insert, Finish
<1> QED
  BY <1>2, <1>3, <1>4, <1>5 DEF Insert, TypeInv, StudyTypeOK

(* Rows are of notebooks.                                                  *)
LEMMA NotebooksOfRows ==
  ASSUME StudyTypeOK, NEW i \in DOMAIN events
  PROVE  events[i] \in Event /\ events[i].notebook \in Notebooks
<1>1. events \in Seq(Event)
  BY DEF StudyTypeOK
<1>2. events[i] \in Event
  BY <1>1
<1> QED
  BY <1>2 DEF Event

(* What a deletion leaves: rows of notebooks that exist.                   *)
LEMMA RowsLeft ==
  ASSUME StudyTypeOK, NEW n \in Notebooks, DeleteNotebook(n)
  PROVE  /\ access' \in [Notebooks -> {"none", "read", "manage", "deleted"}]
         /\ \A i \in DOMAIN events :
              /\ events[i].notebook \in Notebooks
              /\ Exists(events[i].notebook)' <=>
                   Exists(events[i].notebook) /\ events[i].notebook # n
         /\ stored' = {i \in stored : events[i].notebook # n}
         /\ stored' \subseteq {i \in DOMAIN events' : Exists(events[i].notebook)'}
<1>1. /\ access \in [Notebooks -> {"none", "read", "manage", "deleted"}]
      /\ access' = [access EXCEPT ![n] = "deleted"] /\ events' = events
      /\ stored' = {i \in stored : events[i].notebook # n}
      /\ stored \subseteq {i \in DOMAIN events : Exists(events[i].notebook)}
  BY DEF StudyTypeOK, DeleteNotebook, Cascade
<1>2. ASSUME NEW i \in DOMAIN events
      PROVE  /\ events[i].notebook \in Notebooks
             /\ Exists(events[i].notebook)' <=>
                  Exists(events[i].notebook) /\ events[i].notebook # n
  BY <1>1, NotebooksOfRows DEF Exists
<1> QED
  BY <1>1, <1>2

LEMMA TypeElsewhere ==
  ASSUME TypeInv,
         \/ \E n \in Notebooks, a \in {"none", "read", "manage"} : SetAccess(n, a)
         \/ \E n \in Notebooks : DeleteNotebook(n)
         \/ Tick
         \/ UNCHANGED studyVars
  PROVE  TypeInv'
<1>1. CallsFit'
  BY FitStays DEF SetAccess, DeleteNotebook, Tick, studyVars, tables
<1>2. ASSUME NEW n \in Notebooks, NEW a \in {"none", "read", "manage"}, SetAccess(n, a)
      PROVE  TypeInv'
  <2>1. /\ access' = [access EXCEPT ![n] = a]
        /\ access \in [Notebooks -> {"none", "read", "manage", "deleted"}]
        /\ UNCHANGED <<events, stored>>
    BY <1>2 DEF SetAccess, TypeInv, StudyTypeOK
  <2>2. \A m \in Notebooks : Exists(m) => Exists(m)'
    BY <2>1 DEF Exists
  <2>3. \A i \in DOMAIN events : events[i].notebook \in Notebooks
    BY NotebooksOfRows DEF TypeInv
  <2>4. stored' \subseteq {i \in DOMAIN events' : Exists(events[i].notebook)'}
    BY <2>1, <2>2, <2>3 DEF TypeInv, StudyTypeOK
  <2> QED
    BY <1>1, <1>2, <2>1, <2>4 DEF SetAccess, TypeInv, StudyTypeOK
<1>3. ASSUME NEW n \in Notebooks, DeleteNotebook(n)
      PROVE  TypeInv'
  BY <1>1, <1>3, RowsLeft DEF DeleteNotebook, TypeInv, StudyTypeOK
<1>4. CASE Tick
  <2>1. now' \in 0 .. MaxTime
    BY <1>4, StudyAssumption DEF Tick, TypeInv, StudyTypeOK
  <2> QED
    BY <1>1, <1>4, <2>1 DEF Tick, TypeInv, StudyTypeOK, Exists
<1>5. CASE UNCHANGED studyVars
  BY <1>1, <1>5 DEF studyVars, tables, TypeInv, StudyTypeOK, Exists
<1> QED
  BY <1>2, <1>3, <1>4, <1>5

LEMMA TypeInitial == StudyInit => TypeInv
<1> SUFFICES ASSUME StudyInit PROVE TypeInv
  OBVIOUS
<1>1. now \in 0 .. MaxTime /\ generations \in 0 .. MaxGenerations
  BY StudyAssumption DEF StudyInit
<1>2. \A c \in Slots : call[c] = Idle
  BY DEF StudyInit
<1>3. made \in [1 .. MaxGenerations -> Seq(Material)] /\ events \in Seq(Event)
  BY DEF StudyInit
<1> QED
  BY <1>1, <1>2, <1>3 DEF StudyInit, TypeInv, StudyTypeOK, CallsFit, Paying, InStep

-----------------------------------------------------------------------------
(* The invariant.                                                          *)

(* Generations of calls that run are their own, and have stored nothing.   *)
GenerationsApart ==
  /\ \A c, d \in Slots :
       Paying(c) /\ Paying(d) /\ call[c].number = call[d].number => c = d
  /\ \A c \in Slots, u \in 1 .. MaxGenerations :
       Paying(c) /\ call[c].number = u => made[u] = <<>> /\ OfGeneration(u) = {}

Matches(e, m) ==
  /\ m.items = m.asked
  /\ e.notebook = m.notebook
  /\ e.quantity = IF m.asked["flashcard"] > 0 THEN m.asked["flashcard"] ELSE 1

GenerationPaid(u) ==
  \/ made[u] = <<>> /\ OfGeneration(u) = {}
  \/ /\ u <= generations /\ Len(made[u]) = 1 /\ (QuotaEnabled => u \in charged)
     /\ \E i \in DOMAIN events : OfGeneration(u) = {i} /\ Matches(events[i], made[u][1])

GenerationsPaid == \A u \in 1 .. MaxGenerations : GenerationPaid(u)

(* A call that is to insert is alone, and its key is new.                  *)
InsertsAlone ==
  /\ \A c, d \in Slots :
       InStep(c, "record", "insert") /\ InStep(d, "record", "insert") => c = d
  /\ \A c \in Slots, key \in Keys :
       InStep(c, "record", "insert") /\ call[c].key = key => OfKey(key) = {}

(* A row stays in the table while its notebook exists, and none of the     *)
(* same key and notebook is ever added.                                    *)
IsReport(e, key, n) == e.by = [client |-> key] /\ e.notebook = n

TableKept ==
  /\ \A i \in DOMAIN events : Exists(events[i].notebook) => i \in stored
  /\ \A key \in Keys, n \in Notebooks : \A i, j \in DOMAIN events :
       IsReport(events[i], key, n) /\ IsReport(events[j], key, n) => i = j

KeysOnce == \A key \in Keys : \A i, j \in OfKey(key) : i = j

Reports(e, a) ==
  /\ e.notebook = a.notebook /\ e.kind = a.activity.kind
  /\ e.quantity = a.activity.quantity /\ e.seconds = a.activity.seconds

AcceptedRecorded ==
  \A a \in accepted : \E i \in RowsOf(a) : Reports(events[i], a)

Inv ==
  /\ TypeInv /\ GenerationsApart /\ GenerationsPaid
  /\ InsertsAlone /\ TableKept /\ KeysOnce /\ AcceptedRecorded

(* What an event that is added does to the events of a generation, of a    *)
(* key and of a report.                                                    *)
LEMMA Indices ==
  ASSUME StudyTypeOK, NEW e \in Event, Commit(e)
  PROVE  /\ \A u : OfGeneration(u)' = OfGeneration(u) \cup
              IF e.by = [generation |-> u] THEN {Len(events) + 1} ELSE {}
         /\ \A key : OfKey(key)' = OfKey(key) \cup
              IF e.by = [client |-> key] THEN {Len(events) + 1} ELSE {}
<1>1. /\ DOMAIN events' = DOMAIN events \cup {Len(events) + 1}
      /\ Len(events) + 1 \notin DOMAIN events
      /\ events'[Len(events) + 1] = e
      /\ \A i \in DOMAIN events : events'[i] = events[i]
      /\ stored' = stored \cup {Len(events) + 1}
  BY EventsAdded
<1>2. stored \subseteq DOMAIN events
  BY DEF StudyTypeOK
<1> QED
  BY <1>1, <1>2 DEF OfGeneration, OfKey

(* Sources of different kinds differ.                                      *)
LEMMA SourcesApart ==
  ASSUME NEW x, NEW y
  PROVE  /\ [client |-> x] # [generation |-> y]
         /\ [server |-> x] # [generation |-> y]
         /\ [server |-> x] # [client |-> y]
         /\ [generation |-> x] = [generation |-> y] => x = y
         /\ [client |-> x] = [client |-> y] => x = y
<1>1. [generation |-> x] = [generation |-> y] => [generation |-> x].generation = [generation |-> y].generation
  OBVIOUS
<1>2. [client |-> x] = [client |-> y] => [client |-> x].client = [client |-> y].client
  OBVIOUS
<1>3. /\ DOMAIN [client |-> x] = {"client"} /\ DOMAIN [server |-> x] = {"server"}
      /\ DOMAIN [generation |-> y] = {"generation"} /\ DOMAIN [client |-> y] = {"client"}
  OBVIOUS
<1>4. {"client"} # {"generation"} /\ {"server"} # {"generation"} /\ {"server"} # {"client"}
  OBVIOUS
<1>5. [client |-> x] # [generation |-> y]
  BY <1>3, <1>4
<1>6. [server |-> x] # [generation |-> y] /\ [server |-> x] # [client |-> y]
  BY <1>3, <1>4
<1> QED
  BY <1>1, <1>2, <1>5, <1>6

(* When rows and what was generated stay, so do generations and reports.   *)
LEMMA GenerationsStay ==
  ASSUME Inv, UNCHANGED <<events, made>>, generations' \in {generations, generations + 1},
         charged \subseteq charged'
  PROVE  GenerationsPaid'
<1>1. \A u : OfGeneration(u)' = OfGeneration(u)
  BY DEF OfGeneration
<1>2. ASSUME NEW u \in 1 .. MaxGenerations, u <= generations PROVE u <= generations'
  <2>1. generations \in Nat
    BY StudyAssumption DEF Inv, TypeInv, StudyTypeOK
  <2> QED
    BY <1>2, <2>1
<1> QED
  BY <1>1, <1>2 DEF Inv, GenerationsPaid, GenerationPaid, Matches

LEMMA RowsStay ==
  ASSUME Inv, UNCHANGED <<events, stored, access>>
  PROVE  TableKept' /\ KeysOnce'
<1>1. \A key : OfKey(key)' = OfKey(key)
  BY DEF OfKey
<1> QED
  BY <1>1 DEF Inv, TableKept, KeysOnce, Exists

LEMMA AcceptedStay ==
  ASSUME Inv, UNCHANGED <<events, accepted>>
  PROVE  AcceptedRecorded'
<1>1. \A a : RowsOf(a)' = RowsOf(a)
  BY DEF RowsOf
<1> QED
  BY <1>1 DEF Inv, AcceptedRecorded, Reports

(* One call moves on while nothing is stored.                              *)
LEMMA MovedApart ==
  ASSUME Inv, NEW c \in Slots, NEW k \in Calls \cup {Idle}, Run(c, k),
         UNCHANGED <<events, stored, made>>,
         k # Idle /\ k.op = "generate" /\ k.step # "reserve" =>
           Paying(c) /\ k.number = call[c].number,
         k # Idle /\ k.op = "record" /\ k.step = "insert" =>
           Unlocked /\ OfKey(k.key) = {}
  PROVE  GenerationsApart' /\ InsertsAlone'
<1>1. call'[c] = k /\ \A d \in Slots \ {c} : call'[d] = call[d]
  BY Ran DEF Inv, TypeInv
<1>2. \A u : OfGeneration(u)' = OfGeneration(u)
  BY DEF OfGeneration
<1>3. \A key : OfKey(key)' = OfKey(key)
  BY DEF OfKey
<1>4. \A d \in Slots : Paying(d)' => Paying(d) /\ call'[d].number = call[d].number
  BY <1>1 DEF Paying
<1>5. GenerationsApart'
  <2>1. \A d, e \in Slots :
          Paying(d)' /\ Paying(e)' /\ call'[d].number = call'[e].number => d = e
    BY <1>4 DEF Inv, GenerationsApart
  <2>2. \A d \in Slots, u \in 1 .. MaxGenerations : Paying(d)' /\ call'[d].number = u =>
          made'[u] = <<>> /\ OfGeneration(u)' = {}
    BY <1>2, <1>4 DEF Inv, GenerationsApart
  <2> QED
    BY <2>1, <2>2 DEF GenerationsApart
<1>6. ASSUME NEW d \in Slots, InStep(d, "record", "insert")'
      PROVE  /\ \A key \in Keys : call'[d].key = key => OfKey(key)' = {}
             /\ \A e \in Slots : InStep(e, "record", "insert")' => d = e
  <2>1. CASE d = c
    <3>1. k # Idle /\ k.op = "record" /\ k.step = "insert" /\ Unlocked /\ OfKey(k.key) = {}
      BY <1>1, <1>6, <2>1 DEF InStep
    <3>2. \A e \in Slots \ {c} : ~InStep(e, "record", "insert")'
      BY <1>1, <3>1 DEF InStep, Unlocked
    <3> QED
      BY <1>1, <1>3, <2>1, <3>1, <3>2
  <2>2. CASE d # c
    <3>1. InStep(d, "record", "insert") /\ call'[d] = call[d]
      BY <1>1, <1>6, <2>2 DEF InStep
    <3>2. ~(k # Idle /\ k.op = "record" /\ k.step = "insert")
      BY <3>1 DEF Unlocked
    <3>3. \A e \in Slots : InStep(e, "record", "insert")' =>
            e # c /\ InStep(e, "record", "insert")
      BY <1>1, <3>2 DEF InStep
    <3> QED
      BY <1>3, <3>1, <3>3 DEF Inv, InsertsAlone
  <2> QED
    BY <2>1, <2>2
<1>7. InsertsAlone'
  BY <1>6 DEF InsertsAlone
<1> QED
  BY <1>5, <1>7

LEMMA InvMoves ==
  ASSUME Inv, TypeInv', NEW c \in Slots, NEW k \in Calls \cup {Idle}, Run(c, k),
         UNCHANGED <<tables, accepted>>,
         k # Idle /\ k.op = "generate" /\ k.step # "reserve" =>
           Paying(c) /\ k.number = call[c].number,
         k # Idle /\ k.op = "record" /\ k.step = "insert" =>
           Unlocked /\ OfKey(k.key) = {}
  PROVE  Inv'
<1>1. UNCHANGED <<access, events, stored, generations, charged, made, accepted>>
  BY DEF tables
<1>2. GenerationsApart' /\ InsertsAlone'
  BY <1>1, MovedApart
<1> QED
  BY <1>1, <1>2, GenerationsStay, RowsStay, AcceptedStay DEF Inv

LEMMA InvFails ==
  ASSUME Inv, NEW c \in Slots, Finish(c), UNCHANGED <<tables, accepted>>
  PROVE  Inv'
<1>1. TypeInv'
  BY TypeFails DEF Inv
<1> QED
  BY <1>1, InvMoves DEF Finish

LEMMA InvBegins ==
  ASSUME Inv, NEW c \in Slots, NEW n \in Notebooks, NEW r \in Requests, Begin(c, n, r)
  PROVE  Inv'
<1> DEFINE k == [op |-> "generate", step |-> "reserve", notebook |-> n, asked |-> r,
                 draft |-> NoItems, number |-> 0]
<1>1. k \in Calls
  BY StudyAssumption DEF Calls, Generation
<1>2. TypeInv'
  BY TypeBegins DEF Inv
<1> QED
  BY <1>1, <1>2, InvMoves DEF Begin

LEMMA InvRetrieves ==
  ASSUME Inv, NEW c \in Slots, GenerationSources(c)
  PROVE  Inv'
<1> DEFINE k == [call[c] EXCEPT !.step = "complete"]
<1>1. call[c] \in Generation /\ Paying(c)
  BY Running DEF GenerationSources, InStep, Paying, Inv, TypeInv
<1>2. k \in Calls /\ k.number = call[c].number /\ k.op = "generate"
  BY <1>1 DEF Calls, Generation
<1>3. TypeInv'
  BY TypeRetrieves DEF Inv
<1> QED
  BY <1>1, <1>2, <1>3, InvMoves, InvFails DEF GenerationSources, AskOpenRouter

LEMMA InvCompletes ==
  ASSUME Inv, NEW c \in Slots, Complete(c)
  PROVE  Inv'
<1>1. call[c] \in Generation /\ Paying(c)
  BY Running DEF Complete, InStep, Paying, Inv, TypeInv
<1>2. PICK d \in StructuredCompletion(call[c].asked) :
        AskOpenRouter(c, [call[c] EXCEPT !.step = "persist", !.draft = d])
  BY DEF Complete
<1> DEFINE k == [call[c] EXCEPT !.step = "persist", !.draft = d]
<1>3. d \in Requests
  BY <1>1 DEF StructuredCompletion, FlashcardDrafts, ExamDrafts, Requests, Generation
<1>4. k \in Calls /\ k.number = call[c].number /\ k.op = "generate"
  BY <1>1, <1>3 DEF Calls, Generation
<1>5. TypeInv'
  BY TypeCompletes DEF Inv
<1> QED
  BY <1>1, <1>2, <1>4, <1>5, InvMoves, InvFails DEF Complete, AskOpenRouter

LEMMA InvRecords ==
  ASSUME Inv, NEW c \in Slots, NEW n \in Notebooks, NEW a \in Activities,
         NEW key \in Keys, Record(c, n, a, key)
  PROVE  Inv'
<1> DEFINE k == [op |-> "record", step |-> "wait", notebook |-> n, activity |-> a,
                 key |-> key, since |-> now]
<1>1. k \in Calls
  BY DEF Calls, Recording, Inv, TypeInv, StudyTypeOK
<1>2. TypeInv'
  BY TypeRecords DEF Inv
<1> QED
  BY <1>1, <1>2, InvMoves DEF Record

LEMMA InvChecks ==
  ASSUME Inv, NEW c \in Slots, Check(c)
  PROVE  Inv'
<1> DEFINE k == [call[c] EXCEPT !.step = "insert"]
<1>1. call[c] \in Recording
  BY Running DEF Check, InStep, Inv, TypeInv
<1>2. k \in Calls /\ k.op = "record" /\ k.key = call[c].key
  BY <1>1 DEF Calls, Recording
<1>3. TypeInv'
  BY TypeChecks DEF Inv
<1>4. Unlocked /\ OfKey(k.key) = {}
  BY <1>2 DEF Check
<1> QED
  BY <1>2, <1>3, <1>4, InvMoves DEF Check

LEMMA InvReplays ==
  ASSUME Inv, NEW c \in Slots, Replay(c)
  PROVE  Inv'
<1> DEFINE k == call[c]
<1> DEFINE a == [notebook |-> k.notebook, activity |-> k.activity, key |-> k.key]
<1>1. TypeInv'
  BY TypeReplays DEF Inv
<1>2. UNCHANGED <<access, events, stored, generations, charged, made>> /\ Finish(c)
  BY DEF Replay, tables
<1>3. GenerationsApart' /\ InsertsAlone'
  BY <1>2, MovedApart DEF Finish
<1>4. PICK i \in OfKey(k.key) : Replays(k, i)
  BY DEF Replay
<1>5. /\ events[i].notebook = k.notebook /\ events[i].kind = k.activity.kind
      /\ events[i].quantity = k.activity.quantity
      /\ events[i].seconds = k.activity.seconds
  BY <1>4 DEF Replays, EventOf
<1>6. i \in RowsOf(a) /\ Reports(events[i], a)
  <2>1. i \in DOMAIN events /\ events[i].by = [client |-> k.key]
    BY <1>4 DEF OfKey, Inv, TypeInv, StudyTypeOK
  <2> QED
    BY <1>5, <2>1 DEF RowsOf, Reports
<1>7. AcceptedRecorded'
  <2>1. \A b : RowsOf(b)' = RowsOf(b)
    BY <1>2 DEF RowsOf
  <2>2. accepted' = accepted \cup {a}
    BY DEF Replay, Accept
  <2> QED
    BY <1>2, <1>6, <2>1, <2>2 DEF Inv, AcceptedRecorded, Reports
<1> QED
  BY <1>1, <1>2, <1>3, <1>7, GenerationsStay, RowsStay DEF Inv

LEMMA InvReserves ==
  ASSUME Inv, NEW c \in Slots, ReserveUnit(c)
  PROVE  Inv'
<1> DEFINE k == [call[c] EXCEPT !.step = "retrieve", !.number = generations + 1]
<1>1. TypeInv'
  BY TypeReserves DEF Inv
<1>2. call[c] \in Generation
  BY Running DEF ReserveUnit, InStep, Inv, TypeInv
<1>3. /\ generations \in Nat /\ generations' = generations + 1
      /\ generations + 1 \in 1 .. MaxGenerations /\ generations + 1 \in 0 .. MaxGenerations
      /\ UNCHANGED <<access, events, stored, made, accepted>>
      /\ charged \subseteq charged'
  <2>1. generations \in 0 .. MaxGenerations
    BY DEF Inv, TypeInv, StudyTypeOK
  <2>2. /\ generations < MaxGenerations /\ generations' = generations + 1
        /\ UNCHANGED <<access, events, stored, made, accepted>>
        /\ charged \subseteq charged'
    BY DEF ReserveUnit
  <2> QED
    BY <2>1, <2>2, StudyAssumption
<1>4. k \in Calls /\ k.number = generations + 1 /\ k.step = "retrieve" /\ k.op = "generate"
  BY <1>2, <1>3 DEF Calls, Generation
<1>5. call'[c] = k /\ \A d \in Slots \ {c} : call'[d] = call[d]
  BY <1>4, Ran DEF ReserveUnit, Inv, TypeInv
<1> HIDE DEF k
<1>6. /\ \A u : OfGeneration(u)' = OfGeneration(u)
      /\ \A key : OfKey(key)' = OfKey(key)
  BY <1>3 DEF OfGeneration, OfKey
<1>7. made[generations + 1] = <<>> /\ OfGeneration(generations + 1) = {}
  BY <1>3 DEF Inv, GenerationsPaid, GenerationPaid
<1>8. \A d \in Slots \ {c} : Paying(d)' =>
        Paying(d) /\ call'[d].number = call[d].number /\ call[d].number # generations + 1
  BY <1>3, <1>5 DEF Paying, Inv, TypeInv, CallsFit, Fits
<1>9. call'[c].number = generations + 1
  BY <1>4, <1>5
<1>10. GenerationsApart'
  <2>1. \A d, e \in Slots :
          Paying(d)' /\ Paying(e)' /\ call'[d].number = call'[e].number => d = e
    BY <1>8, <1>9 DEF Inv, GenerationsApart
  <2>2. \A d \in Slots, u \in 1 .. MaxGenerations : Paying(d)' /\ call'[d].number = u =>
          made'[u] = <<>> /\ OfGeneration(u)' = {}
    BY <1>3, <1>6, <1>7, <1>8, <1>9 DEF Inv, GenerationsApart
  <2> QED
    BY <2>1, <2>2 DEF GenerationsApart
<1>11. InsertsAlone'
  <2>1. \A d \in Slots : InStep(d, "record", "insert")' =>
          InStep(d, "record", "insert") /\ call'[d] = call[d]
    BY <1>4, <1>5 DEF InStep
  <2> QED
    BY <1>6, <2>1 DEF Inv, InsertsAlone
<1> QED
  BY <1>1, <1>3, <1>10, <1>11, GenerationsStay, RowsStay, AcceptedStay DEF Inv

-----------------------------------------------------------------------------
(* Steps that add an event.                                                *)

(* A generation whose event it is not stays as it is.                      *)
LEMMA GenerationKept ==
  ASSUME Inv, NEW e \in Event, Commit(e), UNCHANGED <<generations, charged>>,
         NEW u \in 1 .. MaxGenerations, e.by # [generation |-> u], made'[u] = made[u]
  PROVE  GenerationPaid(u)' /\ OfGeneration(u)' = OfGeneration(u)
<1>1. OfGeneration(u)' = OfGeneration(u)
  <2>1. OfGeneration(u)' = OfGeneration(u) \cup IF e.by = [generation |-> u] THEN {Len(events) + 1} ELSE {}
    BY Indices DEF Inv, TypeInv
  <2> QED
    BY <2>1
<1>2. /\ DOMAIN events \subseteq DOMAIN events'
      /\ \A i \in DOMAIN events : events'[i] = events[i]
  BY EventsAdded DEF Inv, TypeInv
<1>3. GenerationPaid(u)
  BY DEF Inv, GenerationsPaid
<1> QED
  BY <1>1, <1>2, <1>3 DEF GenerationPaid, Matches

(* What was accepted stays recorded.                                       *)
LEMMA AcceptedKept ==
  ASSUME Inv, NEW e \in Event, Commit(e), NEW a \in accepted
  PROVE  \E i \in RowsOf(a)' : Reports(events'[i], a)
<1>1. PICK i \in RowsOf(a) : Reports(events[i], a)
  BY DEF Inv, AcceptedRecorded
<1>2. i \in DOMAIN events
  BY DEF RowsOf
<1>3. events'[i] = events[i] /\ i \in DOMAIN events'
  BY <1>2, EventsAdded DEF Inv, TypeInv
<1>4. i \in RowsOf(a)'
  BY <1>1, <1>3 DEF RowsOf
<1> QED
  BY <1>1, <1>3, <1>4

(* A row that is added is in the table, and the only one of its key there  *)
(* and of its key and notebook ever.                                       *)
LEMMA RowAdded ==
  ASSUME Inv, NEW e \in Event, Commit(e), access' = access,
         \A key \in Keys : e.by = [client |-> key] => OfKey(key) = {}
  PROVE  TableKept' /\ KeysOnce'
<1> DEFINE n == Len(events) + 1
<1>1. /\ DOMAIN events' = DOMAIN events \cup {n} /\ events'[n] = e
      /\ \A i \in DOMAIN events : events'[i] = events[i]
      /\ stored' = stored \cup {n} /\ Exists(e.notebook)
  BY EventsAdded DEF Inv, TypeInv
<1>2. \A key : OfKey(key)' = OfKey(key) \cup IF e.by = [client |-> key] THEN {n} ELSE {}
  BY Indices DEF Inv, TypeInv
<1> HIDE DEF n
<1>3. \A i \in DOMAIN events : Exists(events[i].notebook) => i \in stored
  BY DEF Inv, TableKept
<1>4. \A i \in DOMAIN events' : Exists(events[i].notebook)' => i \in stored'
  BY <1>1, <1>3 DEF Exists
<1>5. ASSUME NEW key \in Keys, NEW m \in Notebooks, NEW i \in DOMAIN events,
             IsReport(events[i], key, m), IsReport(e, key, m)
      PROVE  FALSE
  <2>1. i \in stored
    BY <1>1, <1>3, <1>5 DEF IsReport
  <2>2. i \in OfKey(key) /\ OfKey(key) = {}
    BY <1>5, <2>1 DEF IsReport, OfKey
  <2> QED
    BY <2>2
<1>6. \A key \in Keys, m \in Notebooks : \A i, j \in DOMAIN events :
        IsReport(events[i], key, m) /\ IsReport(events[j], key, m) => i = j
  BY DEF Inv, TableKept
<1>7. \A key \in Keys, m \in Notebooks : \A i, j \in DOMAIN events' :
        IsReport(events'[i], key, m) /\ IsReport(events'[j], key, m) => i = j
  BY <1>1, <1>5, <1>6
<1>8. TableKept'
  BY <1>4, <1>7 DEF TableKept, IsReport
<1>9. KeysOnce'
  BY <1>2 DEF Inv, KeysOnce
<1> QED
  BY <1>8, <1>9

LEMMA InvServes ==
  ASSUME Inv, NEW n \in Notebooks, CommitServerEvent(n)
  PROVE  Inv'
<1>1. TypeInv'
  BY TypeServes DEF Inv
<1> DEFINE e == ServerEvent(n)
<1>2. e \in Event
  BY ServerTypes DEF CommitServerEvent, Inv, TypeInv
<1>3. /\ Commit(e)
      /\ UNCHANGED <<access, generations, charged, made, call, accepted>>
  BY DEF CommitServerEvent
<1>4. \A u : e.by # [generation |-> u] /\ e.by # [client |-> u]
  BY SourcesApart DEF ServerEvent
<1> HIDE DEF e
<1>5. /\ \A u : OfGeneration(u)' = OfGeneration(u)
      /\ \A key : OfKey(key)' = OfKey(key)
  BY <1>2, <1>3, <1>4, Indices DEF Inv, TypeInv
<1>6. GenerationsPaid'
  BY <1>2, <1>3, <1>4, GenerationKept DEF GenerationsPaid
<1>7. GenerationsApart' /\ InsertsAlone'
  BY <1>3, <1>5 DEF Inv, GenerationsApart, Paying, InsertsAlone, InStep
<1>8. TableKept' /\ KeysOnce'
  BY <1>2, <1>3, <1>4, RowAdded
<1>9. AcceptedRecorded'
  BY <1>2, <1>3, AcceptedKept DEF AcceptedRecorded, Reports
<1> QED
  BY <1>1, <1>6, <1>7, <1>8, <1>9 DEF Inv

(* The event of material that is stored says how much of it there is.      *)
LEMMA InvStores ==
  ASSUME Inv, TypeInv', NEW c \in Slots, InStep(c, "generate", "persist"),
         call[c].draft \in Requests, NEW quantity \in Nat,
         quantity = IF call[c].draft["flashcard"] > 0
                    THEN call[c].draft["flashcard"] ELSE 1,
         StoreMaterial(call[c], quantity), Finish(c), UNCHANGED accepted
  PROVE  Inv'
<1> DEFINE k == call[c]
<1> DEFINE e == MaterialEvent(k, quantity)
<1> DEFINE m == [asked |-> k.asked, items |-> k.draft, notebook |-> k.notebook]
<1>1. /\ k \in Generation /\ Fits(k) /\ k.number \in 1 .. MaxGenerations
      /\ e \in Event /\ Paying(c) /\ k.draft = k.asked
  BY MaterialTypes DEF InStep, Paying, Inv, TypeInv, CallsFit
<1>2. made \in [1 .. MaxGenerations -> Seq(Material)]
  BY DEF Inv, TypeInv, StudyTypeOK
<1>3. PICK u \in 1 .. MaxGenerations : u = k.number
  BY <1>1
<1>4. u <= generations /\ (QuotaEnabled => u \in charged)
  <2>1. generations \in 0 .. MaxGenerations
    BY DEF Inv, TypeInv, StudyTypeOK
  <2> QED
    BY <1>1, <1>3, <2>1, StudyAssumption DEF Fits
<1>5. e.by = [generation |-> u]
  BY <1>3 DEF MaterialEvent
<1>6. /\ Commit(e) /\ UNCHANGED <<access, generations, charged>>
      /\ made' = [made EXCEPT ![u] = Append(@, m)]
  BY <1>3 DEF StoreMaterial
<1>7. Matches(e, m)
  BY <1>1 DEF Matches, MaterialEvent
<1> HIDE DEF e, m
<1>8. made[u] = <<>> /\ OfGeneration(u) = {}
  BY <1>1, <1>3 DEF Inv, GenerationsApart
<1>9. \A v \in 1 .. MaxGenerations : made'[v] = IF v = u THEN <<m>> ELSE made[v]
  <2>1. Append(<<>>, m) = <<m>>
    OBVIOUS
  <2> QED
    BY <1>2, <1>6, <1>8, <2>1
<1>10. /\ Len(events) + 1 \in DOMAIN events' /\ events'[Len(events) + 1] = e
  BY <1>1, <1>6, EventsAdded DEF Inv, TypeInv
<1>11. \A v : OfGeneration(v)' = OfGeneration(v) \cup
                IF e.by = [generation |-> v] THEN {Len(events) + 1} ELSE {}
  BY <1>1, <1>6, Indices DEF Inv, TypeInv
<1>12. OfGeneration(u)' = {Len(events) + 1}
  BY <1>5, <1>8, <1>11
<1>13. \A v \in 1 .. MaxGenerations \ {u} : e.by # [generation |-> v]
  BY <1>5, SourcesApart
<1>14. GenerationsPaid'
  <2>1. GenerationPaid(u)'
    <3>1. Len(made'[u]) = 1 /\ made'[u][1] = m
      BY <1>9
    <3>2. OfGeneration(u)' = {Len(events) + 1} /\ Matches(events'[Len(events) + 1], made'[u][1])
      BY <1>7, <1>10, <1>12, <3>1
    <3>3. u <= generations' /\ (QuotaEnabled => u \in charged')
      BY <1>4, <1>6
    <3> QED
      BY <1>10, <3>1, <3>2, <3>3 DEF GenerationPaid, Matches
  <2>2. ASSUME NEW v \in 1 .. MaxGenerations \ {u} PROVE GenerationPaid(v)'
    BY <1>1, <1>6, <1>9, <1>13, GenerationKept
  <2> QED
    BY <2>1, <2>2 DEF GenerationsPaid
<1>15. /\ call'[c] = Idle
       /\ \A d \in Slots \ {c} : call'[d] = call[d]
  BY Finished DEF Inv, TypeInv
<1>16. GenerationsApart'
  <2>1. \A d \in Slots : Paying(d)' =>
          Paying(d) /\ call'[d].number = call[d].number /\ d # c
    BY <1>15 DEF Paying
  <2>2. \A d \in Slots : Paying(d)' => call'[d].number # u
    BY <1>1, <1>3, <2>1 DEF Inv, GenerationsApart
  <2>3. \A v \in 1 .. MaxGenerations \ {u} : OfGeneration(v)' = OfGeneration(v)
    BY <1>11, <1>13
  <2>4. \A d \in Slots, v \in 1 .. MaxGenerations : Paying(d)' /\ call'[d].number = v =>
          made'[v] = <<>> /\ OfGeneration(v)' = {}
    BY <1>9, <2>1, <2>2, <2>3 DEF Inv, GenerationsApart
  <2>5. \A d, f \in Slots :
          Paying(d)' /\ Paying(f)' /\ call'[d].number = call'[f].number => d = f
    BY <2>1 DEF Inv, GenerationsApart
  <2> QED
    BY <2>4, <2>5 DEF GenerationsApart
<1>17. \A key : e.by # [client |-> key]
  BY <1>5, SourcesApart
<1>18. \A key : OfKey(key)' = OfKey(key)
  <2>1. \A key : OfKey(key)' = OfKey(key) \cup
          IF e.by = [client |-> key] THEN {Len(events) + 1} ELSE {}
    BY <1>1, <1>6, Indices DEF Inv, TypeInv
  <2> QED
    BY <1>17, <2>1
<1>19. InsertsAlone'
  <2>1. \A d \in Slots : InStep(d, "record", "insert")' =>
          InStep(d, "record", "insert") /\ call'[d] = call[d]
    BY <1>15 DEF InStep
  <2> QED
    BY <1>18, <2>1 DEF Inv, InsertsAlone
<1>20. TableKept' /\ KeysOnce'
  BY <1>1, <1>6, <1>17, RowAdded
<1>21. AcceptedRecorded'
  BY <1>1, <1>6, AcceptedKept DEF AcceptedRecorded, Reports
<1> QED
  BY <1>14, <1>16, <1>19, <1>20, <1>21 DEF Inv

LEMMA InvPersists ==
  ASSUME Inv, NEW c \in Slots, PersistFlashcards(c) \/ PersistExam(c)
  PROVE  Inv'
<1> DEFINE d == call[c].draft
<1>1. TypeInv'
  BY TypePersists DEF Inv
<1>2. CASE PersistFlashcards(c)
  <2>1. d \in FlashcardRequests /\ d \in Requests
    BY <1>2 DEF PersistFlashcards, Requests
  <2>2. Size(d) = d["flashcard"] /\ d["flashcard"] > 0 /\ Size(d) \in Nat
    BY <2>1, StudyAssumption DEF Size, Types
  <2> QED
    BY <1>1, <1>2, <2>1, <2>2, InvStores DEF PersistFlashcards
<1>3. CASE PersistExam(c)
  <2>1. d \in ExamRequests /\ d \in Requests
    BY <1>3 DEF PersistExam, Requests
  <2>2. d["flashcard"] = 0
    BY <2>1, StudyAssumption
  <2> QED
    BY <1>1, <1>3, <2>1, <2>2, InvStores DEF PersistExam
<1> QED
  BY <1>2, <1>3

(* An event that is inserted is the first one of its key.                  *)
LEMMA InvInserts ==
  ASSUME Inv, NEW c \in Slots, Insert(c)
  PROVE  Inv'
<1> DEFINE k == call[c]
<1> DEFINE e == EventOf(k)
<1> DEFINE a == [notebook |-> k.notebook, activity |-> k.activity, key |-> k.key]
<1>1. TypeInv'
  BY TypeInserts DEF Inv
<1>2. k \in Recording /\ InStep(c, "record", "insert")
  BY Running DEF Insert, InStep, Inv, TypeInv
<1>3. PICK key \in Keys : key = k.key
  BY <1>2 DEF Recording
<1>4. e \in Event /\ e.by = [client |-> key]
  BY <1>2, <1>3, RecordedTypes DEF Inv, TypeInv, EventOf
<1>5. /\ Commit(e) /\ UNCHANGED <<access, generations, charged, made>>
      /\ accepted' = accepted \cup {a} /\ Finish(c)
  BY DEF Insert, Accept
<1>6. Reports(e, a) /\ a.key = key /\ e.notebook = a.notebook
  BY <1>3 DEF Reports, EventOf
<1> HIDE DEF e, a
<1>7. OfKey(key) = {}
  BY <1>2, <1>3 DEF Inv, InsertsAlone
<1>8. \A h : e.by = [client |-> h] => h = key
  BY <1>4, SourcesApart
<1>9. TableKept' /\ KeysOnce'
  BY <1>4, <1>5, <1>7, <1>8, RowAdded
<1>12. \A u : e.by # [generation |-> u]
  BY <1>4, SourcesApart
<1>13. GenerationsPaid'
  BY <1>4, <1>5, <1>12, GenerationKept DEF GenerationsPaid
<1>14. /\ call'[c] = Idle
       /\ \A d \in Slots \ {c} : call'[d] = call[d]
  BY <1>5, Finished DEF Inv, TypeInv
<1>15. GenerationsApart'
  <2>1. \A u : OfGeneration(u)' = OfGeneration(u) \cup
          IF e.by = [generation |-> u] THEN {Len(events) + 1} ELSE {}
    BY <1>4, <1>5, Indices DEF Inv, TypeInv
  <2>2. \A u : OfGeneration(u)' = OfGeneration(u)
    BY <1>12, <2>1
  <2>3. \A d \in Slots : Paying(d)' => Paying(d) /\ call'[d].number = call[d].number
    BY <1>14 DEF Paying
  <2> QED
    BY <1>5, <2>2, <2>3 DEF Inv, GenerationsApart
<1>16. InsertsAlone'
  <2>1. \A d \in Slots : ~InStep(d, "record", "insert")'
    BY <1>2, <1>14 DEF InStep, Inv, InsertsAlone
  <2> QED
    BY <2>1 DEF InsertsAlone
<1>17. AcceptedRecorded'
  <2>1. /\ Len(events) + 1 \in DOMAIN events' /\ events'[Len(events) + 1] = e
        /\ e.by = [client |-> a.key] /\ e.notebook = a.notebook
    BY <1>4, <1>5, <1>6, EventsAdded DEF Inv, TypeInv
  <2>2. \A b \in accepted : \E i \in RowsOf(b)' : Reports(events'[i], b)
    BY <1>4, <1>5, AcceptedKept
  <2>3. ASSUME NEW b \in accepted'
        PROVE  \E i \in RowsOf(b)' : Reports(events'[i], b)
    <3>1. CASE b \in accepted
      BY <2>2, <3>1
    <3>2. CASE b = a
      BY <1>6, <2>1, <3>2 DEF RowsOf
    <3> QED
      BY <1>5, <3>1, <3>2
  <2> QED
    BY <2>3 DEF AcceptedRecorded, Reports
<1> QED
  BY <1>1, <1>9, <1>13, <1>15, <1>16, <1>17 DEF Inv

(* Calls that only wait, and rows that stay in history.                    *)
LEMMA InvWaits ==
  ASSUME Inv, TypeInv', TableKept', stored' \subseteq stored,
         UNCHANGED <<events, generations, charged, made, call, accepted>>
  PROVE  Inv'
<1>1. /\ \A u : OfGeneration(u)' = OfGeneration(u)
      /\ \A key : OfKey(key)' \subseteq OfKey(key)
  BY DEF OfGeneration, OfKey
<1>2. GenerationsApart' /\ InsertsAlone' /\ KeysOnce'
  BY <1>1 DEF Inv, GenerationsApart, Paying, InsertsAlone, InStep, KeysOnce
<1> QED
  BY <1>2, GenerationsStay, AcceptedStay DEF Inv

LEMMA InvDeletes ==
  ASSUME Inv, NEW n \in Notebooks, DeleteNotebook(n)
  PROVE  Inv'
<1>1. TypeInv'
  BY TypeElsewhere DEF Inv
<1>2. /\ \A i \in DOMAIN events : Exists(events[i].notebook)' <=>
            Exists(events[i].notebook) /\ events[i].notebook # n
      /\ stored' = {i \in stored : events[i].notebook # n}
  BY RowsLeft DEF Inv, TypeInv
<1>3. UNCHANGED <<events, generations, charged, made, call, accepted>>
  BY DEF DeleteNotebook
<1>4. \A i \in DOMAIN events : Exists(events[i].notebook)' => i \in stored'
  BY <1>2 DEF Inv, TableKept
<1>5. TableKept'
  BY <1>3, <1>4 DEF Inv, TableKept, IsReport
<1> QED
  BY <1>1, <1>2, <1>3, <1>5, InvWaits

LEMMA InvElsewhere ==
  ASSUME Inv,
         \/ \E n \in Notebooks, a \in {"none", "read", "manage"} : SetAccess(n, a)
         \/ Tick
         \/ UNCHANGED studyVars
  PROVE  Inv'
<1>1. TypeInv'
  BY TypeElsewhere DEF Inv
<1>2. UNCHANGED <<events, stored, generations, charged, made, call, accepted>>
  BY DEF SetAccess, Tick, studyVars, tables
<1>3. \A m \in Notebooks : Exists(m)' => Exists(m)
  <2>1. ASSUME NEW n \in Notebooks, NEW a \in {"none", "read", "manage"}, SetAccess(n, a)
        PROVE  \A m \in Notebooks : Exists(m)' => Exists(m)
    <3>1. access' = [access EXCEPT ![n] = a] /\ Exists(n)
          /\ access \in [Notebooks -> {"none", "read", "manage", "deleted"}]
      BY <2>1 DEF SetAccess, Inv, TypeInv, StudyTypeOK
    <3> QED
      BY <3>1 DEF Exists
  <2>2. ASSUME access' = access PROVE \A m \in Notebooks : Exists(m)' => Exists(m)
    BY <2>2 DEF Exists
  <2> QED
    BY <2>1, <2>2 DEF Tick, studyVars, tables
<1>4. \A i \in DOMAIN events : Exists(events[i].notebook)' => i \in stored'
  <2>1. \A i \in DOMAIN events : events[i].notebook \in Notebooks
    BY NotebooksOfRows DEF Inv, TypeInv
  <2>2. \A i \in DOMAIN events : Exists(events[i].notebook)' => Exists(events[i].notebook)
    BY <1>2, <1>3, <2>1
  <2> QED
    BY <1>2, <2>2 DEF Inv, TableKept
<1>5. TableKept'
  BY <1>2, <1>4 DEF Inv, TableKept, IsReport
<1> QED
  BY <1>1, <1>2, <1>5, InvWaits

-----------------------------------------------------------------------------

LEMMA InvInitial == StudyInit => Inv
<1> SUFFICES ASSUME StudyInit PROVE Inv
  OBVIOUS
<1>1. /\ \A c \in Slots : call[c] = Idle
      /\ \A u \in 1 .. MaxGenerations : made[u] = <<>>
      /\ DOMAIN events = {} /\ stored = {} /\ accepted = {}
  BY DEF StudyInit
<1>2. \A u : OfGeneration(u) = {}
  BY <1>1 DEF OfGeneration
<1>3. \A key : OfKey(key) = {}
  BY <1>1 DEF OfKey
<1> QED
  BY <1>1, <1>2, <1>3, TypeInitial
     DEF Inv, GenerationsApart, Paying, GenerationsPaid, GenerationPaid, InsertsAlone, InStep,
         TableKept, KeysOnce, AcceptedRecorded

LEMMA InvNext ==
  ASSUME Inv, [StudyNext]_studyVars
  PROVE  Inv'
<1>1. ASSUME NEW c \in Slots, Arrival(c) PROVE Inv'
  <2>1. ASSUME NEW n \in Notebooks, GenerateFlashcards(c, n) \/ GenerateExam(c, n)
        PROVE  Inv'
    <3>1. PICK r \in Requests : Begin(c, n, r)
      BY <2>1 DEF GenerateFlashcards, GenerateExam, Requests
    <3> QED
      BY <3>1, InvBegins
  <2> QED
    BY <1>1, <2>1, InvRecords DEF Arrival
<1>2. ASSUME NEW c \in Slots, CallStep(c) PROVE Inv'
  <2>1. CASE Fail(c)
    BY <2>1, InvFails DEF Fail
  <2> QED
    BY <1>2, <2>1, InvReserves, InvRetrieves, InvCompletes, InvPersists,
       InvReplays, InvChecks, InvInserts DEF CallStep
<1>3. ASSUME Surroundings PROVE Inv'
  <2>1. ASSUME NEW n \in Notebooks, RecordServerActivity(n) \/ AttachRoomNotebook(n)
        PROVE  Inv'
    BY <2>1, InvServes DEF RecordServerActivity, AttachRoomNotebook
  <2> QED
    BY <1>3, <2>1, InvDeletes, InvElsewhere DEF Surroundings
<1>4. CASE UNCHANGED studyVars
  BY <1>4, InvElsewhere
<1> QED
  BY <1>1, <1>2, <1>3, <1>4 DEF StudyNext

(* In every state the generations of calls that run and of material that   *)
(* was stored lie apart, and each event answers for one generation or one  *)
(* report of a key about a notebook.                                       *)
THEOREM Invariant == StudySpec => []Inv
<1>1. Inv /\ [StudyNext]_studyVars => Inv'
  BY InvNext
<1> QED
  BY <1>1, InvInitial, PTL DEF StudySpec

(* Tables, calls and what was answered have their types: material is       *)
(* stored for generations that passed the reservation, its size is a       *)
(* number, and no row outlives the notebook that it is about.              *)
THEOREM StudyTypeCorrect == StudySpec => []StudyTypeOK
<1>1. Inv => StudyTypeOK
  BY DEF Inv, TypeInv
<1> QED
  BY <1>1, Invariant, PTL

(* A generation has one event for what it stored, and no other.            *)
LEMMA ExactGenerations ==
  ASSUME Inv, NEW u \in 1 .. MaxGenerations
  PROVE  /\ Len(made[u]) = Cardinality(OfGeneration(u))
         /\ Len(made[u]) <= (IF u <= generations THEN 1 ELSE 0)
         /\ (QuotaEnabled /\ made[u] # <<>> => u \in charged)
         /\ \A i \in OfGeneration(u) : Matches(events[i], made[u][1])
<1>1. GenerationPaid(u)
  BY DEF Inv, GenerationsPaid
<1>2. CASE made[u] = <<>> /\ OfGeneration(u) = {}
  <2>1. Cardinality({}) = 0
    BY FS_EmptySet
  <2>2. Len(made[u]) = 0
    BY <1>2
  <2> QED
    BY <1>2, <2>1, <2>2
<1>3. ASSUME u <= generations, Len(made[u]) = 1, QuotaEnabled => u \in charged,
             NEW i \in DOMAIN events, OfGeneration(u) = {i}, Matches(events[i], made[u][1])
      PROVE  /\ Len(made[u]) = Cardinality(OfGeneration(u))
             /\ Len(made[u]) <= (IF u <= generations THEN 1 ELSE 0)
             /\ (QuotaEnabled /\ made[u] # <<>> => u \in charged)
             /\ \A j \in OfGeneration(u) : Matches(events[j], made[u][1])
  <2>1. Cardinality({i}) = 1
    BY FS_Singleton
  <2> QED
    BY <1>3, <2>1
<1> QED
  BY <1>1, <1>2, <1>3 DEF GenerationPaid

(* A report that was accepted was recorded by one row, which is as reported. *)
LEMMA ExactReports ==
  ASSUME Inv, NEW a \in accepted
  PROVE  Cardinality(RowsOf(a)) = 1 /\ \A i \in RowsOf(a) : Reports(events[i], a)
<1>1. PICK i \in RowsOf(a) : Reports(events[i], a)
  BY DEF Inv, AcceptedRecorded
<1>2. a.key \in Keys /\ a.notebook \in Notebooks
  BY DEF Inv, TypeInv, StudyTypeOK
<1>3. \A j \in RowsOf(a) : j \in DOMAIN events /\ IsReport(events[j], a.key, a.notebook)
  BY DEF RowsOf, IsReport
<1>4. RowsOf(a) = {i}
  BY <1>1, <1>2, <1>3 DEF Inv, TableKept
<1>5. Cardinality({i}) = 1
  BY FS_Singleton
<1> QED
  BY <1>1, <1>4, <1>5

(* The table has one row of a key at most.                                 *)
LEMMA KeyHasOne ==
  ASSUME Inv, NEW key \in Keys
  PROVE  Cardinality(OfKey(key)) <= 1
<1>1. CASE OfKey(key) = {}
  BY <1>1, FS_EmptySet
<1>2. CASE OfKey(key) # {}
  <2>1. PICK i \in OfKey(key) : OfKey(key) = {i}
    BY <1>2 DEF Inv, KeysOnce
  <2>2. Cardinality({i}) = 1
    BY FS_Singleton
  <2> QED
    BY <2>1, <2>2
<1> QED
  BY <1>1, <1>2

(* Generated material is stored at most once, paid for where there is a    *)
(* quota, and recorded by one event; an accepted report was recorded once; *)
(* events are lost with their notebook only: for any number of notebooks   *)
(* and of calls that overlap, fail or are repeated.                        *)
THEOREM EventsStayExact == StudySpec => []EventsAreExact
<1>1. ASSUME Inv PROVE EventsAreExact
  <2>1. \A i \in DOMAIN events : Exists(events[i].notebook) => i \in stored
    BY <1>1 DEF Inv, TableKept
  <2> QED
    BY <1>1, <2>1, ExactGenerations, ExactReports, KeyHasOne
       DEF EventsAreExact, Matches, Reports
<1> QED
  BY <1>1, Invariant, PTL

-----------------------------------------------------------------------------
(* Sums: they are of finite sets of pairs, grow with their set, and an     *)
(* event that is added adds its amount.                                    *)

(* An event, counted k times.                                              *)
Copies(i, k) == {i} \X (1 .. k)

(* k copies of an element are k.                                            *)
LEMMA CopiesOf ==
  ASSUME NEW i, NEW k \in Nat
  PROVE  IsFiniteSet(Copies(i, k)) /\ Cardinality(Copies(i, k)) = k
<1> DEFINE S == {i}
           T == 1 .. k
<1>1. IsFiniteSet(S) /\ Cardinality(S) = 1
  BY FS_Singleton
<1>2. IsFiniteSet(T) /\ Cardinality(T) = k
  BY FS_Interval
<1> HIDE DEF S, T
<1>3. IsFiniteSet(S \X T) /\ Cardinality(S \X T) = Cardinality(S) * Cardinality(T)
  BY <1>1, <1>2, FS_Product, Zenon
<1>4. Copies(i, k) = S \X T
  BY DEF Copies, S, T
<1> QED
  BY <1>1, <1>2, <1>3, <1>4

Pairs(I, g) == UNION {Copies(i, g[i]) : i \in I}

(* A total is the number of pairs of an index and a copy of it.             *)
LEMMA TotalIsOfPairs ==
  ASSUME NEW I, NEW g
  PROVE  Total(I, g) = Cardinality(Pairs(I, g))
BY DEF Total, Pairs, Copies

(* Finitely many indices have finitely many pairs.                          *)
LEMMA PairsAreFinite ==
  ASSUME NEW I, IsFiniteSet(I), NEW g \in [I -> Nat]
  PROVE  IsFiniteSet(Pairs(I, g))
<1> DEFINE F == {Copies(i, g[i]) : i \in I}
<1> DEFINE f == [i \in I |-> Copies(i, g[i])]
<1>1. f \in Surjection(I, F)
  BY DEF Surjection
<1>2. ASSUME NEW i \in I PROVE IsFiniteSet(Copies(i, g[i]))
  BY CopiesOf
<1>3. \A T \in F : IsFiniteSet(T)
  BY <1>2
<1> HIDE DEF F, f
<1>4. IsFiniteSet(F)
  BY <1>1, FS_Surjection
<1>5. IsFiniteSet(UNION F)
  BY <1>3, <1>4, FS_UNION
<1> QED
  BY <1>5 DEF F, Pairs

(* A part has no larger total than the whole.                               *)
LEMMA TotalGrows ==
  ASSUME NEW I, IsFiniteSet(I), NEW g \in [I -> Nat],
         NEW J \in SUBSET I, NEW h \in [J -> Nat], \A i \in J : h[i] = g[i]
  PROVE  Total(J, h) \in Nat /\ Total(I, g) \in Nat /\ Total(J, h) <= Total(I, g)
<1>1. Pairs(J, h) \subseteq Pairs(I, g)
  BY DEF Pairs
<1>2. IsFiniteSet(Pairs(I, g))
  BY PairsAreFinite
<1>3. IsFiniteSet(Pairs(J, h)) /\ Cardinality(Pairs(J, h)) <= Cardinality(Pairs(I, g))
  BY <1>1, <1>2, FS_Subset
<1> QED
  BY <1>2, <1>3, FS_CardinalityType, TotalIsOfPairs

(* One more index adds its number to the total.                             *)
LEMMA TotalAdds ==
  ASSUME NEW I, IsFiniteSet(I), NEW g \in [I -> Nat], NEW n, n \notin I,
         NEW h \in [I \cup {n} -> Nat], \A i \in I : h[i] = g[i]
  PROVE  Total(I \cup {n}, h) = Total(I, g) + h[n]
<1> DEFINE P == Pairs(I, g)
           N == Copies(n, h[n])
<1>1. IsFiniteSet(P)
  BY PairsAreFinite
<1>2. IsFiniteSet(N) /\ Cardinality(N) = h[n] /\ h[n] \in Nat
  BY CopiesOf
<1>3. Pairs(I \cup {n}, h) = P \cup N
  BY DEF Pairs
<1>4. P \cap N = {}
  BY DEF Pairs, Copies
<1> HIDE DEF P, N
<1>5. Cardinality(P \cup N) = Cardinality(P) + Cardinality(N) - Cardinality(P \cap N)
  BY <1>1, <1>2, FS_Union
<1>6. Cardinality(P) \in Nat /\ Cardinality(P \cap N) = 0
  BY <1>1, <1>4, FS_CardinalityType, FS_EmptySet
<1>7. Total(I, g) = Cardinality(P) /\ Total(I \cup {n}, h) = Cardinality(P \cup N)
  BY <1>3, TotalIsOfPairs DEF P
<1> QED
  BY <1>2, <1>5, <1>6, <1>7

-----------------------------------------------------------------------------
(* Sums and limits of a sequence of events.                                *)

Cards(s, I) == {i \in I : s[i].kind = "flashcard_reviewed"}

(* The cards reviewed are a total, over the reviews.                        *)
LEMMA ReviewedCards ==
  ASSUME NEW s, NEW I
  PROVE  Reviewed(s, I) = Total(Cards(s, I), [i \in Cards(s, I) |-> s[i].quantity])
BY DEF Reviewed, Cards

LEMMA IndicesAreFinite ==
  ASSUME NEW s \in Seq(Event), NEW I \in SUBSET DOMAIN s
  PROVE  IsFiniteSet(I) /\ Cardinality(I) \in Nat
<1>1. DOMAIN s = 1 .. Len(s) /\ Len(s) \in Nat
  OBVIOUS
<1>2. IsFiniteSet(DOMAIN s)
  BY <1>1, FS_Interval
<1> QED
  BY <1>2, FS_Subset, FS_CardinalityType

LEMMA EventTypes ==
  ASSUME NEW s \in Seq(Event), NEW i \in DOMAIN s
  PROVE  s[i].seconds \in Nat /\ s[i].quantity \in Nat /\ s[i].at \in 0 .. MaxTime
<1>1. s[i] \in Event
  OBVIOUS
<1> QED
  BY <1>1 DEF Event

(* Some of the events have no more seconds or cards than all of them.       *)
LEMMA SumsGrow ==
  ASSUME NEW s \in Seq(Event), NEW J \in SUBSET DOMAIN s, NEW I \in SUBSET J
  PROVE  /\ SecondsOf(s, I) \in Nat /\ SecondsOf(s, J) \in Nat
         /\ SecondsOf(s, I) <= SecondsOf(s, J)
         /\ Reviewed(s, I) \in Nat /\ Reviewed(s, J) \in Nat
         /\ Reviewed(s, I) <= Reviewed(s, J)
<1>1. IsFiniteSet(J) /\ IsFiniteSet(Cards(s, J)) /\ Cards(s, I) \subseteq Cards(s, J)
  <2>1. Cards(s, J) \in SUBSET DOMAIN s /\ Cards(s, I) \subseteq Cards(s, J)
    BY DEF Cards
  <2> QED
    BY <2>1, IndicesAreFinite
<1>2. /\ [i \in J |-> s[i].seconds] \in [J -> Nat]
      /\ [i \in I |-> s[i].seconds] \in [I -> Nat]
      /\ \A i \in I : [j \in I |-> s[j].seconds][i] = [j \in J |-> s[j].seconds][i]
  BY EventTypes
<1>3. /\ [i \in Cards(s, J) |-> s[i].quantity] \in [Cards(s, J) -> Nat]
      /\ [i \in Cards(s, I) |-> s[i].quantity] \in [Cards(s, I) -> Nat]
      /\ \A i \in Cards(s, I) : [j \in Cards(s, I) |-> s[j].quantity][i] =
                                [j \in Cards(s, J) |-> s[j].quantity][i]
  <2>1. Cards(s, J) \subseteq DOMAIN s
    BY DEF Cards
  <2> QED
    BY <1>1, <2>1, EventTypes
<1>4. /\ SecondsOf(s, I) \in Nat /\ SecondsOf(s, J) \in Nat
      /\ SecondsOf(s, I) <= SecondsOf(s, J)
  BY <1>1, <1>2, TotalGrows DEF SecondsOf
<1>5. /\ Reviewed(s, I) \in Nat /\ Reviewed(s, J) \in Nat
      /\ Reviewed(s, I) <= Reviewed(s, J)
  BY <1>1, <1>3, TotalGrows, ReviewedCards
<1> QED
  BY <1>4, <1>5

(* The events after one is recorded.                                        *)
LEMMA Appended ==
  ASSUME NEW s \in Seq(Event), NEW e \in Event
  PROVE  /\ Append(s, e) \in Seq(Event)
         /\ DOMAIN Append(s, e) = DOMAIN s \cup {Len(s) + 1}
         /\ Len(s) + 1 \notin DOMAIN s
         /\ Append(s, e)[Len(s) + 1] = e
         /\ \A i \in DOMAIN s : Append(s, e)[i] = s[i]
<1>1. DOMAIN s = 1 .. Len(s) /\ Len(s) \in Nat
  OBVIOUS
<1> QED
  BY <1>1

(* What an event adds to the sums of a set that it is not in, or is.       *)
LEMMA SumsStay ==
  ASSUME NEW s \in Seq(Event), NEW e \in Event, NEW I \in SUBSET DOMAIN s
  PROVE  /\ SecondsOf(Append(s, e), I) = SecondsOf(s, I)
         /\ Cards(Append(s, e), I) = Cards(s, I)
         /\ Reviewed(Append(s, e), I) = Reviewed(s, I)
<1>1. \A i \in I : Append(s, e)[i] = s[i]
  BY Appended
<1>2. Cards(Append(s, e), I) = Cards(s, I)
  BY <1>1 DEF Cards
<1>3. [i \in I |-> Append(s, e)[i].seconds] = [i \in I |-> s[i].seconds]
  BY <1>1
<1>4. [i \in Cards(s, I) |-> Append(s, e)[i].quantity] = [i \in Cards(s, I) |-> s[i].quantity]
  BY <1>1 DEF Cards
<1> QED
  BY <1>2, <1>3, <1>4, ReviewedCards DEF SecondsOf

(* An event that is recorded adds its seconds and cards.                    *)
LEMMA SumsAdd ==
  ASSUME NEW s \in Seq(Event), NEW e \in Event, NEW I \in SUBSET DOMAIN s
  PROVE  LET J == I \cup {Len(s) + 1} IN
         /\ Cardinality(J) = Cardinality(I) + 1
         /\ SecondsOf(Append(s, e), J) = SecondsOf(s, I) + e.seconds
         /\ Reviewed(Append(s, e), J) = Reviewed(s, I) +
              IF e.kind = "flashcard_reviewed" THEN e.quantity ELSE 0
<1> DEFINE n == Len(s) + 1
           z == Append(s, e)
           J == I \cup {n}
           C == Cards(s, I)
<1>1. /\ z \in Seq(Event) /\ n \in DOMAIN z /\ n \notin DOMAIN s /\ z[n] = e
      /\ \A i \in DOMAIN s : i \in DOMAIN z /\ z[i] = s[i]
  BY Appended
<1>2. /\ n \notin I /\ n \notin C /\ C \subseteq I /\ J \subseteq DOMAIN z
      /\ \A i \in I : i \in DOMAIN s /\ i \in DOMAIN z /\ z[i] = s[i]
  BY <1>1 DEF Cards
<1>3. IsFiniteSet(I) /\ IsFiniteSet(C)
  BY <1>2, IndicesAreFinite
<1>4. Cards(z, J) = C \cup IF e.kind = "flashcard_reviewed" THEN {n} ELSE {}
  BY <1>1, <1>2 DEF Cards
<1> HIDE DEF n, z, J, C
<1>5. Cardinality(J) = Cardinality(I) + 1
  BY <1>2, <1>3, FS_AddElement DEF J
<1>6. SecondsOf(z, J) = SecondsOf(s, I) + e.seconds
  <2> DEFINE g == [i \in I |-> s[i].seconds]
             h == [i \in J |-> z[i].seconds]
  <2>1. g \in [I -> Nat] /\ h \in [J -> Nat]
    BY <1>1, <1>2, EventTypes
  <2>2. h[n] = e.seconds /\ \A i \in I : h[i] = g[i]
    BY <1>1, <1>2 DEF J
  <2> HIDE DEF g, h
  <2>3. Total(I \cup {n}, h) = Total(I, g) + h[n]
    BY <1>2, <1>3, <2>1, <2>2, TotalAdds DEF J
  <2> QED
    BY <2>2, <2>3 DEF SecondsOf, J, g, h
<1>7. Reviewed(z, J) = Reviewed(s, I) + IF e.kind = "flashcard_reviewed" THEN e.quantity ELSE 0
  <2>1. CASE e.kind = "flashcard_reviewed"
    <3> DEFINE g == [i \in C |-> s[i].quantity]
               h == [i \in C \cup {n} |-> z[i].quantity]
    <3>1. g \in [C -> Nat] /\ h \in [C \cup {n} -> Nat]
      BY <1>1, <1>2, EventTypes
    <3>2. h[n] = e.quantity /\ \A i \in C : h[i] = g[i]
      BY <1>1, <1>2
    <3> HIDE DEF g, h
    <3>3. Total(C \cup {n}, h) = Total(C, g) + h[n]
      BY <1>2, <1>3, <3>1, <3>2, TotalAdds
    <3>4. Cards(z, J) = C \cup {n}
      BY <1>4, <2>1
    <3>5. Reviewed(z, J) = Total(C \cup {n}, h) /\ Reviewed(s, I) = Total(C, g)
      BY <3>4, ReviewedCards DEF g, h, C
    <3> QED
      BY <2>1, <3>2, <3>3, <3>5
  <2>2. CASE e.kind # "flashcard_reviewed"
    <3>1. Cards(z, J) = C /\ C = Cards(s, I)
      BY <1>4, <2>2 DEF C
    <3>2. [i \in C |-> z[i].quantity] = [i \in C |-> s[i].quantity]
      BY <1>2
    <3>3. Reviewed(z, J) = Reviewed(s, I)
      BY <3>1, <3>2, ReviewedCards
    <3>4. Reviewed(s, I) \in Nat
      BY SumsGrow
    <3> QED
      BY <2>2, <3>3, <3>4
  <2> QED
    BY <2>1, <2>2
<1> QED
  BY <1>5, <1>6, <1>7 DEF J, n, z

-----------------------------------------------------------------------------
(* Limits, of the rows R of a sequence of events.                          *)

(* What clients reported from a time on, and until before another.         *)
From(s, R, t) == {i \in R : "client" \in DOMAIN s[i].by /\ s[i].at >= t}

Between(s, R, t, u) ==
  {i \in R : "client" \in DOMAIN s[i].by /\ s[i].at >= t /\ s[i].at < u}

MinuteOf(s, R, t) == Between(s, R, t, t + Window + 1)

Today(s, R, t) == Between(s, R, DayStart(t), DayStart(t) + DayLength)

Kept(s, R) ==
  \A t \in Nat :
    /\ Cardinality(MinuteOf(s, R, t)) <= WindowLimit
    /\ Cardinality(Today(s, R, t)) <= DayEvents
    /\ SecondsOf(s, Today(s, R, t)) <= DaySeconds
    /\ Reviewed(s, Today(s, R, t)) <= DayCards

(* An activity may still be added to what clients reported.                *)
Room(s, R, k) ==
  LET today == From(s, R, DayStart(k.since)) IN
  /\ Cardinality(From(s, R, k.since - Window)) < WindowLimit
  /\ Cardinality(today) < DayEvents
  /\ SecondsOf(s, today) + k.activity.seconds <= DaySeconds
  /\ k.activity.kind = "flashcard_reviewed" =>
       Reviewed(s, today) + k.activity.quantity <= DayCards

LEMMA Numbers ==
  /\ Window \in Nat /\ DayLength \in Nat \ {0} /\ MaxTime \in Nat
  /\ WindowLimit \in Nat /\ DayEvents \in Nat /\ DaySeconds \in Nat /\ DayCards \in Nat
BY StudyAssumption

(* A time is in its day.                                                    *)
LEMMA DaysStart ==
  ASSUME NEW t \in Nat
  PROVE  /\ DayStart(t) \in Int /\ DayStart(t) + DayLength \in Int
         /\ DayStart(t) <= t /\ t < DayStart(t) + DayLength
<1>1. DayLength \in Nat \ {0}
  BY Numbers
<1> QED
  BY <1>1 DEF DayStart

LEMMA Parts ==
  ASSUME NEW t \in Nat, NEW d \in Nat \ {0}
  PROVE  /\ t \div d \in Int /\ (t % d) \in 0 .. d - 1
         /\ t = d * (t \div d) + (t % d)
OBVIOUS

(* A time is of the day that holds it.                                     *)
LEMMA SamePart ==
  ASSUME NEW t \in Nat, NEW d \in Nat \ {0}, NEW u \in Nat,
         t - (t % d) <= u, u < t - (t % d) + d
  PROVE  u - (u % d) = t - (t % d)
<1> DEFINE q == t \div d
           r == u \div d
<1>1. /\ q \in Int /\ r \in Int
      /\ t = d * q + (t % d) /\ u = d * r + (u % d)
      /\ t % d \in 0 .. d - 1 /\ u % d \in 0 .. d - 1
  BY Parts
<1>2. /\ d * q \in Int /\ d * r \in Int
      /\ t - (t % d) = d * q /\ u - (u % d) = d * r
      /\ d * r <= u /\ u < d * r + d /\ d * q <= u /\ u < d * q + d
  BY <1>1
<1> HIDE DEF q, r
<1>3. ASSUME NEW x \in Int, NEW y \in Int, x < y PROVE d * x + d <= d * y
  <2>1. x + 1 <= y
    BY <1>3
  <2>2. d * (x + 1) = d * x + d
    BY <1>3
  <2>3. d * (x + 1) <= d * y
    BY <1>3, <2>1
  <2> QED
    BY <2>2, <2>3
<1>4. ~(q < r) /\ ~(r < q)
  BY <1>1, <1>2, <1>3
<1>5. q = r
  BY <1>1, <1>4
<1> QED
  BY <1>2, <1>5

(* Times of one day have the same start of the day.                         *)
LEMMA DayOfTime ==
  ASSUME NEW t \in Nat, NEW u \in Nat, DayStart(t) <= u, u < DayStart(t) + DayLength
  PROVE  DayStart(u) = DayStart(t)
<1> DEFINE d == DayLength
<1>1. d \in Nat \ {0}
  BY Numbers
<1>2. t - (t % d) <= u /\ u < t - (t % d) + d
  BY DEF DayStart
<1> HIDE DEF d
<1>3. u - (u % d) = t - (t % d)
  BY <1>1, <1>2, SamePart
<1> QED
  BY <1>3 DEF DayStart, d

LEMMA RecordedAt ==
  ASSUME NEW k \in Recording
  PROVE  /\ k.since \in Nat /\ k.since - Window \in Int
         /\ k.activity \in Activities
         /\ k.activity.quantity \in Nat /\ k.activity.seconds \in Nat
<1>1. k.since \in 0 .. MaxTime /\ k.activity \in Activities
  BY DEF Recording
<1>2. k.activity.quantity \in Nat /\ k.activity.seconds \in Nat
  BY <1>1, StudyAssumption
<1> QED
  BY <1>1, <1>2, Numbers

(* Sums and numbers are of indices of events.                              *)
LEMMA Reported ==
  ASSUME NEW s, NEW R \in SUBSET DOMAIN s, NEW t, NEW u
  PROVE  From(s, R, t) \in SUBSET DOMAIN s /\ Between(s, R, t, u) \in SUBSET DOMAIN s
BY DEF From, Between

(* A limit that holds of more holds of less.                                *)
LEMMA Carries ==
  ASSUME NEW a \in Nat, NEW b \in Nat, NEW d \in Nat, NEW m \in Nat, a <= b, b + d <= m
  PROVE  a + d <= m
OBVIOUS

(* Rows that are deleted make room.                                        *)
LEMMA DeletionKeeps ==
  ASSUME NEW s \in Seq(Event), NEW R \in SUBSET DOMAIN s, NEW Q \in SUBSET R
  PROVE  /\ Kept(s, R) => Kept(s, Q)
         /\ \A k \in Recording : Room(s, R, k) => Room(s, Q, k)
<1>1. /\ WindowLimit \in Nat /\ DayEvents \in Nat /\ DaySeconds \in Nat /\ DayCards \in Nat
  BY Numbers
<1>2. ASSUME NEW I \in SUBSET DOMAIN s, NEW J \in SUBSET I
      PROVE  /\ Cardinality(J) <= Cardinality(I)
             /\ Cardinality(I) \in Nat /\ Cardinality(J) \in Nat
             /\ SecondsOf(s, I) \in Nat /\ SecondsOf(s, J) \in Nat
             /\ SecondsOf(s, J) <= SecondsOf(s, I)
             /\ Reviewed(s, I) \in Nat /\ Reviewed(s, J) \in Nat
             /\ Reviewed(s, J) <= Reviewed(s, I)
  BY <1>2, IndicesAreFinite, FS_Subset, SumsGrow
<1>3. ASSUME NEW t, NEW u
      PROVE  /\ From(s, R, t) \in SUBSET DOMAIN s /\ From(s, Q, t) \in SUBSET From(s, R, t)
             /\ Between(s, R, t, u) \in SUBSET DOMAIN s
             /\ Between(s, Q, t, u) \in SUBSET Between(s, R, t, u)
  BY DEF From, Between
<1>4. ASSUME Kept(s, R), NEW t \in Nat
      PROVE  /\ Cardinality(MinuteOf(s, Q, t)) <= WindowLimit
             /\ Cardinality(Today(s, Q, t)) <= DayEvents
             /\ SecondsOf(s, Today(s, Q, t)) <= DaySeconds
             /\ Reviewed(s, Today(s, Q, t)) <= DayCards
  <2>1. /\ MinuteOf(s, R, t) \in SUBSET DOMAIN s
        /\ MinuteOf(s, Q, t) \in SUBSET MinuteOf(s, R, t)
        /\ Today(s, R, t) \in SUBSET DOMAIN s
        /\ Today(s, Q, t) \in SUBSET Today(s, R, t)
    BY <1>3 DEF MinuteOf, Today
  <2>2. /\ Cardinality(MinuteOf(s, R, t)) <= WindowLimit
        /\ Cardinality(Today(s, R, t)) <= DayEvents
        /\ SecondsOf(s, Today(s, R, t)) <= DaySeconds
        /\ Reviewed(s, Today(s, R, t)) <= DayCards
    BY <1>4 DEF Kept
  <2>3. /\ Cardinality(MinuteOf(s, Q, t)) <= Cardinality(MinuteOf(s, R, t))
        /\ Cardinality(MinuteOf(s, Q, t)) \in Nat /\ Cardinality(MinuteOf(s, R, t)) \in Nat
    BY <1>2, <2>1
  <2> DEFINE I == Today(s, R, t)
             J == Today(s, Q, t)
  <2>4. /\ Cardinality(J) <= Cardinality(I) /\ Cardinality(I) \in Nat /\ Cardinality(J) \in Nat
        /\ SecondsOf(s, I) \in Nat /\ SecondsOf(s, J) \in Nat
        /\ SecondsOf(s, J) <= SecondsOf(s, I)
        /\ Reviewed(s, I) \in Nat /\ Reviewed(s, J) \in Nat
        /\ Reviewed(s, J) <= Reviewed(s, I)
    BY <1>2, <2>1
  <2> QED
    BY <1>1, <2>2, <2>3, <2>4
<1>5. ASSUME NEW k \in Recording, Room(s, R, k) PROVE Room(s, Q, k)
  <2> DEFINE M == From(s, R, k.since - Window)
             m == From(s, Q, k.since - Window)
             D == From(s, R, DayStart(k.since))
             d == From(s, Q, DayStart(k.since))
  <2>1. k.activity.quantity \in Nat /\ k.activity.seconds \in Nat
    BY RecordedAt
  <2>2. /\ Cardinality(M) < WindowLimit /\ Cardinality(D) < DayEvents
        /\ SecondsOf(s, D) + k.activity.seconds <= DaySeconds
        /\ k.activity.kind = "flashcard_reviewed" =>
             Reviewed(s, D) + k.activity.quantity <= DayCards
    BY <1>5 DEF Room
  <2>3. /\ M \in SUBSET DOMAIN s /\ m \in SUBSET M /\ D \in SUBSET DOMAIN s /\ d \in SUBSET D
    BY <1>3
  <2> HIDE DEF M, m, D, d
  <2>4. /\ Cardinality(m) <= Cardinality(M) /\ Cardinality(m) \in Nat /\ Cardinality(M) \in Nat
        /\ Cardinality(d) <= Cardinality(D) /\ Cardinality(d) \in Nat /\ Cardinality(D) \in Nat
    BY <1>2, <2>3
  <2>5. /\ SecondsOf(s, d) \in Nat /\ SecondsOf(s, D) \in Nat
        /\ SecondsOf(s, d) <= SecondsOf(s, D)
        /\ Reviewed(s, d) \in Nat /\ Reviewed(s, D) \in Nat
        /\ Reviewed(s, d) <= Reviewed(s, D)
    BY <1>2, <2>3
  <2>6. /\ Cardinality(m) < WindowLimit /\ Cardinality(d) < DayEvents
        /\ SecondsOf(s, d) + k.activity.seconds <= DaySeconds
        /\ k.activity.kind = "flashcard_reviewed" =>
             Reviewed(s, d) + k.activity.quantity <= DayCards
    <3>1. Cardinality(m) < WindowLimit /\ Cardinality(d) < DayEvents
      BY <1>1, <2>2, <2>4
    <3>2. SecondsOf(s, d) + k.activity.seconds <= DaySeconds
      BY <1>1, <2>1, <2>2, <2>5, Carries
    <3>3. k.activity.kind = "flashcard_reviewed" =>
            Reviewed(s, d) + k.activity.quantity <= DayCards
      BY <1>1, <2>1, <2>2, <2>5, Carries
    <3> QED
      BY <3>1, <3>2, <3>3
  <2> QED
    BY <2>6 DEF Room, m, d
<1> QED
  BY <1>4, <1>5 DEF Kept

(* Events of the server change no limit.                                   *)
LEMMA ServerKeeps ==
  ASSUME NEW s \in Seq(Event), NEW R \in SUBSET DOMAIN s, NEW e \in Event,
         "client" \notin DOMAIN e.by
  PROVE  /\ Kept(s, R) => Kept(Append(s, e), R \cup {Len(s) + 1})
         /\ \A k \in Recording : Room(s, R, k) => Room(Append(s, e), R \cup {Len(s) + 1}, k)
<1> DEFINE z == Append(s, e)
           Q == R \cup {Len(s) + 1}
<1>0. /\ z = Append(s, e) /\ Q = R \cup {Len(s) + 1} /\ z[Len(s) + 1] = e
      /\ \A i \in R : z[i] = s[i]
  BY Appended
<1> HIDE DEF z, Q
<1>1. ASSUME NEW t, NEW u
      PROVE  From(z, Q, t) = From(s, R, t) /\ Between(z, Q, t, u) = Between(s, R, t, u)
  BY <1>0 DEF From, Between
<1>2. \A I \in SUBSET DOMAIN s : SecondsOf(z, I) = SecondsOf(s, I) /\ Reviewed(z, I) = Reviewed(s, I)
  BY <1>0, SumsStay
<1>3. ASSUME Kept(s, R), NEW t \in Nat
      PROVE  /\ Cardinality(MinuteOf(z, Q, t)) <= WindowLimit
             /\ Cardinality(Today(z, Q, t)) <= DayEvents
             /\ SecondsOf(z, Today(z, Q, t)) <= DaySeconds
             /\ Reviewed(z, Today(z, Q, t)) <= DayCards
  <2>1. t + Window + 1 \in Int
    BY Numbers
  <2>2. MinuteOf(z, Q, t) = MinuteOf(s, R, t) /\ Today(z, Q, t) = Today(s, R, t)
    BY <1>1, <2>1, DaysStart DEF MinuteOf, Today
  <2>3. Today(s, R, t) \in SUBSET DOMAIN s
    BY Reported DEF Today
  <2> QED
    BY <1>2, <1>3, <2>2, <2>3 DEF Kept
<1>4. ASSUME NEW k \in Recording, Room(s, R, k) PROVE Room(z, Q, k)
  <2>1. k.since \in Nat /\ k.since - Window \in Int /\ DayStart(k.since) \in Int
    BY RecordedAt, DaysStart
  <2>2. /\ From(z, Q, k.since - Window) = From(s, R, k.since - Window)
        /\ From(z, Q, DayStart(k.since)) = From(s, R, DayStart(k.since))
    BY <1>1, <2>1
  <2>3. From(s, R, DayStart(k.since)) \in SUBSET DOMAIN s
    BY Reported
  <2> QED
    BY <1>2, <1>4, <2>2, <2>3 DEF Room
<1> QED
  BY <1>3, <1>4 DEF Kept, z, Q

(* What a client reports has room.                                         *)
LEMMA ReportKeeps ==
  ASSUME NEW s \in Seq(Event), NEW R \in SUBSET DOMAIN s, NEW k \in Recording,
         EventOf(k) \in Event, Kept(s, R), Room(s, R, k)
  PROVE  Kept(Append(s, EventOf(k)), R \cup {Len(s) + 1})
<1> DEFINE e == EventOf(k)
           z == Append(s, e)
           n == Len(s) + 1
           Q == R \cup {n}
<1>1. /\ "client" \in DOMAIN e.by /\ e.at = k.since /\ e.kind = k.activity.kind
      /\ e.quantity = k.activity.quantity /\ e.seconds = k.activity.seconds
  <2>1. DOMAIN [client |-> k.key] = {"client"}
    OBVIOUS
  <2> QED
    BY <2>1 DEF EventOf
<1>2. /\ k.since \in Nat /\ k.since - Window \in Int
      /\ k.activity.quantity \in Nat /\ k.activity.seconds \in Nat
  BY RecordedAt
<1>0. /\ Q = R \cup {n} /\ z[n] = e
      /\ \A i \in R : z[i] = s[i]
  BY Appended
<1> HIDE DEF e
<1>3. ASSUME NEW I \in SUBSET DOMAIN s
      PROVE  /\ SecondsOf(z, I) = SecondsOf(s, I) /\ Reviewed(z, I) = Reviewed(s, I)
             /\ Cardinality(I \cup {n}) = Cardinality(I) + 1
             /\ SecondsOf(z, I \cup {n}) = SecondsOf(s, I) + e.seconds
             /\ Reviewed(z, I \cup {n}) = Reviewed(s, I) +
                  IF e.kind = "flashcard_reviewed" THEN e.quantity ELSE 0
  BY SumsStay, SumsAdd DEF e
<1> HIDE DEF z, n, Q
<1>4. ASSUME NEW t \in Int, NEW u \in Int
      PROVE  Between(z, Q, t, u) =
               IF t <= k.since /\ k.since < u THEN Between(s, R, t, u) \cup {n} ELSE Between(s, R, t, u)
  <2>1. CASE t <= k.since /\ k.since < u
    <3>1. e.at >= t /\ e.at < u /\ "client" \in DOMAIN e.by
      BY <1>1, <1>2, <2>1
    <3>2. Between(z, Q, t, u) = Between(s, R, t, u) \cup {n}
      BY <1>0, <3>1 DEF Between
    <3> QED
      BY <2>1, <3>2
  <2>2. CASE ~(t <= k.since /\ k.since < u)
    <3>1. ~(e.at >= t /\ e.at < u)
      BY <1>1, <1>2, <2>2
    <3>2. Between(z, Q, t, u) = Between(s, R, t, u)
      BY <1>0, <3>1 DEF Between
    <3> QED
      BY <2>2, <3>2
  <2> QED
    BY <2>1, <2>2
<1>5. ASSUME NEW t \in Nat
      PROVE  Cardinality(MinuteOf(z, Q, t)) <= WindowLimit
  <2> DEFINE I == MinuteOf(s, R, t)
             J == From(s, R, k.since - Window)
  <2>1. I \in SUBSET DOMAIN s /\ J \in SUBSET DOMAIN s
    BY Reported DEF MinuteOf
  <2>2. t + Window + 1 \in Int /\ Window \in Nat /\ WindowLimit \in Nat
    BY Numbers
  <2>3. Cardinality(I) <= WindowLimit /\ Cardinality(I) \in Nat
    BY <2>1, IndicesAreFinite DEF Kept
  <2>4. CASE t <= k.since /\ k.since < t + Window + 1
    <3>1. \A i \in DOMAIN s : s[i].at \in Int
      BY EventTypes
    <3>2. I \subseteq J
      BY <1>2, <2>1, <2>2, <2>4, <3>1 DEF MinuteOf, Between, From
    <3>3. Cardinality(I) <= Cardinality(J) /\ Cardinality(J) \in Nat
      BY <2>1, <3>2, IndicesAreFinite, FS_Subset
    <3>4. Cardinality(J) < WindowLimit
      BY DEF Room
    <3>5. MinuteOf(z, Q, t) = I \cup {n}
      BY <1>4, <2>2, <2>4 DEF MinuteOf
    <3>6. Cardinality(MinuteOf(z, Q, t)) = Cardinality(I) + 1
      BY <1>3, <2>1, <3>5
    <3> QED
      BY <2>2, <2>3, <3>3, <3>4, <3>6
  <2>5. CASE ~(t <= k.since /\ k.since < t + Window + 1)
    BY <1>4, <2>2, <2>3, <2>5 DEF MinuteOf
  <2> QED
    BY <2>4, <2>5
<1>6. ASSUME NEW t \in Nat
      PROVE  /\ Cardinality(Today(z, Q, t)) <= DayEvents
             /\ SecondsOf(z, Today(z, Q, t)) <= DaySeconds
             /\ Reviewed(z, Today(z, Q, t)) <= DayCards
  <2> DEFINE I == Today(s, R, t)
             J == From(s, R, DayStart(k.since))
  <2>1. I \in SUBSET DOMAIN s /\ J \in SUBSET DOMAIN s
    BY Reported DEF Today
  <2>2. /\ DayStart(t) \in Int /\ DayStart(t) + DayLength \in Int
        /\ DayEvents \in Nat /\ DaySeconds \in Nat /\ DayCards \in Nat
    BY DaysStart, Numbers
  <2>3. /\ Cardinality(I) <= DayEvents
        /\ SecondsOf(s, I) <= DaySeconds /\ Reviewed(s, I) <= DayCards
    BY DEF Kept
  <2>4. CASE DayStart(t) <= k.since /\ k.since < DayStart(t) + DayLength
    <3>1. DayStart(k.since) = DayStart(t)
      BY <1>2, <2>4, DayOfTime
    <3>2. I \subseteq J
      BY <3>1 DEF Today, Between, From
    <3>3. /\ Cardinality(I) <= Cardinality(J)
          /\ Cardinality(I) \in Nat /\ Cardinality(J) \in Nat
      BY <2>1, <3>2, IndicesAreFinite, FS_Subset
    <3>4. /\ SecondsOf(s, I) \in Nat /\ SecondsOf(s, J) \in Nat
          /\ SecondsOf(s, I) <= SecondsOf(s, J)
          /\ Reviewed(s, I) \in Nat /\ Reviewed(s, J) \in Nat
          /\ Reviewed(s, I) <= Reviewed(s, J)
      BY <2>1, <3>2, SumsGrow
    <3>5. /\ Cardinality(J) < DayEvents
          /\ SecondsOf(s, J) + k.activity.seconds <= DaySeconds
          /\ k.activity.kind = "flashcard_reviewed" =>
               Reviewed(s, J) + k.activity.quantity <= DayCards
      BY DEF Room
    <3>6. Today(z, Q, t) = I \cup {n}
      BY <1>4, <2>2, <2>4 DEF Today
    <3> HIDE DEF I, J
    <3>7. Cardinality(Today(z, Q, t)) = Cardinality(I) + 1
      BY <1>3, <2>1, <3>6
    <3>8. SecondsOf(z, Today(z, Q, t)) = SecondsOf(s, I) + k.activity.seconds
      BY <1>1, <1>3, <2>1, <3>6
    <3>9. Reviewed(z, Today(z, Q, t)) = Reviewed(s, I) +
            IF k.activity.kind = "flashcard_reviewed" THEN k.activity.quantity ELSE 0
      BY <1>1, <1>3, <2>1, <3>6
    <3>10. Cardinality(Today(z, Q, t)) <= DayEvents
      BY <2>2, <3>3, <3>5, <3>7
    <3>11. SecondsOf(z, Today(z, Q, t)) <= DaySeconds
      <4>1. SecondsOf(s, J) + k.activity.seconds <= DaySeconds
        BY <3>5
      <4> QED
        BY <1>2, <2>2, <3>4, <3>8, <4>1, Carries
    <3>12. CASE k.activity.kind = "flashcard_reviewed"
      <4>1. Reviewed(z, Today(z, Q, t)) = Reviewed(s, I) + k.activity.quantity
        BY <3>9, <3>12
      <4>2. Reviewed(s, J) + k.activity.quantity <= DayCards
        BY <3>5, <3>12
      <4>3. Reviewed(z, Today(z, Q, t)) <= DayCards
        BY <1>2, <2>2, <3>4, <4>1, <4>2, Carries
      <4> QED
        BY <3>10, <3>11, <4>3
    <3>13. CASE k.activity.kind # "flashcard_reviewed"
      <4>1. Reviewed(z, Today(z, Q, t)) = Reviewed(s, I)
        BY <3>4, <3>9, <3>13
      <4> QED
        BY <2>3, <3>10, <3>11, <4>1 DEF I
    <3> QED
      BY <3>12, <3>13
  <2>5. CASE ~(DayStart(t) <= k.since /\ k.since < DayStart(t) + DayLength)
    <3>1. Today(z, Q, t) = I
      BY <1>4, <2>2, <2>5 DEF Today
    <3> QED
      BY <1>3, <2>1, <2>3, <3>1
  <2> QED
    BY <2>4, <2>5
<1> QED
  BY <1>5, <1>6 DEF Kept, z, e, Q, n

-----------------------------------------------------------------------------
(* The limits as calls run.  A call that has been checked keeps its room,  *)
(* since no other one inserts before it.                                   *)
LimitInv ==
  /\ Kept(events, stored)
  /\ \A c \in Slots : InStep(c, "record", "insert") => Room(events, stored, call[c])

LEMMA CheckedHasRoom ==
  ASSUME TypeInv, NEW k \in Recording, WithinLimits(k)
  PROVE  Room(events, stored, k)
<1>1. events \in Seq(Event)
  BY DEF TypeInv, StudyTypeOK
<1>2. /\ k.since \in Nat /\ k.since - Window \in Int
      /\ k.activity.quantity \in Nat /\ k.activity.seconds \in Nat
  BY RecordedAt
<1>3. /\ WindowLimit \in Nat /\ DayEvents \in Nat /\ DaySeconds \in Nat /\ DayCards \in Nat
  BY Numbers
<1> DEFINE M == Since(k.since - Window)
           D == Since(DayStart(k.since))
           m == From(events, stored, k.since - Window)
           d == From(events, stored, DayStart(k.since))
<1>4. /\ m \subseteq M /\ M \in SUBSET DOMAIN events
      /\ d \subseteq D /\ D \in SUBSET DOMAIN events
  <2>1. stored \subseteq DOMAIN events
    BY DEF TypeInv, StudyTypeOK
  <2> QED
    BY <2>1 DEF From, Since
<1>5. /\ Cardinality(M) < WindowLimit /\ Cardinality(D) < DayEvents
      /\ SecondsOf(events, D) + k.activity.seconds <= DaySeconds
      /\ k.activity.kind = "flashcard_reviewed" =>
           Reviewed(events, D) + k.activity.quantity <= DayCards
  BY DEF WithinLimits
<1> HIDE DEF M, D, m, d
<1>6. /\ Cardinality(m) <= Cardinality(M) /\ Cardinality(d) <= Cardinality(D)
      /\ Cardinality(m) \in Nat /\ Cardinality(M) \in Nat
      /\ Cardinality(d) \in Nat /\ Cardinality(D) \in Nat
  <2>1. m \in SUBSET DOMAIN events /\ d \in SUBSET DOMAIN events
    BY <1>4
  <2> QED
    BY <1>1, <1>4, <2>1, IndicesAreFinite, FS_Subset
<1>7. /\ SecondsOf(events, d) \in Nat /\ SecondsOf(events, D) \in Nat
      /\ SecondsOf(events, d) <= SecondsOf(events, D)
      /\ Reviewed(events, d) \in Nat /\ Reviewed(events, D) \in Nat
      /\ Reviewed(events, d) <= Reviewed(events, D)
  BY <1>1, <1>4, SumsGrow
<1>8. /\ Cardinality(m) < WindowLimit /\ Cardinality(d) < DayEvents
      /\ SecondsOf(events, d) + k.activity.seconds <= DaySeconds
      /\ k.activity.kind = "flashcard_reviewed" =>
           Reviewed(events, d) + k.activity.quantity <= DayCards
  BY <1>2, <1>3, <1>5, <1>6, <1>7
<1> QED
  BY <1>8 DEF Room, m, d

(* A call that is to insert was checked, or was before and has not moved.  *)
LEMMA RoomStays ==
  ASSUME TypeInv, LimitInv,
         \A k \in Recording : Room(events, stored, k) => Room(events', stored', k),
         \A c \in Slots : InStep(c, "record", "insert")' =>
           InStep(c, "record", "insert") /\ call'[c] = call[c]
  PROVE  \A c \in Slots : InStep(c, "record", "insert")' => Room(events', stored', call'[c])
<1> SUFFICES ASSUME NEW c \in Slots, InStep(c, "record", "insert")'
             PROVE  Room(events', stored', call'[c])
  OBVIOUS
<1>1. InStep(c, "record", "insert") /\ call'[c] = call[c]
  OBVIOUS
<1>2. call[c] \in Recording /\ Room(events, stored, call[c])
  BY <1>1, Running DEF InStep, TypeInv, LimitInv
<1> QED
  BY <1>1, <1>2

(* Calls that move on, but to no insertion, while no event is added.       *)
LEMMA LimitMoves ==
  ASSUME TypeInv, LimitInv, events' = events, stored' \subseteq stored,
         \A c \in Slots : InStep(c, "record", "insert")' =>
           InStep(c, "record", "insert") /\ call'[c] = call[c]
  PROVE  LimitInv'
<1>1. events \in Seq(Event) /\ stored \subseteq DOMAIN events
  BY DEF TypeInv, StudyTypeOK
<1>2. /\ Kept(events', stored')
      /\ \A k \in Recording : Room(events, stored, k) => Room(events', stored', k)
  BY <1>1, DeletionKeeps DEF LimitInv
<1>3. \A c \in Slots : InStep(c, "record", "insert")' => Room(events', stored', call'[c])
  BY <1>2, RoomStays
<1> QED
  BY <1>2, <1>3 DEF LimitInv

LEMMA LimitServes ==
  ASSUME TypeInv, LimitInv, NEW e \in Event, Commit(e), "client" \notin DOMAIN e.by,
         \A c \in Slots : InStep(c, "record", "insert")' =>
           InStep(c, "record", "insert") /\ call'[c] = call[c]
  PROVE  LimitInv'
<1>1. events \in Seq(Event) /\ stored \subseteq DOMAIN events
  BY DEF TypeInv, StudyTypeOK
<1>2. events' = Append(events, e) /\ stored' = stored \cup {Len(events) + 1}
  BY DEF Commit
<1>3. /\ Kept(events', stored')
      /\ \A k \in Recording : Room(events, stored, k) => Room(events', stored', k)
  BY <1>1, <1>2, ServerKeeps DEF LimitInv
<1>4. \A c \in Slots : InStep(c, "record", "insert")' => Room(events', stored', call'[c])
  BY <1>3, RoomStays
<1> QED
  BY <1>3, <1>4 DEF LimitInv

LEMMA LimitChecks ==
  ASSUME Inv, LimitInv, NEW c \in Slots, Check(c)
  PROVE  LimitInv'
<1> DEFINE k == [call[c] EXCEPT !.step = "insert"]
<1>1. call[c] \in Recording /\ events' = events /\ stored' = stored
  BY Running DEF Check, InStep, Inv, TypeInv, tables
<1>2. k \in Calls /\ k.since = call[c].since /\ k.activity = call[c].activity
  BY <1>1 DEF Calls, Recording
<1>3. call'[c] = k /\ \A d \in Slots \ {c} : call'[d] = call[d]
  BY <1>2, Ran DEF Check, Inv, TypeInv
<1>4. Room(events, stored, call[c])
  BY <1>1, CheckedHasRoom DEF Check, Inv
<1>5. Room(events', stored', call'[c])
  BY <1>1, <1>2, <1>3, <1>4 DEF Room
<1>6. ASSUME NEW d \in Slots, InStep(d, "record", "insert")'
      PROVE  Room(events', stored', call'[d])
  <2>1. CASE d = c
    BY <1>5, <2>1
  <2>2. CASE d # c
    <3>1. call'[d] = call[d] /\ InStep(d, "record", "insert")
      BY <1>3, <1>6, <2>2 DEF InStep
    <3> QED
      BY <1>1, <3>1 DEF LimitInv
  <2> QED
    BY <2>1, <2>2
<1> QED
  BY <1>1, <1>6 DEF LimitInv

LEMMA LimitInserts ==
  ASSUME Inv, LimitInv, NEW c \in Slots, Insert(c)
  PROVE  LimitInv'
<1>1. call[c] \in Recording /\ InStep(c, "record", "insert")
  BY Running DEF Insert, InStep, Inv, TypeInv
<1>2. /\ EventOf(call[c]) \in Event /\ events \in Seq(Event)
      /\ stored \subseteq DOMAIN events
  BY <1>1, RecordedTypes DEF Inv, TypeInv, StudyTypeOK
<1>3. Kept(Append(events, EventOf(call[c])), stored \cup {Len(events) + 1})
  BY <1>1, <1>2, ReportKeeps DEF LimitInv
<1>4. Kept(events', stored')
  BY <1>3 DEF Insert, Commit
<1>5. call'[c] = Idle /\ \A d \in Slots \ {c} : call'[d] = call[d]
  BY Finished DEF Insert, Inv, TypeInv
<1>6. \A d \in Slots : ~InStep(d, "record", "insert")'
  BY <1>1, <1>5 DEF InStep, Inv, InsertsAlone
<1> QED
  BY <1>4, <1>6 DEF LimitInv

LEMMA LimitServerEvent ==
  ASSUME Inv, LimitInv, NEW n \in Notebooks, CommitServerEvent(n)
  PROVE  LimitInv'
<1>1. ServerEvent(n) \in Event
  BY ServerTypes DEF CommitServerEvent, Inv, TypeInv
<1>2. Commit(ServerEvent(n)) /\ call' = call
  BY DEF CommitServerEvent
<1>3. "client" \notin DOMAIN ServerEvent(n).by
  BY DEF ServerEvent
<1>4. \A c \in Slots : InStep(c, "record", "insert")' =>
        InStep(c, "record", "insert") /\ call'[c] = call[c]
  BY <1>2 DEF InStep
<1> QED
  BY <1>1, <1>2, <1>3, <1>4, LimitServes DEF Inv

LEMMA LimitPersists ==
  ASSUME Inv, LimitInv, NEW c \in Slots, PersistFlashcards(c) \/ PersistExam(c)
  PROVE  LimitInv'
<1> DEFINE k == call[c]
<1>1. PICK quantity \in Nat : StoreMaterial(k, quantity) /\ Finish(c)
        /\ InStep(c, "generate", "persist")
  <2>1. CASE PersistFlashcards(c)
    <3>1. Size(k.draft) \in Nat
      BY <2>1, SizeIsNat DEF PersistFlashcards, Requests
    <3> QED
      BY <2>1, <3>1 DEF PersistFlashcards
  <2>2. CASE PersistExam(c)
    BY <2>2 DEF PersistExam
  <2> QED
    BY <2>1, <2>2
<1> DEFINE e == MaterialEvent(k, quantity)
<1>2. Commit(e)
  BY <1>1 DEF StoreMaterial
<1>3. e \in Event
  BY <1>1, MaterialTypes DEF Inv
<1>4. "client" \notin DOMAIN e.by
  BY DEF MaterialEvent
<1>5. call'[c] = Idle /\ \A d \in Slots \ {c} : call'[d] = call[d]
  BY <1>1, Finished DEF Inv, TypeInv
<1> HIDE DEF e
<1>6. \A d \in Slots : InStep(d, "record", "insert")' =>
        InStep(d, "record", "insert") /\ call'[d] = call[d]
  BY <1>5 DEF InStep
<1> QED
  BY <1>2, <1>3, <1>4, <1>6, LimitServes DEF Inv

(* Steps of a call that add no event and are no check.                     *)
LEMMA LimitRuns ==
  ASSUME Inv, LimitInv, NEW c \in Slots,
         \/ Arrival(c) \/ ReserveUnit(c) \/ GenerationSources(c) \/ Complete(c)
         \/ Replay(c) \/ Fail(c)
  PROVE  LimitInv'
<1>1. events' = events /\ stored' = stored
  BY DEF Arrival, GenerateFlashcards, GenerateExam, Begin, Record, ReserveUnit,
         GenerationSources, Complete, Replay, Fail, tables
<1>2. PICK k : /\ Run(c, k)
               /\ k = Idle \/ k.step # "insert"
  <2>1. CASE Arrival(c)
    <3>1. PICK n \in Notebooks :
            \/ GenerateFlashcards(c, n) \/ GenerateExam(c, n)
            \/ \E a \in Activities, key \in Keys : Record(c, n, a, key)
      BY <2>1 DEF Arrival
    <3>2. ASSUME NEW r, Begin(c, n, r)
          PROVE  \E k : Run(c, k) /\ k.step # "insert"
      BY <3>2 DEF Begin
    <3>3. ASSUME NEW a, NEW key, Record(c, n, a, key)
          PROVE  \E k : Run(c, k) /\ k.step # "insert"
      BY <3>3 DEF Record
    <3> QED
      BY <3>1, <3>2, <3>3 DEF GenerateFlashcards, GenerateExam
  <2>2. CASE ReserveUnit(c) \/ GenerationSources(c) \/ Complete(c)
    <3>1. call[c] \in Generation
      BY <2>2, Running DEF ReserveUnit, GenerationSources, Complete, InStep, Inv, TypeInv
    <3>2. \A u, d : \A s \in {"retrieve", "complete", "persist"} :
            /\ [call[c] EXCEPT !.step = s].step # "insert"
            /\ [call[c] EXCEPT !.step = s, !.number = u].step # "insert"
            /\ [call[c] EXCEPT !.step = s, !.draft = d].step # "insert"
      BY <3>1 DEF Generation
    <3> QED
      BY <2>2, <3>2 DEF ReserveUnit, GenerationSources, Complete, AskOpenRouter, Finish
  <2>3. CASE Replay(c) \/ Fail(c)
    BY <2>3 DEF Replay, Fail, Finish
  <2> QED
    BY <2>1, <2>2, <2>3
<1>3. /\ call'[c] = k
      /\ \A d \in Slots \ {c} : call'[d] = call[d]
  BY <1>2 DEF Run, Inv, TypeInv, StudyTypeOK
<1>4. \A d \in Slots : InStep(d, "record", "insert")' =>
        InStep(d, "record", "insert") /\ call'[d] = call[d]
  BY <1>2, <1>3 DEF InStep
<1> QED
  BY <1>1, <1>4, LimitMoves DEF Inv

LEMMA LimitInitial == StudyInit => LimitInv
<1> SUFFICES ASSUME StudyInit PROVE LimitInv
  OBVIOUS
<1>1. events = <<>> /\ DOMAIN events = {} /\ events \in Seq(Event)
  BY DEF StudyInit
<1>2. \A t, u : Between(events, stored, t, u) = {}
  BY DEF StudyInit, Between
<1>3. SecondsOf(events, {}) = 0 /\ Reviewed(events, {}) = 0
  <2>1. \A g : Total({}, g) = 0
    <3>1. \A g : (UNION {{i} \X (1 .. g[i]) : i \in {}}) = {}
      OBVIOUS
    <3> QED
      BY <3>1, FS_EmptySet DEF Total
  <2>2. Cards(events, {}) = {}
    BY DEF Cards
  <2> QED
    BY <2>1, <2>2, ReviewedCards DEF SecondsOf
<1>4. Kept(events, stored)
  BY <1>2, <1>3, FS_EmptySet, Numbers DEF Kept, MinuteOf, Today
<1>5. \A c \in Slots : ~InStep(c, "record", "insert")
  BY DEF StudyInit, InStep
<1> QED
  BY <1>4, <1>5 DEF LimitInv

LEMMA LimitNext ==
  ASSUME Inv, LimitInv, [StudyNext]_studyVars
  PROVE  LimitInv'
<1>1. ASSUME NEW c \in Slots, CallStep(c) PROVE LimitInv'
  BY <1>1, LimitRuns, LimitPersists, LimitChecks, LimitInserts DEF CallStep
<1>2. ASSUME NEW c \in Slots, Arrival(c) PROVE LimitInv'
  BY <1>2, LimitRuns
<1>3. CASE \/ \E n \in Notebooks, a \in {"none", "read", "manage"} : SetAccess(n, a)
           \/ \E n \in Notebooks : DeleteNotebook(n)
           \/ Tick \/ UNCHANGED studyVars
  <2>1. events' = events /\ stored' \subseteq stored /\ call' = call
    BY <1>3 DEF SetAccess, DeleteNotebook, Cascade, Tick, studyVars, tables
  <2>2. \A d \in Slots : InStep(d, "record", "insert")' =>
          InStep(d, "record", "insert") /\ call'[d] = call[d]
    BY <2>1 DEF InStep
  <2> QED
    BY <2>1, <2>2, LimitMoves DEF Inv
<1>4. ASSUME NEW n \in Notebooks, RecordServerActivity(n) \/ AttachRoomNotebook(n)
      PROVE  LimitInv'
  BY <1>4, LimitServerEvent DEF RecordServerActivity, AttachRoomNotebook
<1> QED
  BY <1>1, <1>2, <1>3, <1>4 DEF StudyNext, Surroundings

(* In every minute and every UTC day the events of clients keep the        *)
(* limits, however calls overlap and whatever the limits are.              *)
THEOREM LimitsStayKept == StudySpec => []LimitsKept
<1>1. Inv /\ LimitInv => LimitsKept
  <2> SUFFICES ASSUME Inv, LimitInv, NEW t \in 0 .. now
               PROVE  LET minute == FromClient(Since(t) \ Since(t + Window + 1))
                          day == FromClient(Since(DayStart(t)) \
                                            Since(DayStart(t) + DayLength))
                      IN /\ Cardinality(minute) <= WindowLimit
                         /\ Cardinality(day) <= DayEvents
                         /\ SecondsOf(events, day) <= DaySeconds
                         /\ Reviewed(events, day) <= DayCards
    BY DEF LimitsKept
  <2>1. events \in Seq(Event) /\ stored \subseteq DOMAIN events /\ t \in Nat
    BY DEF Inv, TypeInv, StudyTypeOK
  <2>2. ASSUME NEW u \in Int, NEW v \in Int
        PROVE  FromClient(Since(u) \ Since(v)) = Between(events, stored, u, v)
    <3>1. \A i \in DOMAIN events : events[i].at \in Int
      BY <2>1, EventTypes
    <3> QED
      BY <2>1, <3>1 DEF FromClient, Since, Between
  <2>3. t + Window + 1 \in Int /\ t \in Int
    BY <2>1, Numbers
  <2>4. DayStart(t) \in Int /\ DayStart(t) + DayLength \in Int
    BY <2>1, DaysStart
  <2>5. /\ FromClient(Since(t) \ Since(t + Window + 1)) = MinuteOf(events, stored, t)
        /\ FromClient(Since(DayStart(t)) \ Since(DayStart(t) + DayLength)) = Today(events, stored, t)
    BY <2>2, <2>3, <2>4 DEF MinuteOf, Today
  <2>6. /\ Cardinality(MinuteOf(events, stored, t)) <= WindowLimit
        /\ Cardinality(Today(events, stored, t)) <= DayEvents
        /\ SecondsOf(events, Today(events, stored, t)) <= DaySeconds
        /\ Reviewed(events, Today(events, stored, t)) <= DayCards
    BY <2>1 DEF LimitInv, Kept
  <2> QED
    BY <2>5, <2>6
<1>2. Inv /\ LimitInv /\ [StudyNext]_studyVars => LimitInv'
  BY LimitNext
<1> QED
  BY <1>1, <1>2, LimitInitial, Invariant, PTL DEF StudySpec

-----------------------------------------------------------------------------
(* Least and greatest numbers, and smallest sets.                          *)

(* Numbers that are not negative have a least one.                          *)
LEMMA LeastOf ==
  ASSUME NEW S \in SUBSET Nat, S # {}
  PROVE  \E x \in S : \A y \in S : x <= y
<1> DEFINE R == StrictSubsetOrdering(Nat)
           Down == {{k \in S : k <= x} : x \in S}
<1>1. IsWellFoundedOn(R, FiniteSubsetsOf(Nat))
  BY FS_StrictSubsetOrderingWellFounded
<1>2. ASSUME NEW x \in S PROVE IsFiniteSet({k \in S : k <= x})
  <2>1. IsFiniteSet(0 .. x)
    BY FS_Interval
  <2>2. \A k \in S : k <= x => k \in 0 .. x
    OBVIOUS
  <2> QED
    BY <2>1, <2>2, FS_Subset
<1>3. Down \subseteq FiniteSubsetsOf(Nat) /\ Down # {}
  BY <1>2 DEF FiniteSubsetsOf
<1>4. PICK A \in Down : \A B \in Down : ~(<<B, A>> \in R)
  <2> HIDE DEF R, Down
  <2> QED
    BY <1>1, <1>3, WFMin
<1>5. PICK x \in S : A = {k \in S : k <= x}
  OBVIOUS
<1>6. ASSUME NEW y \in S, y < x PROVE FALSE
  <2>1. {k \in S : k <= y} \in Down
    OBVIOUS
  <2>2. x \notin {k \in S : k <= y} /\ x \in A
    BY <1>5, <1>6
  <2>3. {k \in S : k <= y} \subseteq A
    <3>1. \A k \in S : k <= y => k <= x
      BY <1>6
    <3> QED
      BY <1>5, <3>1, Zenon
  <2> QED
    BY <1>4, <1>5, <2>1, <2>2, <2>3 DEF StrictSubsetOrdering
<1> QED
  BY <1>6

(* Finitely many numbers have a greatest one.                               *)
LEMMA GreatestOf ==
  ASSUME NEW S \in SUBSET Int, IsFiniteSet(S), S # {}
  PROVE  Max(S) \in S /\ \A y \in S : y <= Max(S)
<1> DEFINE R == StrictSubsetOrdering(S)
           Up == {{k \in S : x <= k} : x \in S}
<1>1. IsWellFoundedOn(R, FiniteSubsetsOf(S))
  BY FS_StrictSubsetOrderingWellFounded
<1>2. Up \subseteq FiniteSubsetsOf(S) /\ Up # {}
  <2>1. FiniteSubsetsOf(S) = SUBSET S
    BY FS_FiniteSubsetsOfFinite
  <2>2. Up \subseteq SUBSET S /\ Up # {}
    OBVIOUS
  <2> QED
    BY <2>1, <2>2
<1>3. PICK A \in Up : \A B \in Up : ~(<<B, A>> \in R)
  <2> HIDE DEF R, Up
  <2> QED
    BY <1>1, <1>2, WFMin
<1>4. PICK x \in S : A = {k \in S : x <= k}
  OBVIOUS
<1>5. ASSUME NEW y \in S, x < y PROVE FALSE
  <2>1. {k \in S : y <= k} \in Up
    OBVIOUS
  <2>2. x \notin {k \in S : y <= k} /\ x \in A
    BY <1>4, <1>5
  <2>3. {k \in S : y <= k} \subseteq A
    <3>1. \A k \in S : y <= k => x <= k
      BY <1>5
    <3> QED
      BY <1>4, <3>1, Zenon
  <2> QED
    BY <1>3, <1>4, <2>1, <2>2, <2>3 DEF StrictSubsetOrdering
<1>6. \E z \in S : \A y \in S : z >= y
  BY <1>5
<1> QED
  BY <1>6 DEF Max

(* Of the subsets of a finite set that are bad, one has no bad subset.      *)
LEMMA SmallestOf ==
  ASSUME NEW D, IsFiniteSet(D), NEW Bad \in SUBSET SUBSET D, Bad # {}
  PROVE  \E E \in Bad : \A F \in Bad : F \subseteq E => F = E
<1> DEFINE R == StrictSubsetOrdering(D)
<1>1. IsWellFoundedOn(R, FiniteSubsetsOf(D)) /\ FiniteSubsetsOf(D) = SUBSET D
  BY FS_StrictSubsetOrderingWellFounded, FS_FiniteSubsetsOfFinite
<1>2. PICK E \in Bad : \A F \in Bad : ~(<<F, E>> \in R)
  <2> HIDE DEF R
  <2> QED
    BY <1>1, WFMin
<1> QED
  BY <1>2 DEF StrictSubsetOrdering

-----------------------------------------------------------------------------
(* Runs of days.                                                           *)

(* k days in a row, and not one more, backwards from d.                    *)
IsRun(days, d, k) ==
  /\ k \in Nat
  /\ d - k \notin days
  /\ \A j \in 0 .. k - 1 : d - j \in days

RunLength(days, d) == CHOOSE k : IsRun(days, d, k)

(* Days in a row are no more than all days.                                 *)
LEMMA DaysInARow ==
  ASSUME NEW days, IsFiniteSet(days), NEW d \in Int, NEW n \in Nat,
         \A j \in 0 .. n - 1 : d - j \in days
  PROVE  n <= Cardinality(days)
<1> DEFINE S == d - n + 1 .. d
<1>1. IsFiniteSet(S) /\ Cardinality(S) = n
  <2>1. IsFiniteSet(S) /\ Cardinality(S) = IF d - n + 1 > d THEN 0 ELSE d - (d - n + 1) + 1
    BY FS_Interval
  <2> QED
    BY <2>1
<1>2. ASSUME NEW e \in S PROVE e \in days
  <2>1. d - e \in 0 .. n - 1 /\ d - (d - e) = e
    OBVIOUS
  <2> QED
    BY <2>1
<1> QED
  BY <1>1, <1>2, FS_Subset

(* Back from every day there is a first gap, as the days are finite.        *)
LEMMA RunIs ==
  ASSUME NEW days, IsFiniteSet(days), NEW d \in Int
  PROVE  IsRun(days, d, RunLength(days, d)) /\ RunLength(days, d) <= Cardinality(days)
<1> DEFINE S == {k \in Nat : d - k \notin days}
<1>1. S # {}
  <2> SUFFICES ASSUME \A k \in Nat : d - k \in days PROVE FALSE
    OBVIOUS
  <2>1. Cardinality(days) \in Nat
    BY FS_CardinalityType
  <2>2. PICK n \in Nat : n = Cardinality(days) + 1
    BY <2>1
  <2>3. \A j \in 0 .. n - 1 : d - j \in days
    OBVIOUS
  <2>4. n <= Cardinality(days)
    BY <2>3, DaysInARow
  <2> QED
    BY <2>1, <2>2, <2>4
<1>2. PICK k \in S : \A y \in S : k <= y
  BY <1>1, LeastOf
<1>3. \A j \in 0 .. k - 1 : d - j \in days
  BY <1>2
<1>4. IsRun(days, d, k)
  BY <1>3 DEF IsRun
<1>5. IsRun(days, d, RunLength(days, d))
  BY <1>4 DEF RunLength
<1> QED
  BY <1>5, DaysInARow DEF IsRun

(* The length of runs satisfies the recursion of both functions.            *)
LEMMA RunSteps ==
  ASSUME NEW days, IsFiniteSet(days), NEW d \in Int
  PROVE  /\ RunLength(days, d) \in Nat
         /\ d \notin days => RunLength(days, d) = 0
         /\ d \in days => RunLength(days, d) = RunLength(days, d - 1) + 1
<1> DEFINE k == RunLength(days, d)
           m == RunLength(days, d - 1)
<1>1. IsRun(days, d, k) /\ IsRun(days, d - 1, m)
  BY RunIs
<1> HIDE DEF k, m
<1>2. k \in Nat /\ d - k \notin days /\ \A j \in 0 .. k - 1 : d - j \in days
  BY <1>1 DEF IsRun
<1>3. m \in Nat /\ d - 1 - m \notin days /\ \A j \in 0 .. m - 1 : d - 1 - j \in days
  BY <1>1 DEF IsRun
<1>4. ASSUME d \notin days PROVE k = 0
  <2>1. ASSUME k > 0 PROVE FALSE
    <3>1. 0 \in 0 .. k - 1 /\ d - 0 = d
      BY <1>2, <2>1
    <3> QED
      BY <1>2, <1>4, <3>1
  <2> QED
    BY <1>2, <2>1
<1>5. ASSUME d \in days PROVE k = m + 1
  <2>1. k # 0
    BY <1>2, <1>5
  <2>2. ASSUME k < m + 1 PROVE FALSE
    <3>1. k - 1 \in 0 .. m - 1 /\ d - 1 - (k - 1) = d - k
      BY <1>2, <1>3, <2>1, <2>2
    <3> QED
      BY <1>2, <1>3, <3>1
  <2>3. ASSUME k > m + 1 PROVE FALSE
    <3>1. m + 1 \in 0 .. k - 1 /\ d - (m + 1) = d - 1 - m
      BY <1>2, <1>3, <2>3
    <3> QED
      BY <1>2, <1>3, <3>1
  <2> QED
    BY <1>2, <1>3, <2>2, <2>3
<1> QED
  BY <1>2, <1>4, <1>5 DEF k, m

(* RunBack computes the lengths of runs: the recursion has one solution,    *)
(* since at the least length where two differ they would differ at a        *)
(* smaller one as well.                                                     *)
LEMMA BackIsRun ==
  ASSUME NEW days, IsFiniteSet(days), NEW e \in Int
  PROVE  RunBack(days)[e] = RunLength(days, e)
<1> DEFINE Back(f) == f = [d \in Int |-> IF d \in days THEN 1 + f[d - 1] ELSE 0]
           g == [d \in Int |-> RunLength(days, d)]
           b == RunBack(days)
<1>1. Back(g)
  BY RunSteps
<1>2. b = CHOOSE f : Back(f)
  BY DEF RunBack
<1>3. Back(b)
  <2> HIDE DEF Back, b, g
  <2> QED
    BY <1>1, <1>2
<1>4. \A d \in Int : b[d] = IF d \in days THEN 1 + b[d - 1] ELSE 0
  <2> HIDE DEF b
  <2> QED
    BY <1>3
<1> HIDE DEF b, Back, g
<1> DEFINE T == {k \in Nat : \E d \in Int : RunLength(days, d) = k /\ b[d] # k}
<1>5. T = {}
  <2> SUFFICES ASSUME T # {} PROVE FALSE
    OBVIOUS
  <2>1. PICK k \in T : \A y \in T : k <= y
    BY LeastOf
  <2>2. PICK d \in Int : RunLength(days, d) = k /\ b[d] # k
    BY <2>1
  <2>3. d \in days /\ k = RunLength(days, d - 1) + 1 /\ RunLength(days, d - 1) \in Nat
    BY <1>4, <2>2, RunSteps
  <2>4. b[d - 1] # RunLength(days, d - 1)
    BY <1>4, <2>2, <2>3
  <2>5. RunLength(days, d - 1) \in T
    BY <2>3, <2>4
  <2> QED
    BY <2>1, <2>3, <2>5
<1>6. RunLength(days, e) \in Nat
  BY RunSteps
<1> QED
  BY <1>5, <1>6 DEF b

(* RunOf computes them, too, for the days that are active.                  *)
LEMMA RunOfIsRun ==
  ASSUME NEW days \in SUBSET Int, IsFiniteSet(days), NEW e \in days
  PROVE  RunOf(days)[e] = RunLength(days, e)
<1> DEFINE Runs(f) == f = [d \in days |-> IF d - 1 \in days THEN f[d - 1] + 1 ELSE 1]
           g == [d \in days |-> RunLength(days, d)]
           b == RunOf(days)
<1>1. Runs(g)
  <2>1. \A d \in days : d - 1 \notin days => RunLength(days, d - 1) = 0
    BY RunSteps
  <2>2. \A d \in days : RunLength(days, d) = RunLength(days, d - 1) + 1
    BY RunSteps
  <2> QED
    BY <2>1, <2>2
<1>2. b = CHOOSE f : Runs(f)
  BY DEF RunOf
<1>3. Runs(b)
  <2> HIDE DEF Runs, b, g
  <2> QED
    BY <1>1, <1>2
<1>4. \A d \in days : b[d] = IF d - 1 \in days THEN b[d - 1] + 1 ELSE 1
  <2> HIDE DEF b
  <2> QED
    BY <1>3
<1> HIDE DEF b, Runs, g
<1> DEFINE T == {k \in Nat : \E d \in days : RunLength(days, d) = k /\ b[d] # k}
<1>5. T = {}
  <2> SUFFICES ASSUME T # {} PROVE FALSE
    OBVIOUS
  <2>1. PICK k \in T : \A y \in T : k <= y
    BY LeastOf
  <2>2. PICK d \in days : RunLength(days, d) = k /\ b[d] # k
    BY <2>1
  <2>3. k = RunLength(days, d - 1) + 1 /\ RunLength(days, d - 1) \in Nat
    BY <2>2, RunSteps
  <2>4. d - 1 \in days
    BY <1>4, <2>2, <2>3, RunSteps
  <2>5. b[d - 1] # RunLength(days, d - 1)
    BY <1>4, <2>2, <2>3, <2>4
  <2>6. RunLength(days, d - 1) \in T
    BY <2>3, <2>4, <2>5
  <2> QED
    BY <2>1, <2>3, <2>6
<1>6. RunLength(days, e) \in Nat
  BY RunSteps
<1> QED
  BY <1>5, <1>6 DEF b

(* The runs that end at active days, and 0; the runs that days have.       *)
LEMMA BestIsLongest ==
  ASSUME NEW days \in SUBSET Int, IsFiniteSet(days)
  PROVE  /\ Max({0} \cup {RunOf(days)[d] : d \in days}) = LongestRun(days)
         /\ \A e \in Int : RunBack(days)[e] <= LongestRun(days)
<1> DEFINE c == Cardinality(days)
           B == {0} \cup {RunOf(days)[d] : d \in days}
           U == {0} \cup {n \in 1 .. c : \E d \in days : d .. d + n - 1 \subseteq days}
<1>1. c \in Nat
  BY FS_CardinalityType
<1>2. IsFiniteSet(0 .. c)
  BY <1>1, FS_Interval
<1>3. ASSUME NEW d \in days
      PROVE  RunOf(days)[d] = RunLength(days, d) /\ RunLength(days, d) \in U
  <2> DEFINE k == RunLength(days, d)
  <2>1. IsRun(days, d, k) /\ k <= c
    BY RunIs
  <2>2. k \in Nat /\ k = RunLength(days, d - 1) + 1 /\ RunLength(days, d - 1) \in Nat
    BY RunSteps
  <2> HIDE DEF k
  <2>3. k \in 1 .. c
    BY <1>1, <2>1, <2>2
  <2>4. \A j \in 0 .. k - 1 : d - j \in days
    BY <2>1 DEF IsRun
  <2>5. d - (k - 1) \in days
    BY <2>3, <2>4
  <2>6. ASSUME NEW e \in (d - (k - 1)) .. (d - (k - 1)) + k - 1 PROVE e \in days
    <3>1. d - e \in 0 .. k - 1 /\ d - (d - e) = e
      BY <2>3
    <3> QED
      BY <2>4, <3>1
  <2>7. \E b \in days : b .. b + k - 1 \subseteq days
    BY <2>5, <2>6
  <2>8. k \in U
    BY <2>3, <2>7
  <2> QED
    BY <2>8, RunOfIsRun DEF k
<1>4. U \subseteq 0 .. c /\ B \subseteq U
  BY <1>1, <1>3
<1>5. IsFiniteSet(U) /\ IsFiniteSet(B) /\ U \subseteq Int /\ B \subseteq Int
  <2>1. U \subseteq 0 .. c /\ B \subseteq 0 .. c
    BY <1>4
  <2>2. 0 .. c \subseteq Int
    BY <1>1
  <2> HIDE DEF U, B
  <2>3. IsFiniteSet(U) /\ IsFiniteSet(B)
    BY <1>2, <2>1, FS_Subset
  <2> QED
    BY <2>1, <2>2, <2>3
<1>6. B # {} /\ U # {} /\ 0 \in B
  OBVIOUS
<1>7. ASSUME NEW n \in U
      PROVE  \E b \in B : n <= b
  <2>1. CASE n = 0
    BY <1>6, <2>1
  <2>2. CASE n # 0
    <3>1. n \in 1 .. c
      BY <2>2
    <3>2. PICK d \in days : d .. d + n - 1 \subseteq days
      BY <2>2
    <3>3. d \in Int /\ n \in Nat
      BY <1>1, <3>1
    <3>4. PICK e \in Int : e = d + n - 1
      BY <3>3
    <3>5. e \in days
      BY <3>1, <3>2, <3>3, <3>4
    <3> DEFINE k == RunLength(days, e)
    <3>6. IsRun(days, e, k) /\ k \in Nat
      BY RunIs, RunSteps
    <3>7. k = RunOf(days)[e] /\ k \in B
      BY <1>3, <3>5
    <3> HIDE DEF k
    <3>8. ASSUME k < n PROVE FALSE
      <4>1. e - k \in d .. d + n - 1
        BY <3>1, <3>3, <3>4, <3>6, <3>8
      <4> QED
        BY <3>2, <3>6, <4>1 DEF IsRun
    <3>9. n <= k
      BY <3>3, <3>6, <3>8
    <3> QED
      BY <3>7, <3>9
  <2> QED
    BY <2>1, <2>2
<1> HIDE DEF B, U
<1>8. /\ Max(B) \in B /\ \A y \in B : y <= Max(B)
      /\ Max(U) \in U /\ \A y \in U : y <= Max(U)
  BY <1>5, <1>6, GreatestOf
<1>9. Max(B) = Max(U)
  <2>1. Max(B) <= Max(U)
    BY <1>4, <1>8
  <2>2. PICK b \in B : Max(U) <= b
    BY <1>7, <1>8
  <2>3. Max(U) <= Max(B) /\ Max(U) \in Int /\ Max(B) \in Int
    <3>1. b \in Int /\ b <= Max(B) /\ Max(U) \in Int /\ Max(B) \in Int
      BY <1>5, <1>8
    <3> QED
      BY <2>2, <3>1
  <2> QED
    BY <2>1, <2>3
<1>10. Max(U) = LongestRun(days)
  BY DEF LongestRun, U
<1>11. ASSUME NEW e \in Int PROVE RunBack(days)[e] <= Max(U)
  <2>1. RunBack(days)[e] = RunLength(days, e)
    BY BackIsRun
  <2>2. CASE e \in days
    BY <1>3, <1>8, <2>1, <2>2
  <2>3. CASE e \notin days
    <3>1. RunBack(days)[e] = 0
      BY <2>1, <2>3, RunSteps
    <3>2. 0 \in U
      BY DEF U
    <3> QED
      BY <1>8, <3>1, <3>2
  <2> QED
    BY <2>2, <2>3
<1> QED
  BY <1>9, <1>10, <1>11 DEF B

(* What the streak says of the active days.                                *)
LEMMA StreakIsRight ==
  ASSUME NEW days \in SUBSET Int, IsFiniteSet(days), NEW today \in Int,
         NEW streak, streak = Streak(days, today)
  PROVE  /\ streak.best = LongestRun(days)
         /\ streak.current <= streak.best
         /\ streak.current > 0 <=> streak.days[0] \/ streak.days[1]
<1> DEFINE e == IF today \in days THEN today ELSE today - 1
<1>1. e \in Int /\ (e \in days <=> today \in days \/ today - 1 \in days)
  OBVIOUS
<1>2. /\ streak.best = Max({0} \cup {RunOf(days)[d] : d \in days})
      /\ streak.current = RunBack(days)[e]
      /\ streak.days = [o \in 0 .. 6 |-> today - o \in days]
  BY DEF Streak
<1> HIDE DEF e
<1>3. streak.best = LongestRun(days) /\ streak.current <= streak.best
  BY <1>1, <1>2, BestIsLongest
<1>4. streak.current > 0 <=> e \in days
  <2>1. streak.current = RunLength(days, e)
    BY <1>1, <1>2, BackIsRun
  <2>2. /\ e \notin days => RunLength(days, e) = 0
        /\ e \in days => RunLength(days, e) = RunLength(days, e - 1) + 1
        /\ RunLength(days, e - 1) \in Nat
    BY <1>1, RunSteps
  <2> QED
    BY <2>1, <2>2
<1>5. streak.days[0] = (today \in days) /\ streak.days[1] = (today - 1 \in days)
  <2>1. today - 0 = today
    OBVIOUS
  <2> QED
    BY <1>2, <2>1
<1> QED
  BY <1>1, <1>3, <1>4, <1>5

-----------------------------------------------------------------------------
(* Sums of sums.                                                           *)

(* Nothing has the total 0.                                                 *)
LEMMA TotalOfNone ==
  ASSUME NEW g
  PROVE  Total({}, g) = 0
<1>1. Pairs({}, g) = {}
  BY DEF Pairs
<1> QED
  BY <1>1, TotalIsOfPairs, FS_EmptySet

(* A total is a number.                                                     *)
LEMMA TotalIsNat ==
  ASSUME NEW I, IsFiniteSet(I), NEW g \in [I -> Nat]
  PROVE  Total(I, g) \in Nat
BY TotalGrows

(* A set without one of its elements.                                      *)
LEMMA TotalLeaves ==
  ASSUME NEW I, IsFiniteSet(I), NEW g \in [I -> Nat], NEW x \in I
  PROVE  /\ Total(I, g) = Total(I \ {x}, [i \in I \ {x} |-> g[i]]) + g[x]
         /\ Total(I \ {x}, [i \in I \ {x} |-> g[i]]) \in Nat
<1> DEFINE J == I \ {x}
           h == [i \in J |-> g[i]]
<1>1. IsFiniteSet(J) /\ J \cup {x} = I /\ x \notin J
  BY FS_Subset
<1>2. h \in [J -> Nat] /\ \A i \in J : g[i] = h[i]
  OBVIOUS
<1> HIDE DEF J, h
<1>3. Total(J, h) \in Nat
  BY <1>1, <1>2, TotalIsNat
<1>4. Total(J \cup {x}, g) = Total(J, h) + g[x]
  BY <1>1, <1>2, TotalAdds
<1> QED
  BY <1>1, <1>3, <1>4 DEF J, h

(* A total of sums is the sum of the totals.                               *)
LEMMA TotalSplits ==
  ASSUME NEW D, IsFiniteSet(D), NEW f \in [D -> Nat], NEW g \in [D -> Nat],
         NEW h \in [D -> Nat], \A d \in D : f[d] = g[d] + h[d]
  PROVE  Total(D, f) = Total(D, g) + Total(D, h)
<1> DEFINE Sum(E, a) == Total(E, [d \in E |-> a[d]])
           Bad == {E \in SUBSET D : Sum(E, f) # Sum(E, g) + Sum(E, h)}
<1>1. ASSUME Bad # {} PROVE FALSE
  <2>1. PICK E \in Bad : \A F \in Bad : F \subseteq E => F = E
    <3>1. Bad \in SUBSET SUBSET D
      OBVIOUS
    <3> HIDE DEF Bad
    <3> QED
      BY <1>1, <3>1, SmallestOf
  <2>2. E \subseteq D /\ IsFiniteSet(E) /\ Sum(E, f) # Sum(E, g) + Sum(E, h)
    BY <2>1, FS_Subset
  <2>3. E # {}
    <3>1. Sum({}, f) = 0 /\ Sum({}, g) = 0 /\ Sum({}, h) = 0
      BY TotalOfNone
    <3>2. ASSUME E = {} PROVE FALSE
      <4>1. Sum({}, f) # Sum({}, g) + Sum({}, h)
        BY <2>2, <3>2
      <4> HIDE DEF Sum
      <4> QED
        BY <3>1, <4>1
    <3> QED
      BY <3>2
  <2>4. PICK x \in E : TRUE
    BY <2>3
  <2> DEFINE F == E \ {x}
  <2>5. ASSUME NEW a \in [D -> Nat]
        PROVE  Sum(E, a) = Sum(F, a) + a[x] /\ Sum(F, a) \in Nat /\ a[x] \in Nat
    <3> DEFINE b == [d \in E |-> a[d]]
    <3>1. b \in [E -> Nat]
      BY <2>2
    <3>2. [d \in F |-> b[d]] = [d \in F |-> a[d]] /\ b[x] = a[x]
      BY <2>4
    <3> HIDE DEF b
    <3>3. /\ Total(E, b) = Total(F, [d \in F |-> b[d]]) + b[x]
          /\ Total(F, [d \in F |-> b[d]]) \in Nat
      BY <2>2, <2>4, <3>1, TotalLeaves
    <3>4. Sum(E, a) = Sum(F, a) + a[x] /\ Sum(F, a) \in Nat
      BY <3>2, <3>3 DEF b
    <3> QED
      BY <2>2, <2>4, <3>4
  <2>6. F \subseteq D /\ F # E /\ F \subseteq E
    BY <2>2, <2>4
  <2> HIDE DEF Sum, F
  <2>7. Sum(F, f) = Sum(F, g) + Sum(F, h)
    BY <2>1, <2>6
  <2>8. f[x] = g[x] + h[x]
    BY <2>2, <2>4
  <2>9. /\ Sum(E, f) = Sum(F, f) + f[x]
        /\ Sum(E, g) = Sum(F, g) + g[x] /\ Sum(F, g) \in Nat /\ g[x] \in Nat
        /\ Sum(E, h) = Sum(F, h) + h[x] /\ Sum(F, h) \in Nat /\ h[x] \in Nat
    BY <2>5
  <2> QED
    BY <2>2, <2>7, <2>8, <2>9
<1>2. Sum(D, f) = Sum(D, g) + Sum(D, h)
  BY <1>1
<1>3. /\ [d \in D |-> f[d]] = f /\ [d \in D |-> g[d]] = g /\ [d \in D |-> h[d]] = h
  OBVIOUS
<1> QED
  BY <1>2, <1>3

(* Amounts of elements that are told apart by class: the total of the sums *)
(* of some classes is the sum of the elements of those classes.            *)
Part(I, class, d) == {i \in I : class[i] = d}

Parted(I, class, D) == {i \in I : class[i] \in D}

SumOf(I, g) == Total(I, [i \in I |-> g[i]])

(* Two disjoint parts have the total of their union.                        *)
LEMMA SumsTogether ==
  ASSUME NEW I, IsFiniteSet(I), NEW g \in [I -> Nat],
         NEW J \in SUBSET I, NEW K \in SUBSET I, J \cap K = {}
  PROVE  SumOf(J \cup K, g) = SumOf(J, g) + SumOf(K, g)
<1> DEFINE j == [i \in J |-> g[i]]
           k == [i \in K |-> g[i]]
           u == [i \in J \cup K |-> g[i]]
           P == Pairs(J, j)
           Q == Pairs(K, k)
<1>1. IsFiniteSet(J) /\ IsFiniteSet(K)
  BY FS_Subset
<1>2. j \in [J -> Nat] /\ k \in [K -> Nat]
  OBVIOUS
<1>3. Pairs(J \cup K, u) = P \cup Q
  BY DEF Pairs
<1>4. P \cap Q = {}
  BY DEF Pairs, Copies
<1>5. SumOf(J, g) = Cardinality(P) /\ SumOf(K, g) = Cardinality(Q)
      /\ SumOf(J \cup K, g) = Cardinality(Pairs(J \cup K, u))
  BY TotalIsOfPairs DEF SumOf
<1>6. IsFiniteSet(P) /\ IsFiniteSet(Q)
  <2> HIDE DEF j, k
  <2> QED
    BY <1>1, <1>2, PairsAreFinite
<1> HIDE DEF P, Q, u
<1>7. Cardinality(P \cup Q) = Cardinality(P) + Cardinality(Q) - Cardinality(P \cap Q)
  BY <1>6, FS_Union
<1>8. Cardinality(P) \in Nat /\ Cardinality(Q) \in Nat /\ Cardinality(P \cap Q) = 0
  BY <1>4, <1>6, FS_CardinalityType, FS_EmptySet
<1> QED
  <2>1. SumOf(J \cup K, g) = Cardinality(P \cup Q)
    BY <1>3, <1>5
  <2> QED
    BY <1>4, <1>5, <1>7, <1>8, <2>1

(* A part has a total, which is at most that of the whole.                  *)
LEMMA SumIsNat ==
  ASSUME NEW I, IsFiniteSet(I), NEW g \in [I -> Nat], NEW J \in SUBSET I
  PROVE  SumOf(J, g) \in Nat /\ SumOf(J, g) <= SumOf(I, g)
<1>1. [i \in J |-> g[i]] \in [J -> Nat] /\ [i \in I |-> g[i]] \in [I -> Nat]
  OBVIOUS
<1>2. \A i \in J : [k \in J |-> g[k]][i] = [k \in I |-> g[k]][i]
  OBVIOUS
<1> QED
  BY <1>1, <1>2, TotalGrows DEF SumOf

(* The totals of the classes of an index set add up to the total of those   *)
(* that are in a class: the smallest set of classes for which they do not   *)
(* would have a smaller one.                                                *)
LEMMA TotalOfParts ==
  ASSUME NEW I, IsFiniteSet(I), NEW g \in [I -> Nat], NEW class,
         NEW D, IsFiniteSet(D),
         NEW t \in [D -> Nat], \A d \in D : t[d] = SumOf(Part(I, class, d), g)
  PROVE  Total(D, t) = SumOf(Parted(I, class, D), g)
<1> DEFINE Bad == {E \in SUBSET D : SumOf(E, t) # SumOf(Parted(I, class, E), g)}
<1>1. ASSUME Bad # {} PROVE FALSE
  <2>1. PICK E \in Bad : \A F \in Bad : F \subseteq E => F = E
    <3>1. Bad \in SUBSET SUBSET D
      OBVIOUS
    <3> HIDE DEF Bad
    <3> QED
      BY <1>1, <3>1, SmallestOf
  <2>2. E \subseteq D /\ IsFiniteSet(E) /\ SumOf(E, t) # SumOf(Parted(I, class, E), g)
    BY <2>1, FS_Subset
  <2>3. E # {}
    <3>1. Parted(I, class, {}) = {}
      BY DEF Parted
    <3>2. SumOf({}, t) = 0 /\ SumOf({}, g) = 0
      BY TotalOfNone DEF SumOf
    <3> QED
      BY <2>2, <3>1, <3>2
  <2>4. PICK x \in E : TRUE
    BY <2>3
  <2> DEFINE F == E \ {x}
  <2>5. F \subseteq D /\ F # E /\ F \subseteq E
    BY <2>2, <2>4
  <2>6. SumOf(F, t) = SumOf(Parted(I, class, F), g)
    BY <2>1, <2>5
  <2>7. SumOf(E, t) = SumOf(F, t) + t[x]
    <3> DEFINE b == [d \in E |-> t[d]]
    <3>1. b \in [E -> Nat]
      BY <2>2
    <3>2. [d \in F |-> b[d]] = [d \in F |-> t[d]] /\ b[x] = t[x]
      BY <2>4
    <3> HIDE DEF b
    <3>3. Total(E, b) = Total(F, [d \in F |-> b[d]]) + b[x]
      BY <2>2, <2>4, <3>1, TotalLeaves
    <3> QED
      BY <3>2, <3>3 DEF b, SumOf
  <2>8. /\ Parted(I, class, E) = Parted(I, class, F) \cup Part(I, class, x)
        /\ Parted(I, class, F) \cap Part(I, class, x) = {}
        /\ Parted(I, class, F) \subseteq I /\ Part(I, class, x) \subseteq I
    BY <2>4 DEF Parted, Part
  <2>9. SumOf(Parted(I, class, E), g) =
          SumOf(Parted(I, class, F), g) + SumOf(Part(I, class, x), g)
    <3> DEFINE J == Parted(I, class, F)
               K == Part(I, class, x)
    <3>1. J \in SUBSET I /\ K \in SUBSET I /\ J \cap K = {}
      BY <2>8
    <3>2. Parted(I, class, E) = J \cup K
      BY <2>8
    <3> HIDE DEF J, K
    <3>3. SumOf(J \cup K, g) = SumOf(J, g) + SumOf(K, g)
      BY <3>1, SumsTogether
    <3> QED
      BY <3>2, <3>3 DEF J, K
  <2> QED
    BY <2>2, <2>4, <2>6, <2>7, <2>9
<1>2. SumOf(D, t) = SumOf(Parted(I, class, D), g)
  BY <1>1
<1>3. [d \in D |-> t[d]] = t
  OBVIOUS
<1> QED
  BY <1>2, <1>3 DEF SumOf

-----------------------------------------------------------------------------
(* What statistics are made of.                                            *)

Read(s) ==
  /\ s.now \in Int /\ s.query \in Queries
  /\ s.events = [i \in stored |-> events[i]]
  /\ s.notebooks \subseteq Notebooks
  /\ s.attempts \subseteq Attempts /\ IsFiniteSet(s.attempts)

(* Finitely many attempts are possible.                                      *)
LEMMA AttemptsAreFinite ==
  ASSUME StudyTypeOK
  PROVE  IsFiniteSet(Attempts)
<1> DEFINE T == -MaxTime .. now
           P == (Notebooks \X T) \X Durations
           R == [notebook : Notebooks, at : T, seconds : Durations]
           f == [p \in P |-> [notebook |-> p[1][1], at |-> p[1][2], seconds |-> p[2]]]
<1>1. -MaxTime \in Int /\ now \in Int
  BY StudyAssumption DEF StudyTypeOK
<1>2. IsFiniteSet(T)
  BY <1>1, FS_Interval
<1> HIDE DEF T
<1>3. IsFiniteSet(Notebooks \X T)
  BY <1>2, StudyAssumption, FS_Product
<1>4. IsFiniteSet(P)
  BY <1>3, StudyAssumption, FS_Product
<1>5. ASSUME NEW a \in R PROVE \E p \in P : f[p] = a
  <2>1. <<<<a.notebook, a.at>>, a.seconds>> \in P
    OBVIOUS
  <2>2. f[<<<<a.notebook, a.at>>, a.seconds>>] = a
    BY <2>1
  <2> QED
    BY <2>1, <2>2
<1>6. f \in [P -> R]
  OBVIOUS
<1>7. f \in Surjection(P, R)
  BY <1>5, <1>6 DEF Surjection
<1> HIDE DEF f, P, R
<1>8. IsFiniteSet(R)
  BY <1>4, <1>7, FS_Surjection
<1> QED
  BY <1>8 DEF Attempts, R, T

(* Snapshots are read from the rows of now.                                *)
LEMMA SnapshotsAreRead ==
  ASSUME StudyTypeOK, NEW s \in Snapshots
  PROVE  Read(s)
<1>1. PICK t \in {now, now - 1}, q \in Queries, N \in NotebookIds,
             A \in UNION {kSubset(k, Attempts) : k \in 0 .. MaxAttempts} :
        s = [now |-> t, query |-> q, notebooks |-> N, events |-> [i \in stored |-> events[i]],
             attempts |-> {a \in A : a.notebook \in N}]
  BY DEF Snapshots, ReadTimes
<1>2. t \in Int
  BY DEF StudyTypeOK
<1>3. A \subseteq Attempts
  BY DEF kSubset
<1>4. s.attempts \subseteq Attempts
  BY <1>1, <1>3
<1>5. IsFiniteSet(s.attempts)
  BY <1>4, AttemptsAreFinite, FS_Subset
<1> QED
  BY <1>1, <1>2, <1>4, <1>5 DEF Read, NotebookIds

LEMMA ReadTypes ==
  ASSUME StudyTypeOK, NEW s, Read(s)
  PROVE  /\ \A t \in Int : DayOf(s, t) \in Int
         /\ \A a \in s.attempts : a.notebook \in Notebooks /\ a.at \in Int /\ a.seconds \in Nat
         /\ IsFiniteSet(DOMAIN s.events)
         /\ \A i \in DOMAIN s.events : /\ s.events[i].notebook \in Notebooks
                                       /\ s.events[i].at \in Int
                                       /\ s.events[i].seconds \in Nat
<1>1. s.query.offset \in Int /\ DayLength \in Nat \ {0}
  BY StudyAssumption DEF Read
<1>2. \A t \in Int : DayOf(s, t) \in Int
  BY <1>1 DEF DayOf
<1>3. \A a \in s.attempts : a.notebook \in Notebooks /\ a.at \in Int /\ a.seconds \in Nat
  <2>1. now \in Int /\ -MaxTime \in Int
    BY StudyAssumption DEF StudyTypeOK
  <2>2. s.attempts \subseteq [notebook : Notebooks, at : -MaxTime .. now,
                              seconds : Durations]
    BY DEF Read, Attempts
  <2>3. -MaxTime .. now \subseteq Int
    BY <2>1
  <2>4. Durations \subseteq Nat
    BY StudyAssumption
  <2> QED
    BY <2>2, <2>3, <2>4
<1>4. /\ events \in Seq(Event) /\ stored \subseteq DOMAIN events
      /\ s.events = [i \in stored |-> events[i]]
  BY DEF Read, StudyTypeOK
<1>5. IsFiniteSet(DOMAIN s.events)
  BY <1>4, IndicesAreFinite
<1>6. ASSUME NEW i \in DOMAIN s.events
      PROVE  /\ s.events[i].notebook \in Notebooks
             /\ s.events[i].at \in Int
             /\ s.events[i].seconds \in Nat
  <2>1. i \in DOMAIN events /\ s.events[i] = events[i] /\ events[i] \in Event
    BY <1>4
  <2>2. /\ events[i].notebook \in Notebooks /\ events[i].at \in 0 .. MaxTime
        /\ events[i].seconds \in Nat
    BY <2>1 DEF Event
  <2>3. events[i].at \in Int
    BY <2>2, StudyAssumption
  <2> QED
    BY <2>1, <2>2, <2>3
<1> QED
  BY <1>2, <1>3, <1>5, <1>6

(* Finitely many days are active.                                           *)
LEMMA DaysAreFinite ==
  ASSUME StudyTypeOK, NEW s, Read(s)
  PROVE  IsFiniteSet(ActiveDays(s)) /\ ActiveDays(s) \subseteq Int
<1> DEFINE A == {DayOf(s, a.at) : a \in s.attempts}
           E == {DayOf(s, s.events[i].at) : i \in DOMAIN s.events}
           f == [a \in s.attempts |-> DayOf(s, a.at)]
           g == [i \in DOMAIN s.events |-> DayOf(s, s.events[i].at)]
<1>1. A \subseteq Int /\ E \subseteq Int
  BY ReadTypes
<1>2. f \in Surjection(s.attempts, A) /\ g \in Surjection(DOMAIN s.events, E)
  BY DEF Surjection
<1>3. IsFiniteSet(s.attempts) /\ IsFiniteSet(DOMAIN s.events)
  BY ReadTypes DEF Read
<1>4. ActiveDays(s) = A \cup E
  BY DEF ActiveDays
<1> HIDE DEF A, E, f, g
<1>5. IsFiniteSet(A) /\ IsFiniteSet(E)
  BY <1>2, <1>3, FS_Surjection
<1> QED
  BY <1>1, <1>4, <1>5, FS_Union

(* Seconds of some of the attempts and of some of the events.              *)
LEMMA SecondsAre ==
  ASSUME StudyTypeOK, NEW s, Read(s), NEW A \in SUBSET s.attempts,
         NEW I \in SUBSET DOMAIN s.events
  PROVE  LET a == [x \in s.attempts |-> x.seconds]
             e == [i \in DOMAIN s.events |-> s.events[i].seconds]
         IN  /\ a \in [s.attempts -> Nat] /\ e \in [DOMAIN s.events -> Nat]
             /\ SecondsAt(A) = SumOf(A, a) /\ SecondsOf(s.events, I) = SumOf(I, e)
             /\ SecondsAt(A) \in Nat /\ SecondsOf(s.events, I) \in Nat
             /\ SecondsAt(A) <= SecondsAt(s.attempts)
             /\ SecondsOf(s.events, I) <= SecondsOf(s.events, DOMAIN s.events)
<1> DEFINE a == [x \in s.attempts |-> x.seconds]
           e == [i \in DOMAIN s.events |-> s.events[i].seconds]
<1>1. a \in [s.attempts -> Nat] /\ e \in [DOMAIN s.events -> Nat]
  BY ReadTypes
<1>2. IsFiniteSet(s.attempts) /\ IsFiniteSet(DOMAIN s.events)
  BY ReadTypes DEF Read
<1>3. /\ \A B \in SUBSET s.attempts : SecondsAt(B) = SumOf(B, a)
      /\ \A J \in SUBSET DOMAIN s.events : SecondsOf(s.events, J) = SumOf(J, e)
  <2>1. ASSUME NEW B \in SUBSET s.attempts PROVE SecondsAt(B) = SumOf(B, a)
    <3>1. [x \in B |-> x.seconds] = [x \in B |-> a[x]]
      OBVIOUS
    <3> QED
      BY <3>1 DEF SecondsAt, SumOf
  <2>2. ASSUME NEW J \in SUBSET DOMAIN s.events PROVE SecondsOf(s.events, J) = SumOf(J, e)
    <3>1. [i \in J |-> s.events[i].seconds] = [i \in J |-> e[i]]
      OBVIOUS
    <3> QED
      BY <3>1 DEF SecondsOf, SumOf
  <2> QED
    BY <2>1, <2>2
<1> HIDE DEF a, e
<1>4. SumOf(A, a) \in Nat /\ SumOf(A, a) <= SumOf(s.attempts, a)
  BY <1>1, <1>2, SumIsNat
<1>5. SumOf(I, e) \in Nat /\ SumOf(I, e) <= SumOf(DOMAIN s.events, e)
  BY <1>1, <1>2, SumIsNat
<1>6. SecondsAt(A) = SumOf(A, a) /\ SecondsAt(s.attempts) = SumOf(s.attempts, a)
  BY <1>3
<1>7. /\ SecondsOf(s.events, I) = SumOf(I, e)
      /\ SecondsOf(s.events, DOMAIN s.events) = SumOf(DOMAIN s.events, e)
  BY <1>3
<1> QED
  BY <1>1, <1>4, <1>5, <1>6, <1>7 DEF a, e

(* Activity of some classes, such as days or notebooks: the total of their *)
(* seconds is that of the attempts and events of those classes.            *)
LEMMA SecondsAreShared ==
  ASSUME StudyTypeOK, NEW s, Read(s), NEW ca, NEW ce, NEW D, IsFiniteSet(D),
         NEW t, t = [d \in D |-> SecondsAt(Part(s.attempts, ca, d)) +
                                 SecondsOf(s.events, Part(DOMAIN s.events, ce, d))]
  PROVE  /\ t \in [D -> Nat]
         /\ Total(D, t) = SecondsAt(Parted(s.attempts, ca, D)) +
                          SecondsOf(s.events, Parted(DOMAIN s.events, ce, D))
<1> DEFINE a == [x \in s.attempts |-> x.seconds]
           e == [i \in DOMAIN s.events |-> s.events[i].seconds]
           g == [d \in D |-> SecondsAt(Part(s.attempts, ca, d))]
           h == [d \in D |-> SecondsOf(s.events, Part(DOMAIN s.events, ce, d))]
<1>1. IsFiniteSet(s.attempts) /\ IsFiniteSet(DOMAIN s.events)
  BY ReadTypes DEF Read
<1>2. /\ Parted(s.attempts, ca, D) \in SUBSET s.attempts
      /\ Parted(DOMAIN s.events, ce, D) \in SUBSET DOMAIN s.events
      /\ \A d \in D : /\ Part(s.attempts, ca, d) \in SUBSET s.attempts
                      /\ Part(DOMAIN s.events, ce, d) \in SUBSET DOMAIN s.events
  BY DEF Part, Parted
<1>3. a \in [s.attempts -> Nat] /\ e \in [DOMAIN s.events -> Nat]
  BY ReadTypes
<1>4. ASSUME NEW A \in SUBSET s.attempts
      PROVE  SecondsAt(A) = SumOf(A, a) /\ SecondsAt(A) \in Nat
  BY SecondsAre
<1>5. ASSUME NEW I \in SUBSET DOMAIN s.events
      PROVE  SecondsOf(s.events, I) = SumOf(I, e) /\ SecondsOf(s.events, I) \in Nat
  BY SecondsAre
<1> HIDE DEF a, e
<1>6. g \in [D -> Nat] /\ \A d \in D : g[d] = SumOf(Part(s.attempts, ca, d), a)
  BY <1>2, <1>4
<1>7. h \in [D -> Nat] /\ \A d \in D : h[d] = SumOf(Part(DOMAIN s.events, ce, d), e)
  BY <1>2, <1>5
<1>8. t \in [D -> Nat] /\ \A d \in D : t[d] = g[d] + h[d]
  BY <1>6, <1>7
<1> HIDE DEF g, h
<1>9. Total(D, g) = SumOf(Parted(s.attempts, ca, D), a)
  BY <1>1, <1>3, <1>6, TotalOfParts
<1>10. Total(D, h) = SumOf(Parted(DOMAIN s.events, ce, D), e)
  BY <1>1, <1>3, <1>7, TotalOfParts
<1>11. Total(D, t) = Total(D, g) + Total(D, h)
  BY <1>6, <1>7, <1>8, TotalSplits
<1> QED
  BY <1>2, <1>4, <1>5, <1>8, <1>9, <1>10, <1>11

(* All seconds are of some notebook.                                       *)
LEMMA TotalIsAll ==
  ASSUME StudyTypeOK, NEW s, Read(s)
  PROVE  /\ [n \in Notebooks |-> StudySeconds(s, n)] \in [Notebooks -> Nat]
         /\ TotalSeconds(s) = SecondsAt(s.attempts) + SecondsOf(s.events, DOMAIN s.events)
<1> DEFINE ca == [a \in s.attempts |-> a.notebook]
           ce == [i \in DOMAIN s.events |-> s.events[i].notebook]
           t == [n \in Notebooks |-> StudySeconds(s, n)]
<1>1. /\ Parted(s.attempts, ca, Notebooks) = s.attempts
      /\ Parted(DOMAIN s.events, ce, Notebooks) = DOMAIN s.events
  BY ReadTypes DEF Parted
<1>2. ASSUME NEW n \in Notebooks
      PROVE  StudySeconds(s, n) =
               SecondsAt(Part(s.attempts, ca, n)) +
               SecondsOf(s.events, Part(DOMAIN s.events, ce, n))
  <2>1. /\ Part(s.attempts, ca, n) = {a \in s.attempts : a.notebook = n}
        /\ Part(DOMAIN s.events, ce, n) = {i \in DOMAIN s.events : s.events[i].notebook = n}
    BY DEF Part
  <2> QED
    BY <2>1 DEF StudySeconds
<1>3. IsFiniteSet(Notebooks)
  BY StudyAssumption
<1>4. t = [n \in Notebooks |-> SecondsAt(Part(s.attempts, ca, n)) +
                               SecondsOf(s.events, Part(DOMAIN s.events, ce, n))]
  BY <1>2
<1> HIDE DEF ca, ce
<1>5. /\ t \in [Notebooks -> Nat]
      /\ Total(Notebooks, t) = SecondsAt(Parted(s.attempts, ca, Notebooks)) +
                               SecondsOf(s.events, Parted(DOMAIN s.events, ce, Notebooks))
  <2> HIDE DEF t
  <2> QED
    BY <1>3, <1>4, SecondsAreShared
<1> QED
  BY <1>1, <1>5 DEF TotalSeconds

(* The seconds of the days that are shown are part of all seconds.          *)
LEMMA PointsAddUp ==
  ASSUME StudyTypeOK, NEW s, Read(s), NEW points, points = LearningPoints(s)
  PROVE  Total(DOMAIN points, [d \in DOMAIN points |-> points[d].seconds]) <= TotalSeconds(s)
<1> DEFINE ca == [a \in s.attempts |-> DayOf(s, a.at)]
           ce == [i \in DOMAIN s.events |-> DayOf(s, s.events[i].at)]
           today == DayOf(s, s.now)
           D == PeriodStart(today, s.query) .. today
           t == [d \in D |-> SecondsAt(Part(s.attempts, ca, d)) +
                             SecondsOf(s.events, Part(DOMAIN s.events, ce, d))]
<1>1. today \in Int /\ PeriodStart(today, s.query) \in Int
  <2>1. today \in Int
    BY ReadTypes DEF Read
  <2>2. s.query.days \in Nat \ {0}
    BY StudyAssumption DEF Read
  <2>3. (today % s.query.days) \in Int
    BY <2>1, <2>2
  <2> QED
    BY <2>1, <2>2, <2>3 DEF PeriodStart
<1>2. IsFiniteSet(D)
  BY <1>1, FS_Interval
<1>3. /\ Parted(s.attempts, ca, D) \in SUBSET s.attempts
      /\ Parted(DOMAIN s.events, ce, D) \in SUBSET DOMAIN s.events
  BY DEF Parted
<1>4. DOMAIN points = D /\ \A d \in D : points[d].seconds = t[d]
  <2>1. points = [d \in D |-> Point(s, d)]
    BY DEF LearningPoints
  <2>2. ASSUME NEW d \in D PROVE Point(s, d).seconds = t[d]
    <3>1. /\ Part(s.attempts, ca, d) = {a \in s.attempts : DayOf(s, a.at) = d}
          /\ Part(DOMAIN s.events, ce, d) =
               {i \in DOMAIN s.events : DayOf(s, s.events[i].at) = d}
      BY DEF Part
    <3> QED
      BY <3>1 DEF Point
  <2> HIDE DEF D, t
  <2> QED
    BY <2>1, <2>2
<1>5. t = [d \in D |-> SecondsAt(Part(s.attempts, ca, d)) +
                       SecondsOf(s.events, Part(DOMAIN s.events, ce, d))]
  OBVIOUS
<1> HIDE DEF ca, ce, D, t
<1>6. t \in [D -> Nat] /\ Total(D, t) = SecondsAt(Parted(s.attempts, ca, D)) +
                                        SecondsOf(s.events, Parted(DOMAIN s.events, ce, D))
  BY <1>2, <1>5, SecondsAreShared
<1>7. [d \in DOMAIN points |-> points[d].seconds] = t
  BY <1>4, <1>6
<1>8. LET A == Parted(s.attempts, ca, D)
          I == Parted(DOMAIN s.events, ce, D)
      IN  /\ SecondsAt(A) \in Nat /\ SecondsOf(s.events, I) \in Nat
          /\ SecondsAt(A) <= SecondsAt(s.attempts)
          /\ SecondsOf(s.events, I) <= SecondsOf(s.events, DOMAIN s.events)
  BY <1>3, SecondsAre
<1>9. SecondsAt(s.attempts) \in Nat /\ SecondsOf(s.events, DOMAIN s.events) \in Nat
  BY SecondsAre
<1> QED
  BY <1>4, <1>6, <1>7, <1>8, <1>9, TotalIsAll

(* So are those of the notebooks that are listed.                           *)
LEMMA TimesAddUp ==
  ASSUME StudyTypeOK, NEW s, Read(s), NEW time, time = TimeByNotebook(s)
  PROVE  Total(DOMAIN time, time) <= TotalSeconds(s)
<1> DEFINE t == [n \in Notebooks |-> StudySeconds(s, n)]
           J == {n \in s.notebooks : StudySeconds(s, n) > 0}
<1>1. t \in [Notebooks -> Nat] /\ IsFiniteSet(Notebooks)
  BY TotalIsAll, StudyAssumption
<1>2. J \in SUBSET Notebooks
  BY DEF Read
<1>3. time = [n \in J |-> t[n]]
  BY <1>2 DEF TimeByNotebook
<1>4. TotalSeconds(s) = Total(Notebooks, t)
  BY DEF TotalSeconds
<1> HIDE DEF t, J
<1>5. DOMAIN time = J /\ time \in [J -> Nat] /\ \A n \in J : time[n] = t[n]
  BY <1>1, <1>2, <1>3
<1> QED
  BY <1>1, <1>2, <1>4, <1>5, TotalGrows

(* A day with something to show is active.                                 *)
LEMMA PointsAreActive ==
  ASSUME StudyTypeOK, NEW s, Read(s), NEW d,
         Point(s, d).exams + Point(s, d).cards + Point(s, d).seconds > 0
  PROVE  d \in ActiveDays(s)
<1> DEFINE A == {a \in s.attempts : DayOf(s, a.at) = d}
           I == {i \in DOMAIN s.events : DayOf(s, s.events[i].at) = d}
<1>1. /\ Point(s, d).exams = Cardinality(A)
      /\ Point(s, d).cards = Reviewed(s.events, I)
      /\ Point(s, d).seconds = SecondsAt(A) + SecondsOf(s.events, I)
  BY DEF Point
<1>2. ASSUME A = {}, I = {} PROVE FALSE
  <2>1. Cardinality({}) = 0 /\ SecondsAt({}) = 0
    BY FS_EmptySet, TotalOfNone DEF SecondsAt
  <2>2. SecondsOf(s.events, {}) = 0
    BY TotalOfNone DEF SecondsOf
  <2>3. Cards(s.events, {}) = {}
    BY DEF Cards
  <2>4. Reviewed(s.events, {}) = 0
    BY <2>3, TotalOfNone, ReviewedCards
  <2> HIDE DEF A, I
  <2> QED
    BY <1>1, <1>2, <2>1, <2>2, <2>4
<1> QED
  BY <1>2 DEF ActiveDays

(* Statistics agree with the activity that they are made of, for any       *)
(* activity and whatever mixture of old and new rows was read.             *)
THEOREM StatisticsStayRight == StudySpec => []StatisticsAddUp
<1>1. StudyTypeOK => StatisticsAddUp
  <2> SUFFICES ASSUME StudyTypeOK, NEW s \in Snapshots
               PROVE  LET active_dates == ActiveDays(s)
                          data == Statistics(s)
                          streak == data.streak
                          points == data.learning
                      IN /\ streak.best = LongestRun(active_dates)
                         /\ streak.current <= streak.best
                         /\ streak.current > 0 <=> streak.days[0] \/ streak.days[1]
                         /\ \A d \in DOMAIN points :
                              points[d].exams + points[d].cards + points[d].seconds > 0 =>
                                d \in active_dates
                         /\ Total(DOMAIN points, [d \in DOMAIN points |-> points[d].seconds])
                              <= data.total
                         /\ Total(DOMAIN data.time, data.time) <= data.total
    BY DEF StatisticsAddUp
  <2>1. Read(s)
    BY SnapshotsAreRead
  <2> DEFINE streak == Streak(ActiveDays(s), DayOf(s, s.now))
             points == LearningPoints(s)
             time == TimeByNotebook(s)
  <2>2. /\ Statistics(s).streak = streak /\ Statistics(s).learning = points
        /\ Statistics(s).time = time /\ Statistics(s).total = TotalSeconds(s)
    BY DEF Statistics
  <2>3. DayOf(s, s.now) \in Int
    BY <2>1, ReadTypes DEF Read
  <2>4. IsFiniteSet(ActiveDays(s)) /\ ActiveDays(s) \in SUBSET Int
    BY <2>1, DaysAreFinite
  <2>5. /\ streak.best = LongestRun(ActiveDays(s))
        /\ streak.current <= streak.best
        /\ streak.current > 0 <=> streak.days[0] \/ streak.days[1]
    BY <2>3, <2>4, StreakIsRight
  <2>6. \A d \in DOMAIN points : points[d] = Point(s, d)
    BY DEF LearningPoints
  <2>7. \A d \in DOMAIN points :
          points[d].exams + points[d].cards + points[d].seconds > 0 => d \in ActiveDays(s)
    BY <2>1, <2>6, PointsAreActive
  <2>8. Total(DOMAIN points, [d \in DOMAIN points |-> points[d].seconds]) <= TotalSeconds(s)
    BY <2>1, PointsAddUp
  <2>9. Total(DOMAIN time, time) <= TotalSeconds(s)
    BY <2>1, TimesAddUp
  <2> HIDE DEF streak, points, time
  <2> QED
    BY <2>2, <2>5, <2>7, <2>8, <2>9
<1> QED
  BY <1>1, StudyTypeCorrect, PTL
=============================================================================
