---------------------- MODULE DocumentIngestionProofs ----------------------
(***************************************************************************)
(* Proofs about DocumentIngestion, for any number of requests, documents,  *)
(* contents and faults.                                                    *)
(*                                                                         *)
(* The life of a document is told by three predicates that, once true,     *)
(* stay true: it is Settled when nothing can insert its row any more, Lost *)
(* when its upload will not be answered 201 any more, and Gone when it is  *)
(* settled without a row.  Without faults, what is not whole is in the     *)
(* care of a request (Cared).                                              *)
(***************************************************************************)
EXTENDS DocumentIngestion, FiniteSetTheorems, TLAPS

(* The steps of an upload until its row is inserted, and the ones from     *)
(* which it may still be accepted.                                         *)
Early == {"access", "lookup", "count", "drop", "unlink", "reserve", "store",
          "create"}

Open == Early \cup {"embed", "chunks", "complete", "record"}

(* Abandoned calls after which the request of an upload is not accepted.   *)
Spoiling == {"create", "undo", "chunks", "complete", "fail"}

MayInsert(d) ==
  \/ \E c \in Clients : call[c].new = d /\ call[c].step \in Early
  \/ \E i \in 1 .. MaxFaults : orphans[i].new = d /\ orphans[i].step = "create"

MayWin(d) ==
  \/ d \in accepted
  \/ \E c \in Clients : call[c].new = d /\ call[c].step \in Open

Settled(d) == d \in used /\ ~MayInsert(d)

Lost(d) == d \in used /\ ~MayWin(d)

Gone(d) == Settled(d) /\ ~Present(d)

(* What a call in service, or abandoned, carries.                          *)
Carries(k) ==
  /\ k.step = "idle" => k.new = None
  /\ k.step \in {"count", "drop", "unlink", "get"} => k.old \in Docs
  /\ k.kind = "delete" => k.step \in {"idle", "access", "get", "drop", "unlink"}
                          /\ k.old \in Docs /\ k.new = None
  /\ k.kind = "upload" /\ k.step # "idle" =>
       k.new \in used /\ k.content \in Contents /\ k.step # "get"

(* ... and what it has been promised.                                      *)
Promised(k) ==
  /\ k.step \in {"count", "drop", "unlink"} => Settled(k.old)
  /\ k.step = "unlink" => Gone(k.old)
  /\ k.step = "drop" /\ k.kind = "upload" => Lost(k.old)
  /\ k.step = "complete" =>
       /\ Settled(k.new)
       /\ Gone(k.new) \/ (k.new \in chunked /\ k.new \in objects)
  /\ k.step = "undo" =>
       /\ Lost(k.new) /\ row[k.new] # "completed"
       /\ \A i \in 1 .. MaxFaults :
            ~(orphans[i].new = k.new /\ orphans[i].step = "complete")
  /\ k.step = "fail" => Lost(k.new)

(* ... and what only a request in service can count on.                    *)
Serving(k) ==
  /\ k.step = "create" => k.new \in objects
  /\ k.step \in {"embed", "chunks"} =>
       Settled(k.new) /\ (Gone(k.new) \/ k.new \in objects)
  /\ k.step = "record" => row[k.new] \in {"absent", "completed"}

OneOwner ==
  \A c, e \in Clients : call[c].new = call[e].new /\ call[c].new # None => c = e

AcceptedHasNoOwner == \A c \in Clients : call[c].new \notin accepted

InsertedOnce ==
  \A i, j \in 1 .. MaxFaults :
    /\ orphans[i].step = "create" /\ orphans[j].step = "create"
    /\ orphans[i].new = orphans[j].new
    => i = j

WinnersAreUnspoiled ==
  \A d \in Docs : MayWin(d) =>
    \A i \in 1 .. MaxFaults : ~(orphans[i].new = d /\ orphans[i].step \in Spoiling)

RowsAreSettled ==
  \A d \in Docs : /\ Present(d) => Settled(d)
                  /\ row[d] = "failed" => Lost(d)

AnswersHold ==
  \A c \in Clients :
    resp[c].kind = "delete" /\ resp[c].code = "ok" =>
      resp[c].doc \in Docs /\ Gone(resp[c].doc)

TypeInv ==
  /\ TypeOK
  /\ \A c \in Clients : Carries(call[c])
  /\ \A i \in 1 .. MaxFaults : Carries(orphans[i])

IInv ==
  /\ TypeInv
  /\ \A c \in Clients : Promised(call[c]) /\ Serving(call[c])
  /\ \A i \in 1 .. MaxFaults : Promised(orphans[i])
  /\ OneOwner /\ InsertedOnce /\ AcceptedHasNoOwner /\ WinnersAreUnspoiled
  /\ RowsAreSettled /\ AnswersHold
  /\ ReadyIsWhole /\ AcceptedStaysReady

-----------------------------------------------------------------------------
(* Types.                                                                  *)

(* The steps of request c, whoever ends them.                              *)
Step(c) == Serve(c) \/ CallFails(c) \/ CallTimesOut(c) \/ Crash(c)

(* What any step of request c does to the requests.                        *)
Moved(c) ==
  /\ call[c].step # "idle"
  /\ call' \in [Clients -> Call]
  /\ \A e \in Clients : e # c => call'[e] = call[e] /\ resp'[e] = resp[e]
  /\ call'[c].new \in {None, call[c].new}
  /\ call'[c].new # None =>
       /\ call'[c].step \in Early => call[c].step \in Early
       /\ call'[c].step \in Open => call[c].step \in Open
  /\ resp' \in [Clients -> Response]
  /\ used' = used
  /\ \/ accepted' = accepted
     \/ /\ accepted' = accepted \cup {call[c].new}
        /\ call[c].step = "record" /\ call'[c] = IdleCall
        /\ call[c].new \in used

(* The two records of the beginning are typed.                             *)
LEMMA InitialRecords ==
  IdleCall \in Call /\ NoResponse \in Response /\ IdleCall.new = None
  /\ IdleCall.step = "idle" /\ IdleCall.kind = "upload"
BY DEF IdleCall, Call, NoResponse, Response, Steps, Statuses, Codes

(* The request is answered.                                                *)
Ends(c) ==
  /\ call'[c] = IdleCall
  /\ resp'[c].kind = "delete" /\ resp'[c].code = "ok" =>
       call[c].step = "unlink" /\ resp'[c].doc = call[c].old

(* What makes a request go to the call s.                                  *)
Reason(c, s) ==
  LET k == call[c] IN
  /\ s \notin {"idle", "access", "count"}
  /\ s \in {"unlink", "create", "embed", "complete", "record"} => UNCHANGED orphans
  /\ s \in {"lookup", "get"} => k.step = "access"
  /\ s \in {"lookup", "reserve"} => k.kind = "upload"
  /\ s = "get"      => k.kind = "delete"
  /\ s = "drop"     => k.step = "get" /\ Present(k.old)
  /\ s = "unlink"   => k.step = "drop" /\ DropRow(k)
  /\ s = "reserve"  => k.step \in {"lookup", "unlink"}
  /\ s = "store"    => k.step = "reserve"
  /\ s = "create"   => k.step = "store" /\ StoreObject(k)
  /\ s = "undo"     => k.step = "create"
  /\ s = "embed"    => k.step = "create" /\ InsertRow(k)
  /\ s = "chunks"   => k.step = "embed"
  /\ s = "complete" => k.step = "chunks" /\ InsertChunks(k)
  /\ s = "record"   => k.step = "complete" /\ SetStatus(k, "completed")
  /\ s = "fail"     => k.step \in {"embed", "chunks", "complete"}

(* An upload has found a document of its content.                          *)
Finds(c) ==
  /\ call[c].step = "lookup" /\ call[c].kind = "upload"
  /\ resp' = resp
  /\ \E d \in Docs, s \in {"count", "drop"} :
       /\ Present(d)
       /\ s = "drop" => row[d] = "failed"
       /\ call'[c] = [call[c] EXCEPT !.step = s, !.old = d, !.seen = row[d]]

Passes(c) ==
  /\ resp' = resp
  /\ \E s \in Steps : Reason(c, s) /\ call'[c] = [call[c] EXCEPT !.step = s]

(* A step of a request, as the later lemmas see it.                        *)
Moving(c) ==
  Moved(c) /\ Carries(call[c])' /\ (Ends(c) \/ Passes(c) \/ Finds(c))

(* A request that goes to its next call keeps what it carries.             *)
LEMMA GotoMoves ==
  ASSUME TypeInv, NEW c \in Clients, NEW s \in Steps,
         Goto(c, s), UNCHANGED used, Reason(c, s)
  PROVE  Moving(c)
<1>1. call[c] \in Call /\ Carries(call[c]) /\ call \in [Clients -> Call]
      /\ resp \in [Clients -> Response]
  BY DEF TypeInv, TypeOK
<1>2. call' = [call EXCEPT ![c] = [call[c] EXCEPT !.step = s]]
  BY DEF Goto
<1>3. /\ call'[c] = [call[c] EXCEPT !.step = s] /\ call'[c] \in Call
      /\ call'[c].step = s /\ call'[c].new = call[c].new
      /\ call'[c].old = call[c].old /\ call'[c].kind = call[c].kind
      /\ call'[c].content = call[c].content
  BY <1>1, <1>2 DEF Call
<1>4. call[c].step # "idle" /\ s # "idle"
  BY DEF Reason, Steps
<1>5. ASSUME call[c].new # None
      PROVE  /\ s \in Early => call[c].step \in Early
             /\ s \in Open => call[c].step \in Open
  BY <1>1, <1>5 DEF Reason, Early, Open, Carries, Call
<1>6. Moved(c)
  BY <1>1, <1>2, <1>3, <1>4, <1>5 DEF Moved, Goto
<1>7. Carries(call[c])'
  <2>1. /\ s \in {"drop", "unlink", "get"} => call[c].old \in Docs
        /\ call[c].kind = "delete" =>
             s \in {"get", "drop", "unlink"} /\ call[c].old \in Docs /\ call[c].new = None
        /\ call[c].kind = "upload" =>
             call[c].new \in used /\ call[c].content \in Contents /\ s # "get"
        /\ s \notin {"idle", "count"}
    BY <1>1, <1>4 DEF Carries, Reason, Steps
  <2>2. QED
    BY <1>3, <2>1 DEF Carries
<1>8. Passes(c)
  BY <1>3 DEF Passes, Goto
<1>9. QED
  BY <1>6, <1>7, <1>8 DEF Moving

(* So does one that is answered.                                           *)
LEMMA ReplyMoves ==
  ASSUME TypeInv, NEW c \in Clients, NEW code \in Codes,
         NEW d \in Docs \cup {None}, NEW s \in Statuses,
         Reply(c, code, d, s), UNCHANGED used, call[c].step # "idle",
         call[c].kind = "delete" /\ code = "ok" =>
           call[c].step = "unlink" /\ d = call[c].old,
         \/ accepted' = accepted
         \/ accepted' = accepted \cup {call[c].new} /\ call[c].step = "record"
  PROVE  Moving(c)
<1>1. call[c] \in Call /\ Carries(call[c]) /\ call \in [Clients -> Call]
      /\ resp \in [Clients -> Response]
  BY DEF TypeInv, TypeOK
<1>2. call'[c] = IdleCall /\ call' \in [Clients -> Call]
      /\ \A e \in Clients : e # c => call'[e] = call[e] /\ resp'[e] = resp[e]
  BY <1>1, InitialRecords DEF Reply
<1>3. [kind |-> call[c].kind, code |-> code, doc |-> d, status |-> s] \in Response
  BY <1>1 DEF Call, Response
<1>4. /\ resp' \in [Clients -> Response]
      /\ resp'[c] = [kind |-> call[c].kind, code |-> code, doc |-> d, status |-> s]
  BY <1>1, <1>3 DEF Reply
<1>5. Carries(call[c])'
  BY <1>2, InitialRecords DEF Carries
<1>6. call[c].step = "record" => call[c].new \in used
  BY <1>1 DEF Carries, Call
<1>7. Moved(c)
  BY <1>2, <1>4, <1>6, InitialRecords DEF Moved
<1>8. Ends(c)
  BY <1>2, <1>4 DEF Ends
<1>9. QED
  BY <1>5, <1>7, <1>8 DEF Moving

(* The kinds of requests and what their steps carry.                       *)
LEMMA CallFacts ==
  ASSUME TypeInv, NEW c \in Clients
  PROVE  /\ call[c] \in Call /\ Carries(call[c])
         /\ call[c].step \notin {"idle", "access", "get", "drop", "unlink"} =>
              call[c].kind = "upload"
         /\ call[c].step = "get" => call[c].kind = "delete"
BY DEF TypeInv, TypeOK, Carries, Call

LEMMA Refused ==
  ASSUME TypeInv, NEW c \in Clients, NEW code \in Codes, Refuse(c, code),
         code # "ok", UNCHANGED used, call[c].step # "idle"
  PROVE  Moving(c)
<1>1. Reply(c, code, None, "absent") /\ "absent" \in Statuses /\ accepted' = accepted
  BY DEF Refuse, Statuses
<1>2. QED
  BY <1>1, ReplyMoves

LEMMA Accepted ==
  ASSUME TypeInv, NEW c \in Clients, Accept(c), UNCHANGED used,
         call[c].step = "record"
  PROVE  Moving(c)
<1>1. /\ call[c].new \in Docs \cup {None} /\ call[c].kind = "upload"
      /\ "completed" \in Statuses /\ "ok" \in Codes
  BY CallFacts DEF Call, Statuses, Codes
<1>2. QED
  BY <1>1, ReplyMoves DEF Accept

LEMMA AfterUnlinkMoves ==
  ASSUME TypeInv, NEW c \in Clients, AfterUnlink(c), UNCHANGED used,
         call[c].step = "unlink"
  PROVE  Moving(c)
<1>1. /\ call[c].old \in Docs \cup {None} /\ "reserve" \in Steps
      /\ "absent" \in Statuses /\ "ok" \in Codes /\ call[c].kind \in {"upload", "delete"}
  BY CallFacts DEF Call, Statuses, Codes, Steps
<1>2. CASE call[c].kind = "delete"
  BY <1>1, <1>2, ReplyMoves DEF AfterUnlink, Deleted
<1>3. CASE call[c].kind = "upload"
  BY <1>1, <1>3, GotoMoves DEF AfterUnlink, Reason
<1>4. QED
  BY <1>1, <1>2, <1>3

(* An exception of the next call is handled.                               *)
LEMMA HandleMoves ==
  ASSUME TypeInv, NEW c \in Clients, Handle(c), UNCHANGED used
  PROVE  Moving(c)
<1>1. CASE call[c].step = "unlink"
  BY <1>1, AfterUnlinkMoves DEF Handle
<1>2. CASE call[c].step = "create"
  BY <1>2, CallFacts, GotoMoves
     DEF Handle, Compensate, Reason, Steps
<1>3. CASE call[c].step \in {"embed", "chunks", "complete"}
  BY <1>3, CallFacts, GotoMoves DEF Handle, Reason, Steps
<1>4. CASE call[c].step = "record"
  BY <1>4, Accepted DEF Handle
<1>5. CASE Refuse(c, "error") /\ call[c].step # "idle"
  BY <1>5, Refused DEF Codes
<1>6. QED
  BY <1>1, <1>2, <1>3, <1>4, <1>5 DEF Handle

(* The steps that only read, or that no call of this module makes.         *)
LEMMA ReadMoves ==
  ASSUME TypeInv, NEW c \in Clients,
         \/ CheckAccess(c) \/ Lookup(c) \/ CountChunks(c) \/ GetDocument(c)
         \/ Reserve(c) \/ Embed(c) \/ Record(c)
  PROVE  Moving(c) /\ UNCHANGED <<tableVars, used, orphans, faults>>
<1> USE CallFacts
<1>1. UNCHANGED <<tableVars, used, orphans, faults>>
  BY DEF CheckAccess, Lookup, CountChunks, GetDocument, Reserve, Embed, Record,
         NoFault
<1>2. {"forbidden", "bad_request", "not_found", "too_many"} \subseteq Codes
  BY DEF Codes
<1>3. CASE CheckAccess(c)
  <2>1. CASE \E code \in {"forbidden", "bad_request"} : Refuse(c, code)
    BY <1>1, <1>2, <1>3, <2>1, Refused DEF CheckAccess
  <2>2. CASE \E s \in {"lookup", "get"} :
               /\ Goto(c, s)
               /\ s = "lookup" => call[c].kind = "upload"
               /\ s = "get" => call[c].kind = "delete"
    <3>1. PICK s \in {"lookup", "get"} :
            /\ Goto(c, s)
            /\ s = "lookup" => call[c].kind = "upload"
            /\ s = "get" => call[c].kind = "delete"
      BY <2>2
    <3>2. call[c].step = "access" /\ s \in Steps
      BY <1>3 DEF CheckAccess, Steps
    <3>3. Reason(c, s)
      BY <3>1, <3>2 DEF Reason
    <3>4. QED
      BY <1>1, <3>1, <3>2, <3>3, GotoMoves
  <2>3. QED
    BY <1>3, <2>1, <2>2 DEF CheckAccess
<1>4. CASE Lookup(c)
  <2>1. CASE call' = [call EXCEPT ![c].step = "reserve"]
    <3>1. Goto(c, "reserve") /\ call[c].step = "lookup"
      BY <1>4, <2>1 DEF Goto, Lookup
    <3>2. QED
      BY <1>1, <3>1, CallFacts, GotoMoves DEF Reason, Steps
  <2>2. ASSUME NEW d \in Docs, content[d] = call[c].content,
               call' = [call EXCEPT
                        ![c].step = IF Retried(row[d]) THEN "drop" ELSE "count",
                        ![c].old = d, ![c].seen = row[d]]
        PROVE  Moving(c)
    <3> DEFINE s == IF Retried(row[d]) THEN "drop" ELSE "count"
    <3>1. /\ call[c].step = "lookup" /\ call[c] \in Call /\ Carries(call[c])
          /\ call \in [Clients -> Call] /\ row[d] \in Statuses
          /\ call[c].kind = "upload" /\ call[c].content # None
          /\ UNCHANGED <<resp, accepted>> /\ resp \in [Clients -> Response]
      BY <1>4, IngestionAssumption DEF Lookup, TypeInv, TypeOK, Carries
    <3>2. call'[c] = [call[c] EXCEPT !.step = s, !.old = d, !.seen = row[d]]
      BY <2>2, <3>1
    <3>3. s \in {"count", "drop"} /\ s \in Steps /\ (s = "drop" => row[d] = "failed")
      BY DEF Steps, Retried
    <3> HIDE DEF s
    <3>4. /\ call'[c] \in Call /\ call'[c].step = s /\ call'[c].old = d
          /\ call'[c].new = call[c].new /\ call'[c].kind = call[c].kind
          /\ call'[c].content = call[c].content
      BY <3>1, <3>2, <3>3 DEF Call
    <3>5. Present(d)
      BY <2>2, <3>1 DEF Present, TypeInv, TypeOK
    <3>6. Carries(call[c])'
      BY <1>1, <3>1, <3>3, <3>4 DEF Carries
    <3>7. call' \in [Clients -> Call] /\ \A e \in Clients : e # c => call'[e] = call[e]
      BY <2>2, <3>1, <3>4
    <3>8. Moved(c)
      BY <1>1, <3>1, <3>3, <3>4, <3>7 DEF Moved, Early, Open
    <3>9. Finds(c)
      BY <3>1, <3>2, <3>3, <3>5 DEF Finds
    <3>10. QED
      BY <3>6, <3>8, <3>9 DEF Moving
  <2>3. QED
    BY <1>1, <1>4, <2>1, <2>2 DEF Lookup
<1>5. CASE CountChunks(c)
  <2>1. /\ call[c].old \in Docs \cup {None} /\ call[c].seen \in Statuses
        /\ call[c].kind = "upload" /\ "ok" \in Codes /\ call[c].step = "count"
    BY <1>5 DEF Call, Codes, CountChunks
  <2>2. QED
    BY <1>1, <1>5, <2>1, ReplyMoves DEF CountChunks
<1>6. CASE GetDocument(c)
  <2>1. CASE Present(call[c].old)
    BY <1>1, <1>6, <2>1, GotoMoves
       DEF GetDocument, Reason, Steps
  <2>2. CASE ~Present(call[c].old)
    BY <1>1, <1>2, <1>6, <2>2, Refused DEF GetDocument
  <2>3. QED
    BY <2>1, <2>2
<1>7. CASE Reserve(c)
  <2>1. CASE \E code \in {"too_many", "bad_request"} : Refuse(c, code)
    BY <1>1, <1>2, <1>7, <2>1, Refused DEF Reserve
  <2>2. CASE Goto(c, "store")
    BY <1>1, <1>7, <2>2, GotoMoves DEF Reserve, Reason, Steps
  <2>3. QED
    BY <1>7, <2>1, <2>2 DEF Reserve
<1>8. CASE Embed(c)
  <2>1. ASSUME NEW s \in {"chunks", "fail"}, Goto(c, s)
        PROVE  Moving(c)
    BY <1>1, <1>8, <2>1, GotoMoves DEF Embed, Reason, Steps
  <2>2. Goto(c, "chunks") \/ Goto(c, "fail")
    BY <1>8 DEF Embed
  <2>3. QED
    BY <1>1, <2>1, <2>2
<1>9. CASE Record(c)
  BY <1>1, <1>9, Accepted DEF Record
<1>10. QED
  BY <1>1, <1>3, <1>4, <1>5, <1>6, <1>7, <1>8, <1>9

(* The steps that write.                                                   *)
LEMMA WriteMoves ==
  ASSUME TypeInv, NEW c \in Clients,
         \/ Drop(c) \/ Unlink(c) \/ Store(c) \/ Create(c) \/ Undo(c)
         \/ CreateChunks(c) \/ Complete(c) \/ Fail(c)
  PROVE  /\ Moving(c) /\ UNCHANGED <<used, orphans, faults>>
         /\ Effect(call[c]) \/ UNCHANGED tableVars
<1>1. UNCHANGED <<used, orphans, faults>>
  BY DEF Drop, Unlink, Store, Create, Undo, CreateChunks, Complete, Fail, NoFault
<1>2. Effect(call[c]) \/ UNCHANGED tableVars
  BY DEF Drop, Unlink, Store, Create, Undo, CreateChunks, Complete, Fail
<1>3. {"error", "not_found"} \subseteq Codes
  BY DEF Codes
<1>4. CASE Drop(c)
  <2>1. call[c].step = "drop" /\ DropRow(call[c])
    BY <1>4 DEF Drop, Effect
  <2>2. CASE Goto(c, "unlink")
    BY <1>1, <1>2, <2>1, <2>2, GotoMoves DEF Reason, Steps
  <2>3. CASE Refuse(c, "not_found")
    BY <1>1, <1>2, <1>3, <2>1, <2>3, Refused
  <2>4. QED
    BY <1>4, <2>2, <2>3 DEF Drop
<1>5. CASE Unlink(c)
  BY <1>1, <1>2, <1>5, AfterUnlinkMoves DEF Unlink
<1>6. CASE Store(c)
  <2>1. call[c].step = "store" /\ StoreObject(call[c]) /\ Goto(c, "create")
    BY <1>6 DEF Store, Effect
  <2>2. QED
    BY <1>1, <1>2, <2>1, GotoMoves DEF Reason, Steps
<1>7. CASE Create(c)
  <2>1. CASE Effect(call[c]) /\ Goto(c, "embed")
    <3>1. call[c].step = "create" /\ InsertRow(call[c])
      BY <1>7, <2>1 DEF Create, Effect
    <3>2. QED
      BY <1>1, <1>2, <2>1, <3>1, GotoMoves DEF Reason, Steps
  <2>2. CASE Goto(c, "undo")
    BY <1>1, <1>2, <1>7, <2>2, GotoMoves DEF Create, Reason, Steps
  <2>3. QED
    BY <1>7, <2>1, <2>2 DEF Create, Compensate
<1>8. CASE Undo(c)
  BY <1>1, <1>2, <1>3, <1>8, Refused DEF Undo
<1>9. CASE CreateChunks(c)
  <2>1. CASE Effect(call[c]) /\ Goto(c, "complete")
    <3>1. call[c].step = "chunks" /\ InsertChunks(call[c])
      BY <1>9, <2>1 DEF CreateChunks, Effect
    <3>2. QED
      BY <1>1, <1>2, <2>1, <3>1, GotoMoves DEF Reason, Steps
  <2>2. CASE Goto(c, "fail")
    BY <1>1, <1>2, <1>9, <2>2, GotoMoves DEF CreateChunks, Reason, Steps
  <2>3. QED
    BY <1>9, <2>1, <2>2 DEF CreateChunks
<1>10. CASE Complete(c)
  <2>1. call[c].step = "complete" /\ SetStatus(call[c], "completed")
    BY <1>10 DEF Complete, Effect
  <2>2. ASSUME NEW s \in {"record", "fail"}, Goto(c, s)
        PROVE  Moving(c)
    BY <1>1, <2>1, <2>2, GotoMoves DEF Reason, Steps
  <2>3. Goto(c, "record") \/ Goto(c, "fail")
    BY <1>10 DEF Complete
  <2>4. QED
    BY <1>1, <1>2, <2>2, <2>3
<1>11. CASE Fail(c)
  <2>1. ASSUME NEW code \in {"error", "not_found"}, Refuse(c, code)
        PROVE  Moving(c)
    BY <1>1, <1>3, <1>11, <2>1, Refused DEF Fail
  <2>2. Refuse(c, "error") \/ Refuse(c, "not_found")
    BY <1>11 DEF Fail
  <2>3. QED
    BY <1>1, <1>2, <2>1, <2>2
<1>12. QED
  BY <1>4, <1>5, <1>6, <1>7, <1>8, <1>9, <1>10, <1>11

(* The call of a request is left to commit on its own, or not.             *)
Leaves(c) ==
  /\ UNCHANGED tableVars
  /\ \/ UNCHANGED orphans
     \/ \E i \in 1 .. MaxFaults : orphans' = [orphans EXCEPT ![i] = call[c]]

(* All the steps of a request.                                             *)
LEMMA StepMoves ==
  ASSUME TypeInv, NEW c \in Clients, Step(c)
  PROVE  /\ Moving(c)
         /\ (Effect(call[c]) /\ UNCHANGED orphans) \/ Leaves(c)
         /\ faults' \in 0 .. MaxFaults
<1>1. faults \in 0 .. MaxFaults /\ MaxFaults \in Nat
  BY IngestionAssumption DEF TypeInv, TypeOK
<1>2. CASE \/ Drop(c) \/ Unlink(c) \/ Store(c) \/ Create(c) \/ Undo(c)
           \/ CreateChunks(c) \/ Complete(c) \/ Fail(c)
  BY <1>1, <1>2, WriteMoves DEF Leaves
<1>3. CASE \/ CheckAccess(c) \/ Lookup(c) \/ CountChunks(c) \/ GetDocument(c)
           \/ Reserve(c) \/ Embed(c) \/ Record(c)
  BY <1>1, <1>3, ReadMoves DEF Leaves
<1>4. ASSUME Fault
      PROVE  faults' \in 0 .. MaxFaults /\ faults' \in 1 .. MaxFaults
  BY <1>1, <1>4 DEF Fault
<1>5. CASE CallFails(c)
  BY <1>4, <1>5, HandleMoves DEF CallFails, Leaves
<1>6. CASE CallTimesOut(c)
  BY <1>4, <1>6, HandleMoves DEF CallTimesOut, Leaves, Abandon
<1>7. CASE Crash(c)
  BY <1>4, <1>7, Refused DEF Crash, Leaves, Abandon, Codes
<1>8. QED
  BY <1>2, <1>3, <1>5, <1>6, <1>7 DEF Step, Serve

(* The tables and the bucket stay typed.                                   *)
TablesOK ==
  /\ notebook \in BOOLEAN
  /\ row \in [Docs -> Statuses]
  /\ content \in [Docs -> Contents \cup {None}]
  /\ \A d \in Docs : content[d] = None <=> row[d] = "absent"
  /\ chunked \subseteq {d \in Docs : row[d] # "absent"}
  /\ objects \subseteq used
  /\ used \subseteq Docs

LEMMA EffectTyped ==
  ASSUME TypeInv, NEW k \in Call, Carries(k), Effect(k), UNCHANGED used
  PROVE  TablesOK'
<1>1. TablesOK
  BY DEF TypeInv, TypeOK, TablesOK
<1>2. CASE k.step = "drop" /\ DropRow(k)
  BY <1>1, <1>2 DEF DropRow, DeleteRows, TablesOK, Statuses
<1>3. CASE \E d \in Docs \cup {None} : RemoveObject(d)
  BY <1>1, <1>3 DEF RemoveObject, TablesOK
<1>4. k.step \in {"store", "create", "chunks", "complete", "fail", "undo"} =>
        k.new \in used /\ k.content \in Contents
  BY DEF Carries, Call
<1>5. CASE k.step = "store" /\ StoreObject(k)
  BY <1>1, <1>4, <1>5 DEF StoreObject, TablesOK
<1>6. CASE k.step = "create" /\ InsertRow(k)
  BY <1>1, <1>4, <1>6, IngestionAssumption DEF InsertRow, TablesOK, Statuses
<1>7. CASE k.step = "chunks" /\ InsertChunks(k)
  BY <1>1, <1>4, <1>7 DEF InsertChunks, TablesOK, Present
<1>8. ASSUME NEW s \in {"completed", "failed"}, SetStatus(k, s), k.new \in used
      PROVE  TablesOK'
  BY <1>1, <1>8 DEF SetStatus, TablesOK, Present, Statuses
<1>9. k.old \in Docs \cup {None} /\ k.new \in Docs \cup {None}
  BY DEF Call
<1>10. QED
  BY <1>2, <1>3, <1>4, <1>5, <1>6, <1>7, <1>8, <1>9 DEF Effect

(* A step of the module, sorted by what it does to the requests.           *)
LEMMA NextCases ==
  ASSUME [Next]_vars
  PROVE  \/ \E c \in Clients : Arrive(c) \/ Step(c)
         \/ \E i \in 1 .. MaxFaults : OrphanCommits(i) \/ OrphanVanishes(i)
         \/ DeleteNotebook
         \/ UNCHANGED vars
BY DEF Next, Step

(* The client asks for an upload or a deletion.                            *)
LEMMA ArriveFacts ==
  ASSUME TypeInv, NEW c \in Clients, Arrive(c)
  PROVE  /\ call' \in [Clients -> Call] /\ Carries(call[c])'
         /\ call[c].step = "idle" /\ call'[c].step = "access"
         /\ used \subseteq used' /\ used' \subseteq Docs
         /\ call'[c].new \in {None} \cup (Docs \ used)
         /\ resp' \in [Clients -> Response] /\ resp'[c] = NoResponse
         /\ \A e \in Clients : e # c => call'[e] = call[e] /\ resp'[e] = resp[e]
         /\ UNCHANGED <<tableVars, accepted, orphans, faults>>
<1>1. call \in [Clients -> Call] /\ resp \in [Clients -> Response] /\ used \subseteq Docs
  BY DEF TypeInv, TypeOK
<1>2. resp' \in [Clients -> Response] /\ resp'[c] = NoResponse
      /\ \A e \in Clients : e # c => resp'[e] = resp[e]
  BY <1>1, InitialRecords DEF Arrive
<1>3. CASE \E x \in Contents, d \in Docs \ used :
             /\ call' = [call EXCEPT ![c] = [IdleCall EXCEPT !.step = "access",
                                                !.content = x, !.new = d]]
             /\ used' = used \cup {d}
  <2>1. PICK x \in Contents, d \in Docs \ used :
             /\ call' = [call EXCEPT ![c] = [IdleCall EXCEPT !.step = "access",
                                                !.content = x, !.new = d]]
             /\ used' = used \cup {d}
    BY <1>3
  <2> DEFINE m == [IdleCall EXCEPT !.step = "access", !.content = x, !.new = d]
  <2>2. /\ m \in Call /\ m.step = "access" /\ m.content = x /\ m.new = d
        /\ m.kind = "upload"
    BY <2>1 DEF IdleCall, Call, Steps, Statuses
  <2> HIDE DEF m
  <2>3. call'[c] = m /\ call' \in [Clients -> Call]
        /\ \A e \in Clients : e # c => call'[e] = call[e]
    BY <1>1, <2>1, <2>2 DEF m
  <2>4. QED
    BY <1>1, <1>2, <2>1, <2>2, <2>3 DEF Arrive, Carries
<1>4. CASE \E d \in Docs :
             /\ call' = [call EXCEPT ![c] = [IdleCall EXCEPT !.kind = "delete",
                                                !.step = "access", !.old = d]]
             /\ UNCHANGED used
  <2>1. PICK d \in Docs :
             /\ call' = [call EXCEPT ![c] = [IdleCall EXCEPT !.kind = "delete",
                                                !.step = "access", !.old = d]]
             /\ UNCHANGED used
    BY <1>4
  <2> DEFINE m == [IdleCall EXCEPT !.kind = "delete", !.step = "access", !.old = d]
  <2>2. /\ m \in Call /\ m.step = "access" /\ m.old = d /\ m.new = None
        /\ m.kind = "delete"
    BY <2>1 DEF IdleCall, Call, Steps, Statuses
  <2> HIDE DEF m
  <2>3. call'[c] = m /\ call' \in [Clients -> Call]
        /\ \A e \in Clients : e # c => call'[e] = call[e]
    BY <1>1, <2>1, <2>2 DEF m
  <2>4. QED
    BY <1>1, <1>2, <2>1, <2>2, <2>3 DEF Arrive, Carries
<1>5. QED
  BY <1>3, <1>4 DEF Arrive

(* Every step keeps the types.                                             *)
LEMMA TypeStep ==
  ASSUME TypeInv, [Next]_vars
  PROVE  TypeInv'
<1>1. /\ call \in [Clients -> Call] /\ resp \in [Clients -> Response]
      /\ orphans \in [1 .. MaxFaults -> Call]
      /\ accepted \subseteq used /\ faults \in 0 .. MaxFaults
      /\ TablesOK
      /\ \A c \in Clients : Carries(call[c])
      /\ \A i \in 1 .. MaxFaults : Carries(orphans[i])
  BY DEF TypeInv, TypeOK, TablesOK
<1>2. ASSUME used \subseteq used', NEW k, Carries(k)
      PROVE  Carries(k)'
  BY <1>2 DEF Carries
<1>4. ASSUME NEW c \in Clients, Arrive(c)
      PROVE  TypeInv'
  <2>1. TablesOK'
    BY <1>1, <1>4, ArriveFacts DEF TablesOK, tableVars
  <2>2. \A e \in Clients : Carries(call[e])'
    <3> TAKE e \in Clients
    <3>1. CASE e = c
      BY <1>4, <3>1, ArriveFacts
    <3>2. CASE e # c
      BY <1>1, <1>2, <1>4, <3>2, ArriveFacts
    <3>3. QED
      BY <3>1, <3>2
  <2>3. \A i \in 1 .. MaxFaults : Carries(orphans[i])'
    BY <1>1, <1>2, <1>4, ArriveFacts
  <2>4. QED
    BY <1>1, <1>4, <2>1, <2>2, <2>3, ArriveFacts DEF TypeInv, TypeOK, TablesOK
<1>5. ASSUME NEW c \in Clients, Step(c)
      PROVE  TypeInv'
  <2>1. /\ Moved(c) /\ Carries(call[c])' /\ faults' \in 0 .. MaxFaults
        /\ (Effect(call[c]) /\ UNCHANGED orphans) \/ Leaves(c)
    BY <1>5, StepMoves DEF Moving
  <2>2. used' = used
    BY <2>1 DEF Moved
  <2>3. TablesOK'
    <3>1. CASE Effect(call[c])
      BY <1>1, <2>2, <3>1, EffectTyped
    <3>2. CASE UNCHANGED tableVars
      BY <1>1, <2>2, <3>2 DEF tableVars, TablesOK
    <3>3. QED
      BY <2>1, <3>1, <3>2 DEF Leaves
  <2>4. \A e \in Clients : Carries(call[e])'
    <3> TAKE e \in Clients
    <3>1. CASE e = c
      BY <2>1, <3>1
    <3>2. CASE e # c
      BY <1>1, <1>2, <2>1, <2>2, <3>2 DEF Moved
    <3>3. QED
      BY <3>1, <3>2
  <2>5. orphans' \in [1 .. MaxFaults -> Call] /\ \A i \in 1 .. MaxFaults : Carries(orphans[i])'
    <3>1. CASE UNCHANGED orphans
      BY <1>1, <1>2, <2>2, <3>1
    <3>2. ASSUME NEW i \in 1 .. MaxFaults, orphans' = [orphans EXCEPT ![i] = call[c]]
          PROVE  orphans' \in [1 .. MaxFaults -> Call]
                 /\ \A j \in 1 .. MaxFaults : Carries(orphans[j])'
      BY <1>1, <1>2, <2>2, <3>2
    <3>3. QED
      BY <2>1, <3>1, <3>2 DEF Leaves
  <2>6. accepted' \subseteq used'
    BY <1>1, <2>1 DEF Moved
  <2>7. QED
    BY <2>1, <2>3, <2>4, <2>5, <2>6 DEF TypeInv, TypeOK, TablesOK, Moved
<1>6. ASSUME NEW i \in 1 .. MaxFaults, OrphanCommits(i) \/ OrphanVanishes(i)
      PROVE  TypeInv'
  <2>1. /\ orphans' = [orphans EXCEPT ![i] = IdleCall]
        /\ UNCHANGED <<used, accepted, call, resp, faults>>
    BY <1>6 DEF OrphanCommits, OrphanVanishes
  <2>2. TablesOK'
    <3>1. CASE Effect(orphans[i])
      BY <1>1, <2>1, <3>1, EffectTyped
    <3>2. CASE UNCHANGED tableVars
      BY <1>1, <2>1, <3>2 DEF tableVars, TablesOK
    <3>3. QED
      BY <1>6, <3>1, <3>2 DEF OrphanCommits, OrphanVanishes
  <2>3. Carries(IdleCall)'
    BY InitialRecords DEF Carries
  <2>4. \A j \in 1 .. MaxFaults : Carries(orphans[j])'
    <3> TAKE j \in 1 .. MaxFaults
    <3>1. CASE j = i
      BY <1>1, <2>1, <2>3, <3>1
    <3>2. CASE j # i
      BY <1>1, <1>2, <2>1, <3>2
    <3>3. QED
      BY <3>1, <3>2
  <2>5. \A c \in Clients : Carries(call[c])'
    BY <1>1, <1>2, <2>1
  <2>6. QED
    BY <1>1, <2>1, <2>2, <2>4, <2>5, InitialRecords DEF TypeInv, TypeOK, TablesOK
<1>7. CASE DeleteNotebook
  <2>1. TablesOK' /\ UNCHANGED <<used, accepted, call, resp, orphans, faults>>
    BY <1>1, <1>7 DEF DeleteNotebook, DeleteRows, TablesOK, Statuses
  <2>2. /\ \A c \in Clients : Carries(call[c])'
        /\ \A i \in 1 .. MaxFaults : Carries(orphans[i])'
    BY <1>1, <1>2, <2>1
  <2>3. QED
    BY <1>1, <2>1, <2>2 DEF TypeInv, TypeOK, TablesOK
<1>8. CASE UNCHANGED vars
  <2>1. UNCHANGED <<notebook, row, content, chunked, objects, used, accepted,
                    call, resp, orphans, faults>>
    BY <1>8 DEF vars, tableVars
  <2>2. /\ \A c \in Clients : Carries(call[c])'
        /\ \A i \in 1 .. MaxFaults : Carries(orphans[i])'
    BY <1>1, <1>2, <2>1
  <2>3. QED
    BY <1>1, <2>1, <2>2 DEF TypeInv, TypeOK, TablesOK
<1>9. QED
  BY <1>4, <1>5, <1>6, <1>7, <1>8, NextCases

-----------------------------------------------------------------------------
(* What stays true of a document.                                          *)

(* New calls on document d come from the request that generated it.        *)
LEMMA SettledStays ==
  ASSUME TypeInv, [Next]_vars, NEW d \in Docs
  PROVE  /\ Settled(d) => Settled(d)'
         /\ Lost(d) => Lost(d)'
<1>1. /\ orphans \in [1 .. MaxFaults -> Call] /\ call \in [Clients -> Call]
      /\ None \notin Docs
  BY IngestionAssumption DEF TypeInv, TypeOK
<1>2. ASSUME NEW c \in Clients, Arrive(c)
      PROVE  (Settled(d) => Settled(d)') /\ (Lost(d) => Lost(d)')
  <2>1. /\ UNCHANGED <<orphans, accepted>> /\ used \subseteq used'
        /\ d \in used => call'[c].new # d
        /\ \A e \in Clients : e # c => call'[e] = call[e]
    BY <1>1, <1>2, ArriveFacts
  <2>2. QED
    BY <2>1 DEF Settled, Lost, MayInsert, MayWin
<1>3. ASSUME NEW c \in Clients, Step(c)
      PROVE  (Settled(d) => Settled(d)') /\ (Lost(d) => Lost(d)')
  <2>1. Moved(c) /\ (UNCHANGED orphans \/ Leaves(c))
    BY <1>3, StepMoves DEF Moving
  <2>2. \A e \in Clients : call'[e].new = d =>
          /\ call'[e].step \in Early => call[e].new = d /\ call[e].step \in Early
          /\ call'[e].step \in Open => call[e].new = d /\ call[e].step \in Open
    <3> TAKE e \in Clients
    <3>1. CASE e = c
      BY <1>1, <2>1, <3>1 DEF Moved
    <3>2. CASE e # c
      BY <2>1, <3>2 DEF Moved
    <3>3. QED
      BY <3>1, <3>2
  <2>3. \A i \in 1 .. MaxFaults :
          orphans'[i].new = d /\ orphans'[i].step = "create" =>
            MayInsert(d)
    BY <1>1, <2>1 DEF Leaves, MayInsert, Early
  <2>4. used' = used /\ (d \in accepted' => d \in accepted \/ MayWin(d))
    BY <2>1 DEF Moved, MayWin, Open
  <2>5. Settled(d) => Settled(d)'
    BY <2>2, <2>3, <2>4 DEF Settled, MayInsert
  <2>6. Lost(d) => Lost(d)'
    BY <2>2, <2>4 DEF Lost, MayWin
  <2>7. QED
    BY <2>5, <2>6
<1>4. ASSUME NEW i \in 1 .. MaxFaults, OrphanCommits(i) \/ OrphanVanishes(i)
      PROVE  (Settled(d) => Settled(d)') /\ (Lost(d) => Lost(d)')
  <2>1. /\ orphans' = [orphans EXCEPT ![i] = IdleCall]
        /\ UNCHANGED <<used, accepted, call>>
    BY <1>4 DEF OrphanCommits, OrphanVanishes
  <2>2. QED
    BY <1>1, <2>1, InitialRecords DEF Settled, Lost, MayInsert, MayWin
<1>5. CASE DeleteNotebook \/ UNCHANGED vars
  <2>1. UNCHANGED <<used, accepted, call, orphans>>
    BY <1>5 DEF DeleteNotebook, vars
  <2>2. QED
    BY <2>1 DEF Settled, Lost, MayInsert, MayWin
<1>6. QED
  BY <1>2, <1>3, <1>4, <1>5, NextCases

(* Calls whose effect may come with a step.                                *)
InService == {call[c] : c \in Clients} \cup {orphans[i] : i \in 1 .. MaxFaults}

LEMMA Effects ==
  ASSUME TypeInv, [Next]_vars
  PROVE  \/ UNCHANGED tableVars
         \/ \E k \in InService : Effect(k)
         \/ /\ ~notebook' /\ row' = [d \in Docs |-> "absent"]
            /\ chunked' = chunked \ Docs /\ objects' = objects
<1>1. CASE \E c \in Clients : Arrive(c)
  BY <1>1 DEF Arrive
<1>2. CASE \E c \in Clients : Step(c)
  BY <1>2, StepMoves DEF Leaves, InService
<1>3. CASE \E i \in 1 .. MaxFaults : OrphanCommits(i) \/ OrphanVanishes(i)
  BY <1>3 DEF OrphanCommits, OrphanVanishes, InService
<1>4. CASE DeleteNotebook
  BY <1>4 DEF DeleteNotebook, DeleteRows, TypeInv, TypeOK
<1>5. CASE UNCHANGED vars
  BY <1>5 DEF vars
<1>6. QED
  BY <1>1, <1>2, <1>3, <1>4, <1>5, NextCases

(* The invariant gives every call in service what it was promised.         *)
LEMMA ServiceFacts ==
  ASSUME IInv, NEW k \in InService
  PROVE  /\ k \in Call /\ Carries(k) /\ Promised(k)
         /\ k.step = "create" => MayInsert(k.new)
         /\ k.step \in {"store", "create", "undo", "chunks", "complete", "fail"} =>
              k.kind = "upload" /\ k.new \in used
BY DEF IInv, InService, TypeInv, TypeOK, MayInsert, Early, Carries, Call

(* A document that has gone does not come back.                            *)
LEMMA GoneStays ==
  ASSUME IInv, [Next]_vars, NEW d \in Docs, Gone(d)
  PROVE  Gone(d)'
<1>1. TypeInv /\ row \in [Docs -> Statuses] /\ Settled(d) /\ row[d] = "absent"
  BY DEF IInv, TypeInv, TypeOK, Gone, Present
<1>2. row'[d] = "absent"
  <2>1. CASE UNCHANGED tableVars
    BY <1>1, <2>1 DEF tableVars
  <2>2. ASSUME NEW k \in InService, Effect(k)
        PROVE  row'[d] = "absent"
    <3>1. k.step = "create" => k.new # d
      BY <1>1, ServiceFacts DEF Settled
    <3>2. QED
      BY <1>1, <2>2, <3>1
         DEF Effect, DropRow, DeleteRows, RemoveObject, StoreObject, InsertRow,
             InsertChunks, SetStatus, Present
  <2>3. QED
    BY <1>1, <2>1, <2>2, Effects
<1>3. Settled(d)'
  BY <1>1, SettledStays
<1>4. QED
  BY <1>2, <1>3 DEF Gone, Present

(* Nothing in service removes the object of a document whose upload may    *)
(* still be accepted.                                                      *)
LEMMA WinnersKeepObjects ==
  ASSUME IInv, NEW d \in Docs, MayWin(d), NEW k \in InService
  PROVE  ~(k.step \in {"undo", "fail"} /\ k.new = d)
BY ServiceFacts DEF Promised, Lost

(* A document stays what search needs of it, or goes.                      *)
LEMMA WholeStays ==
  ASSUME IInv, [Next]_vars, NEW d \in Docs, Settled(d),
         \A k \in InService : ~(k.step = "undo" /\ k.new = d)
  PROVE  /\ d \in objects => Gone(d)' \/ d \in objects'
         /\ d \in chunked => Gone(d)' \/ d \in chunked'
<1>1. TypeInv /\ Settled(d)' /\ (Gone(d) => Gone(d)')
  BY SettledStays, GoneStays DEF IInv
<1>2. CASE UNCHANGED tableVars
  BY <1>2 DEF tableVars
<1>3. ASSUME NEW k \in InService, Effect(k)
      PROVE  /\ d \in objects => Gone(d)' \/ d \in objects'
             /\ d \in chunked => Gone(d)' \/ d \in chunked'
  <2>1. k.step = "unlink" => Gone(k.old)
    BY ServiceFacts DEF Promised
  <2>2. k.step = "drop" /\ k.old = d => row'[d] = "absent"
    BY <1>3 DEF Effect, DropRow, DeleteRows
  <2>3. k.step = "drop" /\ k.old = d => Gone(d)'
    BY <1>1, <2>2 DEF Gone, Present
  <2>4. QED
    BY <1>1, <1>3, <2>1, <2>3
       DEF Effect, DropRow, DeleteRows, RemoveObject, StoreObject, InsertRow,
           InsertChunks, SetStatus
<1>4. CASE row' = [e \in Docs |-> "absent"] /\ objects' = objects
  BY <1>1, <1>4 DEF Gone, Present
<1>5. QED
  BY <1>1, <1>2, <1>3, <1>4, Effects

(* A status changes only by a call of the upload of its document.          *)
LEMMA EffectOnStatus ==
  ASSUME TypeInv, NEW k, Effect(k), NEW d \in Docs, row'[d] # row[d],
         row'[d] # "absent"
  PROVE  /\ k.new = d
         /\ \/ k.step = "create" /\ row'[d] = "processing"
            \/ k.step = "complete" /\ row'[d] = "completed" /\ Present(d)
                 /\ UNCHANGED <<chunked, objects>>
            \/ k.step = "fail" /\ row'[d] = "failed" /\ Present(d)
<1>1. row \in [Docs -> Statuses]
  BY DEF TypeInv, TypeOK
<1>2. CASE k.step = "drop" /\ DropRow(k)
  BY <1>1, <1>2 DEF DropRow, DeleteRows
<1>3. CASE k.step = "create" /\ InsertRow(k)
  BY <1>1, <1>3 DEF InsertRow
<1>4. CASE k.step = "complete" /\ SetStatus(k, "completed")
  BY <1>1, <1>4 DEF SetStatus
<1>5. CASE k.step = "fail" /\ SetStatus(k, "failed")
  BY <1>1, <1>5 DEF SetStatus
<1>6. QED
  BY <1>2, <1>3, <1>4, <1>5
     DEF Effect, RemoveObject, StoreObject, InsertChunks

(* ... in every step.                                                      *)
LEMMA StatusChanges ==
  ASSUME IInv, [Next]_vars, NEW d \in Docs, row'[d] # row[d]
  PROVE  \/ row'[d] = "absent"
         \/ \E k \in InService :
              /\ k.new = d /\ Effect(k)
              /\ \/ k.step = "create" /\ row'[d] = "processing"
                 \/ k.step = "complete" /\ row'[d] = "completed" /\ Present(d)
                      /\ UNCHANGED <<chunked, objects>>
                 \/ k.step = "fail" /\ row'[d] = "failed" /\ Present(d)
<1>1. TypeInv /\ row \in [Docs -> Statuses]
  BY DEF IInv, TypeInv, TypeOK
<1>2. ~UNCHANGED tableVars
  BY DEF tableVars
<1>3. QED
  BY <1>1, <1>2, Effects, EffectOnStatus

(* What a call in service has been promised is kept.                       *)
LEMMA PromiseKept ==
  ASSUME IInv, [Next]_vars, NEW k \in InService
  PROVE  Promised(k)'
<1>1. /\ k \in Call /\ Carries(k) /\ Promised(k) /\ TypeInv /\ used \subseteq Docs
      /\ row \in [Docs -> Statuses]
  BY ServiceFacts DEF IInv, TypeInv, TypeOK
<1>2. ASSUME k.step \in {"count", "drop", "unlink"}
      PROVE  /\ Settled(k.old)'
             /\ k.step = "unlink" => Gone(k.old)'
             /\ k.step = "drop" /\ k.kind = "upload" => Lost(k.old)'
  BY <1>1, <1>2, SettledStays, GoneStays DEF Carries, Promised
<1>3. ASSUME NEW j \in InService, j.step = "undo", k.step = "complete", j.new = k.new
      PROVE  FALSE
  <2>1. Lost(k.new) /\ \A i \in 1 .. MaxFaults :
          ~(orphans[i].new = k.new /\ orphans[i].step = "complete")
    BY <1>3, ServiceFacts DEF Promised
  <2>2. QED
    BY <1>3, <2>1 DEF InService, Lost, MayWin, Open
<1>4. ASSUME k.step = "complete"
      PROVE  /\ Settled(k.new)'
             /\ Gone(k.new)' \/ (k.new \in chunked' /\ k.new \in objects')
  <2>1. k.new \in Docs /\ Settled(k.new)
    BY <1>1, <1>4 DEF Promised, Settled
  <2>2. CASE Gone(k.new)
    BY <1>1, <2>1, <2>2, SettledStays, GoneStays
  <2>3. CASE k.new \in chunked /\ k.new \in objects
    BY <1>1, <1>3, <1>4, <2>1, <2>3, SettledStays, WholeStays
  <2>4. QED
    BY <1>1, <1>4, <2>2, <2>3 DEF Promised
<1>5. ASSUME k.step = "undo"
      PROVE  /\ Lost(k.new)' /\ row'[k.new] # "completed"
             /\ \A i \in 1 .. MaxFaults :
                  ~(orphans[i].new = k.new /\ orphans[i].step = "complete")'
  <2>1. /\ Lost(k.new) /\ row[k.new] # "completed" /\ k.new \in Docs
        /\ \A i \in 1 .. MaxFaults :
             ~(orphans[i].new = k.new /\ orphans[i].step = "complete")
    BY <1>1, <1>5 DEF Promised, Lost
  <2>2. \A c \in Clients : ~(call[c].new = k.new /\ call[c].step = "complete")
    BY <2>1 DEF Lost, MayWin, Open
  <2>3. row'[k.new] # "completed"
    <3>1. \A j \in InService : ~(j.new = k.new /\ j.step = "complete")
      BY <2>1, <2>2 DEF InService
    <3>2. QED
      BY <2>1, <3>1, StatusChanges
  <2>4. orphans \in [1 .. MaxFaults -> Call]
    BY <1>1 DEF TypeInv, TypeOK
  <2>5. \/ UNCHANGED orphans
        \/ \E i \in 1 .. MaxFaults, c \in Clients :
             orphans' = [orphans EXCEPT ![i] = call[c]]
        \/ \E i \in 1 .. MaxFaults : orphans' = [orphans EXCEPT ![i] = IdleCall]
    <3>1. ASSUME NEW c \in Clients, Step(c)
          PROVE  UNCHANGED orphans \/ \E i \in 1 .. MaxFaults :
                   orphans' = [orphans EXCEPT ![i] = call[c]]
      BY <1>1, <3>1, StepMoves DEF Leaves
    <3>2. QED
      BY <3>1, NextCases DEF Arrive, OrphanCommits, OrphanVanishes, DeleteNotebook, vars
  <2>6. \A i \in 1 .. MaxFaults :
          ~(orphans'[i].new = k.new /\ orphans'[i].step = "complete")
    BY <2>1, <2>2, <2>4, <2>5, InitialRecords
  <2>7. QED
    BY <1>1, <2>1, <2>3, <2>6, SettledStays
<1>6. k.step = "fail" => Lost(k.new)'
  BY <1>1, SettledStays DEF Promised, Lost
<1>7. QED
  BY <1>2, <1>4, <1>5, <1>6 DEF Promised

(* The upload of a document that is past the insertion has settled it, and *)
(* before it there is no row.                                              *)
LEMMA OwnersFacts ==
  ASSUME IInv, NEW c \in Clients, call[c].new \in Docs
  PROVE  /\ call[c].step \in Open => MayWin(call[c].new)
         /\ call[c].step \in Open \ Early => Settled(call[c].new)
         /\ call[c].step \in Early => ~Present(call[c].new)
         /\ call[c].new \in used
<1>1. call[c].step \in Open => MayWin(call[c].new)
  BY DEF MayWin
<1>2. call[c].new \in used
  BY IngestionAssumption DEF IInv, TypeInv, TypeOK, Carries, Call
<1>3. ASSUME call[c].step \in Open \ Early, MayInsert(call[c].new)
      PROVE  FALSE
  <2>1. ASSUME NEW e \in Clients, call[e].new = call[c].new, call[e].step \in Early
        PROVE  FALSE
    BY <1>3, <2>1, IngestionAssumption DEF IInv, OneOwner
  <2>2. ASSUME NEW i \in 1 .. MaxFaults, orphans[i].new = call[c].new,
               orphans[i].step = "create"
        PROVE  FALSE
    BY <1>1, <1>3, <2>2 DEF IInv, WinnersAreUnspoiled, Spoiling
  <2>3. QED
    BY <1>3, <2>1, <2>2 DEF MayInsert
<1>4. call[c].step \in Early => ~Present(call[c].new)
  BY DEF IInv, RowsAreSettled, Settled, MayInsert
<1>5. QED
  BY <1>1, <1>2, <1>3, <1>4 DEF Settled

(* What a request in service counts on stays true.                         *)
LEMMA ServingKept ==
  ASSUME IInv, [Next]_vars, NEW c \in Clients, NEW k, k = call[c]
  PROVE  Serving(k)'
<1>1. /\ Serving(k) /\ k \in InService /\ TypeInv /\ k \in Call /\ Carries(k)
  BY DEF IInv, InService, TypeInv, TypeOK
<1>2. CASE k.new \in Docs /\ k.step \in {"create", "embed", "chunks", "record"}
  <2>1. /\ MayWin(k.new) /\ (k.step # "create" => Settled(k.new))
        /\ k.step = "create" => MayInsert(k.new)
    BY <1>2, OwnersFacts DEF Open, Early, MayInsert
  <2>2. \A j \in InService : ~(j.step \in {"undo", "fail"} /\ j.new = k.new)
    BY <1>2, <2>1, WinnersKeepObjects
  <2>3. CASE k.step = "create"
    <3>1. ASSUME NEW j \in InService, Effect(j)
          PROVE  k.new \in objects'
      <4>1. j.step = "unlink" => j.old # k.new
        BY <2>1, <2>3, ServiceFacts DEF Promised, Gone, Settled
      <4>2. QED
        BY <1>1, <2>2, <2>3, <3>1, <4>1
           DEF Serving, Effect, DropRow, DeleteRows, RemoveObject, StoreObject,
               InsertRow, InsertChunks, SetStatus
    <3>2. k.new \in objects'
      BY <1>1, <2>3, <3>1, Effects DEF Serving, tableVars
    <3>3. QED
      BY <2>3, <3>2 DEF Serving
  <2>4. CASE k.step \in {"embed", "chunks"}
    <3>1. Settled(k.new)' /\ (Gone(k.new) => Gone(k.new)')
      BY <1>1, <1>2, <2>1, <2>4, SettledStays, GoneStays
    <3>2. k.new \in objects => Gone(k.new)' \/ k.new \in objects'
      BY <1>2, <2>1, <2>2, <2>4, WholeStays
    <3>3. QED
      BY <1>1, <2>4, <3>1, <3>2 DEF Serving
  <2>5. CASE k.step = "record"
    <3>1. \A j \in InService : j.step = "create" => j.new # k.new
      BY <2>1, <2>5, ServiceFacts DEF Settled
    <3>2. row[k.new] \in {"absent", "completed"}
      BY <1>1, <2>5 DEF Serving
    <3>3. row'[k.new] \in {"absent", "completed"}
      BY <1>2, <2>2, <3>1, <3>2, StatusChanges
    <3>4. QED
      BY <2>5, <3>3 DEF Serving
  <2>6. QED
    BY <1>2, <2>3, <2>4, <2>5
<1>3. CASE k.step \notin {"create", "embed", "chunks", "record"}
  BY <1>3 DEF Serving
<1>4. k.step \in {"create", "embed", "chunks", "record"} => k.new \in Docs
  BY <1>1 DEF Carries, Call, TypeInv, TypeOK
<1>5. QED
  BY <1>2, <1>3, <1>4

(* A request that gives its document up has lost it for good.              *)
LEMMA GivenUp ==
  ASSUME IInv, NEW c \in Clients, NEW d \in Docs, d = call[c].new, Moved(c),
         call[c].step # "record", call'[c].step \notin Open
  PROVE  Lost(d)'
<1>1. d \in used /\ accepted' = accepted /\ d \notin accepted /\ used' = used
  BY OwnersFacts DEF Moved, IInv, AcceptedHasNoOwner
<1>2. \A e \in Clients : ~(call'[e].new = d /\ call'[e].step \in Open)
  <2> TAKE e \in Clients
  <2>1. CASE e = c
    BY <2>1
  <2>2. CASE e # c
    BY <2>2, IngestionAssumption DEF Moved, IInv, OneOwner
  <2>3. QED
    BY <2>1, <2>2
<1>3. QED
  BY <1>1, <1>2 DEF Lost, MayWin

(* A row that has just been inserted is settled.                           *)
LEMMA InsertedIsSettled ==
  ASSUME IInv, NEW c \in Clients, NEW d \in Docs, d = call[c].new,
         call[c].step = "create", Moved(c), UNCHANGED orphans,
         call'[c].step \notin Early
  PROVE  Settled(d)'
<1>1. /\ MayWin(d) /\ d \in used /\ used' = used
      /\ \A i \in 1 .. MaxFaults : ~(orphans[i].new = d /\ orphans[i].step = "create")
  BY OwnersFacts DEF IInv, WinnersAreUnspoiled, Spoiling, Open, Early, Moved
<1>2. \A e \in Clients : ~(call'[e].new = d /\ call'[e].step \in Early)
  <2> TAKE e \in Clients
  <2>1. CASE e = c
    BY <2>1
  <2>2. CASE e # c
    BY <2>2, IngestionAssumption DEF Moved, IInv, OneOwner
  <2>3. QED
    BY <2>1, <2>2
<1>3. QED
  BY <1>1, <1>2 DEF Settled, MayInsert

(* A request that moves is promised what its next call needs.              *)
LEMMA MovedIsServed ==
  ASSUME IInv, [Next]_vars, NEW c \in Clients, Step(c)
  PROVE  Promised(call[c])' /\ Serving(call[c])'
<1> DEFINE k == call[c]
<1>1. /\ TypeInv /\ k \in Call /\ Carries(k) /\ k \in InService /\ Promised(k)
      /\ Serving(k) /\ row \in [Docs -> Statuses] /\ used \subseteq Docs
  BY DEF IInv, TypeInv, TypeOK, InService
<1>2. Moving(c) /\ ((Effect(k) /\ UNCHANGED orphans) \/ Leaves(c))
  BY <1>1, StepMoves
<1>3. CASE Ends(c)
  BY <1>3, InitialRecords DEF Ends, Promised, Serving
<1>4. CASE Finds(c)
  <2>1. PICK d \in Docs, s \in {"count", "drop"} :
          /\ Present(d)
          /\ s = "drop" => row[d] = "failed"
          /\ call'[c] = [k EXCEPT !.step = s, !.old = d, !.seen = row[d]]
    BY <1>4 DEF Finds
  <2>2. Settled(d)' /\ (s = "drop" => Lost(d)')
    BY <1>1, <2>1, SettledStays DEF IInv, RowsAreSettled
  <2>3. call'[c].step = s /\ call'[c].old = d
    BY <1>1, <2>1 DEF Call
  <2>4. QED
    BY <2>2, <2>3 DEF Promised, Serving
<1>5. CASE Passes(c)
  <2>1. PICK s \in Steps : Reason(c, s) /\ call'[c] = [k EXCEPT !.step = s]
    BY <1>5 DEF Passes
  <2>2. PICK d \in Docs \cup {None} : d = k.new
    BY <1>1 DEF Call
  <2>3. PICK o \in Docs \cup {None} : o = k.old
    BY <1>1 DEF Call
  <2>4. /\ call'[c].step = s /\ call'[c].new = d /\ call'[c].old = o
        /\ call'[c].kind = k.kind
    BY <1>1, <2>1, <2>2, <2>3 DEF Call
  <2>5. k.step \in {"store", "create", "embed", "chunks", "complete"} =>
          d \in Docs /\ d \in used /\ k.kind = "upload"
    BY <1>1, <2>2 DEF Carries, Call
  <2>6. Moved(c)
    BY <1>2 DEF Moving
  <2>7. CASE s \in {"lookup", "get", "reserve", "store", "idle", "access", "count"}
    BY <2>1, <2>4, <2>7 DEF Promised, Serving, Reason
  <2>8. CASE s = "drop"
    <3>1. k.step = "get" /\ Present(o) /\ k.kind = "delete" /\ o \in Docs
      BY <1>1, <2>1, <2>3, <2>8 DEF Reason, Carries, Call
    <3>2. Settled(o)'
      BY <1>1, <3>1, SettledStays DEF IInv, RowsAreSettled
    <3>3. QED
      BY <2>4, <2>8, <3>1, <3>2 DEF Promised, Serving
  <2>9. CASE s = "unlink"
    <3>1. k.step = "drop" /\ DropRow(k)
      BY <2>1, <2>9 DEF Reason
    <3>2. o \in Docs /\ Settled(o)
      BY <1>1, <2>3, <3>1 DEF Promised, Carries
    <3>3. row'[o] = "absent" /\ Settled(o)'
      BY <1>1, <2>3, <3>1, <3>2, SettledStays DEF DropRow, DeleteRows
    <3>4. Gone(o)'
      BY <3>3 DEF Gone, Present
    <3>5. QED
      BY <2>4, <2>9, <3>3, <3>4 DEF Promised, Serving
  <2>10. CASE s = "create"
    <3>1. k.step = "store" /\ StoreObject(k)
      BY <2>1, <2>10 DEF Reason
    <3>2. d \in objects'
      BY <2>2, <3>1 DEF StoreObject
    <3>3. QED
      BY <2>4, <2>10, <3>2 DEF Promised, Serving
  <2>11. CASE s = "undo"
    <3>1. k.step = "create"
      BY <2>1, <2>11 DEF Reason
    <3>2. Lost(d)'
      BY <2>2, <2>4, <2>5, <2>6, <2>11, <3>1, GivenUp DEF Open, Early
    <3>3. MayWin(d) /\ ~Present(d)
      BY <2>2, <2>5, <3>1, OwnersFacts DEF Open, Early
    <3>4. \A j \in InService : ~(j.step = "complete" /\ j.new = d)
      BY <2>2, <2>5, <3>1, <3>3, IngestionAssumption
         DEF InService, IInv, OneOwner, WinnersAreUnspoiled, Spoiling
    <3>5. row'[d] # "completed"
      BY <2>5, <3>1, <3>3, <3>4, StatusChanges DEF Present
    <3>6. \A i \in 1 .. MaxFaults :
            ~(orphans'[i].new = d /\ orphans'[i].step = "complete")
      <4>1. orphans \in [1 .. MaxFaults -> Call]
        BY <1>1 DEF TypeInv, TypeOK
      <4>2. QED
        BY <1>2, <3>1, <3>4, <4>1 DEF Leaves, InService
    <3>7. QED
      BY <2>4, <2>11, <3>2, <3>5, <3>6 DEF Promised, Serving
  <2>12. CASE s = "embed"
    <3>1. k.step = "create" /\ InsertRow(k) /\ UNCHANGED orphans
      BY <2>1, <2>12 DEF Reason
    <3>2. Settled(d)'
      BY <2>2, <2>4, <2>5, <2>6, <2>12, <3>1, InsertedIsSettled DEF Early
    <3>3. d \in objects'
      BY <1>1, <2>2, <3>1 DEF Serving, InsertRow
    <3>4. QED
      BY <2>4, <2>12, <3>2, <3>3 DEF Promised, Serving
  <2>13. CASE s = "chunks"
    <3>1. k.step = "embed"
      BY <2>1, <2>13 DEF Reason
    <3>2. PICK m : m = k
      OBVIOUS
    <3>3. Serving(m)'
      BY <3>2, ServingKept
    <3>4. QED
      BY <2>2, <2>4, <2>13, <3>1, <3>2, <3>3 DEF Promised, Serving
  <2>14. CASE s = "complete"
    <3>1. k.step = "chunks" /\ InsertChunks(k)
      BY <2>1, <2>14 DEF Reason
    <3>2. Settled(d) /\ d \in objects /\ d \in chunked' /\ d \in objects'
      BY <1>1, <2>2, <3>1 DEF Serving, InsertChunks, Gone
    <3>3. Settled(d)'
      BY <1>1, <2>5, <3>1, <3>2, SettledStays
    <3>4. QED
      BY <2>4, <2>14, <3>2, <3>3 DEF Promised, Serving
  <2>15. CASE s = "record"
    <3>1. k.step = "complete" /\ SetStatus(k, "completed")
      BY <2>1, <2>15 DEF Reason
    <3>2. row'[d] \in {"absent", "completed"}
      BY <1>1, <2>2, <2>5, <3>1 DEF SetStatus, Present
    <3>3. QED
      BY <2>4, <2>15, <3>2 DEF Promised, Serving
  <2>16. CASE s = "fail"
    <3>1. k.step \in {"embed", "chunks", "complete"}
      BY <2>1, <2>16 DEF Reason
    <3>2. Lost(d)'
      BY <2>2, <2>4, <2>5, <2>6, <2>16, <3>1, GivenUp DEF Open, Early
    <3>3. QED
      BY <2>4, <2>16, <3>2 DEF Promised, Serving
  <2>17. QED
    BY <2>1, <2>7, <2>8, <2>9, <2>10, <2>11, <2>12, <2>13, <2>14, <2>15, <2>16
       DEF Steps
<1>6. QED
  BY <1>2, <1>3, <1>4, <1>5 DEF Moving

(* All calls in service and abandoned keep their promises.                 *)
LEMMA ServiceStep ==
  ASSUME IInv, [Next]_vars
  PROVE  /\ \A c \in Clients : (Promised(call[c]) /\ Serving(call[c]))'
         /\ \A i \in 1 .. MaxFaults : Promised(orphans[i])'
<1>1. TypeInv /\ orphans \in [1 .. MaxFaults -> Call] /\ call \in [Clients -> Call]
  BY DEF IInv, TypeInv, TypeOK
<1>2. ASSUME NEW c \in Clients, call'[c] = call[c]
      PROVE  (Promised(call[c]) /\ Serving(call[c]))'
  <2>1. PICK k : k = call[c]
    OBVIOUS
  <2>2. k \in InService
    BY <2>1 DEF InService
  <2>3. Promised(k)' /\ Serving(k)'
    BY <2>1, <2>2, PromiseKept, ServingKept
  <2>4. QED
    BY <1>2, <2>1, <2>3
<1>3. ASSUME NEW i \in 1 .. MaxFaults,
             \/ orphans'[i] = orphans[i]
             \/ \E c \in Clients : orphans'[i] = call[c]
             \/ orphans'[i] = IdleCall
      PROVE  Promised(orphans[i])'
  <2>1. CASE orphans'[i] = IdleCall
    BY <2>1, InitialRecords DEF Promised
  <2>2. CASE orphans'[i] # IdleCall
    <3>1. PICK k : k = orphans'[i] /\ k \in InService
      BY <1>3, <2>2 DEF InService
    <3>2. Promised(k)'
      BY <3>1, PromiseKept
    <3>3. QED
      BY <3>1, <3>2
  <2>3. QED
    BY <2>1, <2>2
<1>4. ASSUME NEW c \in Clients, Arrive(c)
      PROVE  /\ \A e \in Clients : (Promised(call[e]) /\ Serving(call[e]))'
             /\ \A i \in 1 .. MaxFaults : Promised(orphans[i])'
  <2>1. (Promised(call[c]) /\ Serving(call[c]))'
    BY <1>1, <1>4, ArriveFacts DEF Promised, Serving
  <2>2. \A e \in Clients : e # c => call'[e] = call[e]
    BY <1>1, <1>4, ArriveFacts
  <2>3. \A e \in Clients : (Promised(call[e]) /\ Serving(call[e]))'
    BY <1>2, <2>1, <2>2
  <2>4. orphans' = orphans
    BY <1>4 DEF Arrive
  <2>5. QED
    BY <1>3, <2>3, <2>4
<1>5. ASSUME NEW c \in Clients, Step(c)
      PROVE  /\ \A e \in Clients : (Promised(call[e]) /\ Serving(call[e]))'
             /\ \A i \in 1 .. MaxFaults : Promised(orphans[i])'
  <2>1. Moved(c) /\ (UNCHANGED orphans \/ Leaves(c))
    BY <1>1, <1>5, StepMoves DEF Moving
  <2>2. \A e \in Clients : e # c => call'[e] = call[e]
    BY <2>1 DEF Moved
  <2>3. (Promised(call[c]) /\ Serving(call[c]))'
    BY <1>5, MovedIsServed
  <2>4. \A e \in Clients : (Promised(call[e]) /\ Serving(call[e]))'
    BY <1>2, <2>2, <2>3
  <2>5. \A i \in 1 .. MaxFaults :
          orphans'[i] = orphans[i] \/ \E e \in Clients : orphans'[i] = call[e]
    BY <1>1, <2>1 DEF Leaves
  <2>6. QED
    BY <1>3, <2>4, <2>5
<1>6. CASE \/ \E i \in 1 .. MaxFaults : OrphanCommits(i) \/ OrphanVanishes(i)
           \/ DeleteNotebook \/ UNCHANGED vars
  <2>1. call' = call /\ \A i \in 1 .. MaxFaults :
                          orphans'[i] = orphans[i] \/ orphans'[i] = IdleCall
    BY <1>1, <1>6 DEF OrphanCommits, OrphanVanishes, DeleteNotebook, vars
  <2>2. QED
    BY <1>2, <1>3, <2>1
<1>7. QED
  BY <1>4, <1>5, <1>6, NextCases

(* No two requests upload one document, and none one that is accepted.     *)
LEMMA OwnersStep ==
  ASSUME IInv, [Next]_vars
  PROVE  OneOwner' /\ AcceptedHasNoOwner'
<1>1. /\ TypeInv /\ OneOwner /\ AcceptedHasNoOwner /\ used \subseteq Docs
      /\ accepted \subseteq used /\ None \notin Docs
      /\ \A c \in Clients : call[c].new # None => call[c].new \in used
  BY IngestionAssumption DEF IInv, TypeInv, TypeOK, Carries, Call
<1>2. ASSUME NEW c \in Clients, Arrive(c)
      PROVE  OneOwner' /\ AcceptedHasNoOwner'
  <2>1. /\ call'[c].new \in {None} \cup (Docs \ used) /\ accepted' = accepted
        /\ \A e \in Clients : e # c => call'[e] = call[e]
    BY <1>1, <1>2, ArriveFacts
  <2>2. QED
    BY <1>1, <2>1 DEF OneOwner, AcceptedHasNoOwner
<1>3. ASSUME NEW c \in Clients, Step(c)
      PROVE  OneOwner' /\ AcceptedHasNoOwner'
  <2>1. Moved(c)
    BY <1>1, <1>3, StepMoves DEF Moving
  <2>2. QED
    BY <1>1, <2>1, InitialRecords DEF Moved, OneOwner, AcceptedHasNoOwner
<1>4. CASE UNCHANGED <<call, accepted>>
  BY <1>1, <1>4 DEF OneOwner, AcceptedHasNoOwner
<1>5. QED
  BY <1>2, <1>3, <1>4, NextCases
     DEF OrphanCommits, OrphanVanishes, DeleteNotebook, vars

(* Abandoned calls spoil no document that is still to be accepted.         *)
LEMMA SpoilingStep ==
  ASSUME IInv, [Next]_vars
  PROVE  WinnersAreUnspoiled' /\ InsertedOnce'
<1>1. /\ TypeInv /\ OneOwner /\ AcceptedHasNoOwner /\ WinnersAreUnspoiled
      /\ InsertedOnce /\ None \notin Docs
      /\ orphans \in [1 .. MaxFaults -> Call]
      /\ \A i \in 1 .. MaxFaults : orphans[i].new \in {None} \cup used
      /\ \A c \in Clients : call[c].new \in {None} \cup used
      /\ \A c \in Clients : call[c].step \in Spoiling => call[c].new \in Docs
      /\ used \subseteq Docs
  BY IngestionAssumption DEF IInv, TypeInv, TypeOK, Carries, Call, Spoiling
<1>2. ASSUME NEW c \in Clients, Arrive(c)
      PROVE  WinnersAreUnspoiled' /\ InsertedOnce'
  <2>1. /\ call'[c].new \in {None} \cup (Docs \ used) /\ UNCHANGED <<accepted, orphans>>
        /\ \A e \in Clients : e # c => call'[e] = call[e]
    BY <1>1, <1>2, ArriveFacts
  <2>2. ASSUME NEW d \in Docs, MayWin(d)', d \in used
        PROVE  MayWin(d)
    <3>1. ASSUME NEW e \in Clients, call'[e].new = d, call'[e].step \in Open
          PROVE  MayWin(d)
      <4>1. e # c
        BY <1>1, <2>1, <2>2, <3>1
      <4>2. QED
        BY <2>1, <3>1, <4>1 DEF MayWin
    <3>2. QED
      BY <2>1, <2>2, <3>1 DEF MayWin
  <2>3. QED
    BY <1>1, <2>1, <2>2 DEF WinnersAreUnspoiled, InsertedOnce
<1>3. ASSUME NEW c \in Clients, Step(c)
      PROVE  WinnersAreUnspoiled' /\ InsertedOnce'
  <2>1. Moving(c) /\ Moved(c) /\ (UNCHANGED orphans \/ Leaves(c))
    BY <1>1, <1>3, StepMoves DEF Moving
  <2>2. ASSUME NEW d \in Docs, MayWin(d)'
        PROVE  MayWin(d)
    <3>1. CASE d \in accepted'
      <4>1. call[c].step = "record" => call[c].step \in Open
        BY DEF Open
      <4>2. QED
        BY <2>1, <3>1, <4>1 DEF Moved, MayWin
    <3>2. ASSUME NEW e \in Clients, call'[e].new = d, call'[e].step \in Open
          PROVE  MayWin(d)
      <4>1. CASE e = c
        BY <1>1, <2>1, <3>2, <4>1 DEF Moved, MayWin
      <4>2. CASE e # c
        BY <2>1, <3>2, <4>2 DEF Moved, MayWin
      <4>3. QED
        BY <4>1, <4>2
    <3>3. QED
      BY <2>2, <3>1, <3>2 DEF MayWin
  <2>3. CASE UNCHANGED orphans
    BY <1>1, <2>2, <2>3 DEF WinnersAreUnspoiled, InsertedOnce
  <2>4. ASSUME NEW i \in 1 .. MaxFaults, orphans' = [orphans EXCEPT ![i] = call[c]],
               ~UNCHANGED orphans
        PROVE  WinnersAreUnspoiled' /\ InsertedOnce'
    <3>1. ASSUME NEW d \in Docs, d = call[c].new, call[c].step \in Spoiling, MayWin(d)'
          PROVE  FALSE
      <4>1. call'[c].step \notin Open \/ call'[c].new = None
        <5>1. CASE Ends(c)
          BY <5>1, InitialRecords DEF Ends
        <5>2. CASE Passes(c)
          <6>1. PICK s \in Steps : Reason(c, s) /\ call'[c] = [call[c] EXCEPT !.step = s]
            BY <5>2 DEF Passes
          <6>2. call[c] \in Call
            BY <1>1 DEF TypeInv, TypeOK
          <6>3. call'[c].step = s
            BY <6>1, <6>2 DEF Call
          <6>4. s \notin Open
            BY <2>4, <3>1, <6>1 DEF Reason, Open, Early, Spoiling
          <6>5. QED
            BY <6>3, <6>4
        <5>3. CASE Finds(c)
          BY <3>1, <5>3 DEF Finds, Spoiling
        <5>4. QED
          BY <2>1, <5>1, <5>2, <5>3 DEF Moving
      <4>2. call[c].step # "record"
        BY <3>1 DEF Spoiling
      <4>3. d \notin accepted' /\ \A e \in Clients :
              ~(call'[e].new = d /\ call'[e].step \in Open)
        BY <1>1, <2>1, <3>1, <4>1, <4>2 DEF Moved, OneOwner, AcceptedHasNoOwner
      <4>4. QED
        BY <3>1, <4>3 DEF MayWin
    <3>2. WinnersAreUnspoiled'
      BY <1>1, <2>2, <2>4, <3>1 DEF WinnersAreUnspoiled
    <3>3. call[c].step = "create" => MayWin(call[c].new) /\ call[c].new \in Docs
      BY <1>1 DEF MayWin, Open, Early, Spoiling
    <3>4. InsertedOnce'
      BY <1>1, <2>4, <3>3 DEF InsertedOnce, WinnersAreUnspoiled, Spoiling
    <3>5. QED
      BY <3>2, <3>4
  <2>5. QED
    BY <2>1, <2>3, <2>4 DEF Leaves
<1>4. CASE /\ UNCHANGED <<call, accepted>>
           /\ \/ UNCHANGED orphans
              \/ \E i \in 1 .. MaxFaults : orphans' = [orphans EXCEPT ![i] = IdleCall]
  BY <1>1, <1>4, InitialRecords
     DEF WinnersAreUnspoiled, InsertedOnce, MayWin, Spoiling
<1>5. QED
  BY <1>2, <1>3, <1>4, NextCases
     DEF OrphanCommits, OrphanVanishes, DeleteNotebook, vars

(* The row of a document is there only when nothing can insert it again.   *)
LEMMA RowsStep ==
  ASSUME IInv, [Next]_vars
  PROVE  RowsAreSettled'
<1>1. /\ TypeInv /\ RowsAreSettled /\ InsertedOnce /\ WinnersAreUnspoiled
      /\ None \notin Docs /\ orphans \in [1 .. MaxFaults -> Call]
  BY IngestionAssumption DEF IInv, TypeInv, TypeOK
<1>2. ASSUME NEW d \in Docs, Present(d)', ~Present(d)
      PROVE  Settled(d)'
  <2>1. row'[d] # row[d] /\ row'[d] # "absent" /\ row[d] = "absent"
    BY <1>2 DEF Present
  <2>2. ASSUME NEW c \in Clients, Step(c)
        PROVE  Settled(d)'
    <3>1. Moving(c) /\ Moved(c) /\ Effect(call[c]) /\ UNCHANGED orphans
      BY <1>1, <2>1, <2>2, StepMoves DEF Leaves, tableVars, Moving
    <3>2. call[c].step = "create" /\ call[c].new = d
      BY <1>1, <2>1, <3>1, EffectOnStatus DEF Present
    <3>3. call'[c].step \notin Early
      <4>1. CASE Ends(c)
        BY <4>1, InitialRecords DEF Ends, Early
      <4>2. CASE Passes(c)
        <5>1. PICK s \in Steps : Reason(c, s) /\ call'[c] = [call[c] EXCEPT !.step = s]
          BY <4>2 DEF Passes
        <5>2. call[c] \in Call
          BY <1>1 DEF TypeInv, TypeOK
        <5>3. call'[c].step = s
          BY <5>1, <5>2 DEF Call
        <5>4. s \notin Early
          BY <3>2, <5>1 DEF Reason, Early
        <5>5. QED
          BY <5>3, <5>4
      <4>3. CASE Finds(c)
        BY <3>2, <4>3 DEF Finds
      <4>4. QED
        BY <3>1, <4>1, <4>2, <4>3 DEF Moving
    <3>4. QED
      BY <3>1, <3>2, <3>3, InsertedIsSettled
  <2>3. ASSUME NEW i \in 1 .. MaxFaults, OrphanCommits(i)
        PROVE  Settled(d)'
    <3>1. /\ Effect(orphans[i]) /\ orphans' = [orphans EXCEPT ![i] = IdleCall]
          /\ UNCHANGED <<used, call>>
      BY <2>3 DEF OrphanCommits
    <3>2. orphans[i].step = "create" /\ orphans[i].new = d
      BY <1>1, <2>1, <3>1, EffectOnStatus DEF Present
    <3>3. ~MayWin(d) /\ d \in used
      BY <1>1, <3>2 DEF WinnersAreUnspoiled, Spoiling, TypeInv, Carries, Call
    <3>4. \A c \in Clients : ~(call'[c].new = d /\ call'[c].step \in Early)
      BY <3>1, <3>3 DEF MayWin, Open
    <3>5. \A j \in 1 .. MaxFaults : ~(orphans'[j].new = d /\ orphans'[j].step = "create")
      BY <1>1, <3>1, <3>2, InitialRecords DEF InsertedOnce
    <3>6. QED
      BY <3>1, <3>3, <3>4, <3>5 DEF Settled, MayInsert
  <2>4. CASE \/ \E c \in Clients : Arrive(c)
             \/ \E i \in 1 .. MaxFaults : OrphanVanishes(i)
             \/ DeleteNotebook \/ UNCHANGED vars
    BY <2>1, <2>4 DEF Arrive, OrphanVanishes, DeleteNotebook, DeleteRows, tableVars, vars
  <2>5. QED
    BY <2>2, <2>3, <2>4, NextCases
<1>3. ASSUME NEW d \in Docs, row'[d] = "failed", row[d] # "failed"
      PROVE  Lost(d)'
  <2>1. PICK k \in InService : k.new = d /\ k.step = "fail"
    BY <1>3, StatusChanges
  <2>2. Lost(d)
    BY <2>1, ServiceFacts DEF Promised
  <2>3. QED
    BY <1>1, <2>2, SettledStays
<1>4. \A d \in Docs : (Present(d) => Settled(d)') /\ (row[d] = "failed" => Lost(d)')
  BY <1>1, SettledStays DEF RowsAreSettled
<1>5. QED
  BY <1>2, <1>3, <1>4 DEF RowsAreSettled

(* A deletion is answered when its document is gone.                       *)
LEMMA AnswersStep ==
  ASSUME IInv, [Next]_vars
  PROVE  AnswersHold'
<1> SUFFICES ASSUME NEW c \in Clients, resp'[c].kind = "delete", resp'[c].code = "ok"
             PROVE  resp'[c].doc \in Docs /\ Gone(resp[c].doc)'
  BY DEF AnswersHold
<1>1. TypeInv
  BY DEF IInv
<1>2. CASE resp'[c] = resp[c]
  <2>1. PICK d : d = resp[c].doc
    OBVIOUS
  <2>2. d \in Docs /\ Gone(d)
    BY <1>2, <2>1 DEF IInv, AnswersHold
  <2>3. Gone(d)'
    BY <2>2, GoneStays
  <2>4. QED
    BY <1>2, <2>1, <2>2, <2>3
<1>3. CASE Step(c) /\ Ends(c)
  <2>1. PICK d : d = call[c].old
    OBVIOUS
  <2>2. call[c].step = "unlink" /\ resp'[c].doc = d
    BY <1>3, <2>1 DEF Ends
  <2>3. d \in Docs /\ Gone(d)
    BY <1>1, <2>1, <2>2 DEF IInv, TypeInv, Carries, Promised
  <2>4. Gone(d)'
    BY <2>3, GoneStays
  <2>5. QED
    BY <2>2, <2>3, <2>4
<1>4. ASSUME NEW e \in Clients, Step(e)
      PROVE  resp'[c] = resp[c] \/ (e = c /\ Ends(c))
  BY <1>1, <1>4, StepMoves DEF Moving, Moved, Passes, Finds
<1>5. ASSUME NEW e \in Clients, Arrive(e)
      PROVE  resp'[c] = resp[c] \/ e = c
  BY <1>1, <1>5, ArriveFacts
<1>6. ~Arrive(c)
  BY <1>1, ArriveFacts DEF NoResponse
<1>7. QED
  BY <1>2, <1>3, <1>4, <1>5, <1>6, NextCases
     DEF OrphanCommits, OrphanVanishes, DeleteNotebook, vars

(* What is completed is whole.                                             *)
LEMMA ReadyStep ==
  ASSUME IInv, [Next]_vars
  PROVE  ReadyIsWhole'
<1> SUFFICES ASSUME NEW d \in Docs, row'[d] = "completed"
             PROVE  d \in chunked' /\ d \in objects'
  BY DEF ReadyIsWhole
<1>1. TypeInv /\ ~Gone(d)'
  BY DEF IInv, Gone, Present
<1>2. CASE row[d] = "completed"
  <2>1. d \in chunked /\ d \in objects /\ Settled(d)
    BY <1>2 DEF IInv, ReadyIsWhole, RowsAreSettled, Present
  <2>2. \A k \in InService : ~(k.step = "undo" /\ k.new = d)
    BY <1>2, ServiceFacts DEF Promised
  <2>3. QED
    BY <1>1, <2>1, <2>2, WholeStays
<1>3. CASE row[d] # "completed"
  <2>1. PICK k \in InService :
          k.new = d /\ k.step = "complete" /\ Present(d) /\ UNCHANGED <<chunked, objects>>
    BY <1>3, StatusChanges
  <2>2. QED
    BY <2>1, ServiceFacts DEF Promised, Gone
<1>4. QED
  BY <1>2, <1>3

(* What is accepted is completed or removed.                               *)
LEMMA AcceptedStep ==
  ASSUME IInv, [Next]_vars
  PROVE  AcceptedStaysReady'
<1> SUFFICES ASSUME NEW d \in accepted'
             PROVE  row'[d] \in {"absent", "completed"}
  BY DEF AcceptedStaysReady
<1>1. TypeInv /\ TypeInv' /\ d \in Docs
  BY TypeStep DEF IInv, TypeInv, TypeOK
<1>2. CASE d \in accepted
  <2>1. MayWin(d) /\ row[d] \in {"absent", "completed"}
    BY <1>2 DEF IInv, AcceptedStaysReady, MayWin
  <2>2. ASSUME NEW k \in InService, k.new = d
        PROVE  k.step \notin {"create", "fail"}
    BY <1>1, <1>2, <2>1, <2>2 DEF IInv, InService, AcceptedHasNoOwner, WinnersAreUnspoiled, Spoiling
  <2>3. QED
    BY <1>1, <2>1, <2>2, StatusChanges
<1>3. CASE d \notin accepted
  <2>1. PICK c \in Clients : Step(c)
    BY <1>1, <1>3, NextCases, ArriveFacts
       DEF OrphanCommits, OrphanVanishes, DeleteNotebook, vars
  <2>2. call[c].step = "record" /\ d = call[c].new
    BY <1>1, <1>3, <2>1, StepMoves DEF Moving, Moved
  <2>3. row' = row
    BY <1>1, <2>1, <2>2, StepMoves DEF Effect, Leaves, tableVars
  <2>4. QED
    BY <2>2, <2>3 DEF IInv, Serving
<1>4. QED
  BY <1>2, <1>3

-----------------------------------------------------------------------------
(* Without faults.                                                         *)

(* Request k will end the processing of d, or remove its object.           *)
Finishes(k, d) == k.new = d /\ k.step \in {"embed", "chunks", "complete", "fail"}

Clears(k, d) ==
  \/ k.new = d /\ k.step \in {"create", "undo"}
  \/ k.old = d /\ k.step = "unlink"

(* What is not whole is in the care of a request.                          *)
Cared(d) ==
  \/ ~Present(d) /\ d \notin objects
  \/ row[d] \in {"completed", "failed"} /\ d \in objects
  \/ row[d] = "processing" /\ d \in objects /\ \E c \in Clients : Finishes(call[c], d)
  \/ ~Present(d) /\ d \in objects /\ \E c \in Clients : Clears(call[c], d)

(* As long as no fault has struck, no call is abandoned, an object is      *)
(* taken back only without a row, and nothing is left without care.        *)
FaultFree ==
  faults = 0 =>
    /\ \A i \in 1 .. MaxFaults : orphans[i].step = "idle"
    /\ \A c \in Clients : call[c].step = "undo" => ~Present(call[c].new)
    /\ notebook => \A d \in Docs : Cared(d)

(* The steps that are possible then.                                       *)
LEMMA FaultFreeCases ==
  ASSUME TypeInv, FaultFree, [Next]_vars, faults' = 0
  PROVE  /\ faults = 0
         /\ \/ \E c \in Clients : Arrive(c) \/ Serve(c)
            \/ DeleteNotebook
            \/ UNCHANGED vars
<1>1. faults \in Nat
  BY IngestionAssumption DEF TypeInv, TypeOK
<1>2. ~Fault
  BY <1>1 DEF Fault
<1>3. \A c \in Clients : Step(c) => Serve(c)
  BY <1>2 DEF Step, CallFails, CallTimesOut, Crash
<1>4. ASSUME NEW c \in Clients, Serve(c)
      PROVE  faults' = faults
  BY <1>4, ReadMoves, WriteMoves DEF Serve
<1>5. faults = 0
  BY <1>3, <1>4, NextCases
     DEF Arrive, OrphanCommits, OrphanVanishes, DeleteNotebook, vars
<1>6. ASSUME NEW i \in 1 .. MaxFaults
      PROVE  ~OrphanCommits(i) /\ ~OrphanVanishes(i)
  BY <1>5, <1>6 DEF FaultFree, OrphanCommits, OrphanVanishes, Effect
<1>7. QED
  BY <1>3, <1>5, <1>6, NextCases

(* A document that a step leaves alone stays in the same care.             *)
LEMMA CareStays ==
  ASSUME NEW c \in Clients, NEW d \in Docs, Cared(d), Moving(c),
         row'[d] = row[d], d \in objects' <=> d \in objects,
         Finishes(call[c], d) /\ row[d] = "processing" => Finishes(call'[c], d),
         Clears(call[c], d) /\ ~Present(d) => Clears(call'[c], d)
  PROVE  Cared(d)'
<1>1. Present(d)' <=> Present(d)
  BY DEF Present
<1>2. \A e \in Clients : e # c => call'[e] = call[e]
  BY DEF Moving, Moved
<1>3. CASE row[d] = "processing" /\ d \in objects
           /\ \E e \in Clients : Finishes(call[e], d)
  <2>1. \E e \in Clients : Finishes(call'[e], d)
    BY <1>2, <1>3
  <2>2. QED
    BY <1>3, <2>1 DEF Cared, Finishes
<1>4. CASE ~Present(d) /\ d \in objects /\ \E e \in Clients : Clears(call[e], d)
  <2>1. \E e \in Clients : Clears(call'[e], d)
    BY <1>2, <1>4
  <2>2. QED
    BY <1>1, <1>4, <2>1 DEF Cared, Clears
<1>5. CASE \/ ~Present(d) /\ d \notin objects
           \/ row[d] \in {"completed", "failed"} /\ d \in objects
  BY <1>1, <1>5 DEF Cared
<1>6. QED
  BY <1>3, <1>4, <1>5 DEF Cared

(* The reads, and the reply of the provider.                               *)
LEMMA ReadsCare ==
  ASSUME TypeInv, NEW c \in Clients, NEW d \in Docs, Cared(d),
         \/ CheckAccess(c) \/ Lookup(c) \/ CountChunks(c) \/ GetDocument(c)
         \/ Reserve(c) \/ Embed(c) \/ Record(c)
  PROVE  Cared(d)'
<1>1. Moving(c) /\ row' = row /\ objects' = objects
  BY ReadMoves DEF tableVars
<1>2. call[c] \in Call /\ call \in [Clients -> Call]
  BY DEF TypeInv, TypeOK
<1>3. ~Clears(call[c], d)
  BY DEF Clears, CheckAccess, Lookup, CountChunks, GetDocument, Reserve, Embed, Record
<1>4. ASSUME Finishes(call[c], d)
      PROVE  Finishes(call'[c], d)
  <2>1. Embed(c)
    BY <1>4 DEF Finishes, CheckAccess, Lookup, CountChunks, GetDocument, Reserve, Record
  <2>2. PICK s \in {"chunks", "fail"} : call' = [call EXCEPT ![c].step = s]
    BY <2>1 DEF Embed, Goto
  <2>3. call'[c].step = s /\ call'[c].new = call[c].new
    BY <1>2, <2>2 DEF Call
  <2>4. QED
    BY <1>4, <2>3 DEF Finishes
<1>5. QED
  BY <1>1, <1>3, <1>4, CareStays

(* The writes: each gives up, or takes over, the care of its document.     *)
LEMMA WritesCare ==
  ASSUME IInv, FaultFree, faults = 0, NEW c \in Clients, NEW d \in Docs, Cared(d),
         \/ Drop(c) \/ Unlink(c) \/ Store(c) \/ Create(c) \/ Undo(c)
         \/ CreateChunks(c) \/ Complete(c) \/ Fail(c)
  PROVE  Cared(d)'
<1> DEFINE k == call[c]
<1>1. TypeInv /\ k \in Call /\ call \in [Clients -> Call] /\ row \in [Docs -> Statuses]
      /\ Promised(k) /\ Serving(k)
  BY DEF IInv, TypeInv, TypeOK
<1>2. Moving(c)
  BY <1>1, WriteMoves
<1>3. ASSUME NEW s \in Steps, Goto(c, s)
      PROVE  call'[c].step = s /\ call'[c].new = k.new /\ call'[c].old = k.old
  BY <1>1, <1>3 DEF Goto, Call
<1>4. CASE Drop(c)
  <2>1. k.step = "drop" /\ DropRow(k)
    BY <1>4 DEF Drop, Effect
  <2>2. /\ row'[d] = IF d = k.old THEN "absent" ELSE row[d]
        /\ objects' = objects
    BY <2>1 DEF DropRow, DeleteRows
  <2>3. ~Finishes(k, d) /\ ~Clears(k, d)
    BY <2>1 DEF Finishes, Clears
  <2>4. CASE row'[d] = row[d]
    BY <1>2, <2>2, <2>3, <2>4, CareStays
  <2>5. CASE row'[d] # row[d]
    <3>1. d = k.old /\ row'[d] = "absent" /\ Present(k.old)
      BY <2>2, <2>5 DEF Present
    <3>2. Goto(c, "unlink")
      BY <1>4, <3>1 DEF Drop
    <3>3. Clears(call'[c], d)
      BY <1>3, <3>1, <3>2 DEF Clears, Steps
    <3>4. \E e \in Clients : Clears(call'[e], d)
      BY <3>3
    <3>5. QED
      BY <3>1, <3>4 DEF Cared, Present, Clears
  <2>6. QED
    BY <2>4, <2>5
<1>5. CASE Unlink(c)
  <2>1. k.step = "unlink" /\ RemoveObject(k.old) /\ ~Present(k.old)
    BY <1>1, <1>5 DEF Unlink, Effect, Promised, Gone
  <2>2. row' = row /\ objects' = objects \ {k.old}
    BY <2>1 DEF RemoveObject
  <2>3. CASE d = k.old
    BY <2>1, <2>2, <2>3 DEF Cared, Present
  <2>4. CASE d # k.old
    <3>1. ~Finishes(k, d) /\ ~Clears(k, d)
      BY <2>1, <2>4 DEF Finishes, Clears
    <3>2. QED
      BY <1>2, <2>2, <2>4, <3>1, CareStays
  <2>5. QED
    BY <2>3, <2>4
<1>6. CASE Store(c)
  <2>1. k.step = "store" /\ StoreObject(k) /\ Goto(c, "create")
    BY <1>6 DEF Store, Effect
  <2>2. row' = row /\ objects' = objects \cup {k.new}
    BY <2>1 DEF StoreObject
  <2>3. CASE d = k.new
    <3>1. ~Present(d)
      BY <2>1, <2>3, OwnersFacts DEF Early
    <3>2. \E e \in Clients : Clears(call'[e], d)
      BY <1>3, <2>1, <2>3 DEF Clears, Steps
    <3>3. QED
      BY <2>2, <2>3, <3>1, <3>2 DEF Cared, Present, Clears
  <2>4. CASE d # k.new
    <3>1. ~Finishes(k, d) /\ ~Clears(k, d)
      BY <2>1 DEF Finishes, Clears
    <3>2. QED
      BY <1>2, <2>2, <2>4, <3>1, CareStays
  <2>5. QED
    BY <2>3, <2>4
<1>7. CASE Create(c)
  <2>1. k.step = "create" /\ k.new \in objects
    BY <1>1, <1>7 DEF Create, Serving
  <2>2. CASE Effect(k) /\ Goto(c, "embed")
    <3>1. /\ row' = [row EXCEPT ![k.new] = "processing"] /\ objects' = objects
      BY <2>1, <2>2 DEF Effect, InsertRow
    <3>2. CASE d = k.new
      <4>1. \E e \in Clients : Finishes(call'[e], d)
        BY <1>3, <2>2, <3>2 DEF Finishes, Steps
      <4>2. row'[d] = "processing" /\ d \in objects'
        BY <1>1, <2>1, <3>1, <3>2
      <4>3. QED
        BY <4>1, <4>2 DEF Cared, Finishes
    <3>3. CASE d # k.new
      <4>1. ~Finishes(k, d) /\ ~Clears(k, d)
        BY <2>1, <3>3 DEF Finishes, Clears
      <4>2. QED
        BY <1>1, <1>2, <3>1, <3>3, <4>1, CareStays
    <3>4. QED
      BY <3>2, <3>3
  <2>3. CASE UNCHANGED tableVars /\ Goto(c, "undo")
    <3>1. ~Finishes(k, d) /\ (Clears(k, d) => Clears(call'[c], d))
      BY <1>3, <2>1, <2>3 DEF Finishes, Clears, Steps
    <3>2. QED
      BY <1>2, <2>3, <3>1, CareStays DEF tableVars
  <2>4. QED
    BY <1>7, <2>2, <2>3 DEF Create, Compensate
<1>8. CASE Undo(c)
  <2>1. k.step = "undo" /\ RemoveObject(k.new) /\ ~Present(k.new)
    BY <1>8 DEF Undo, Effect, FaultFree
  <2>2. row' = row /\ objects' = objects \ {k.new}
    BY <2>1 DEF RemoveObject
  <2>3. CASE d = k.new
    BY <2>1, <2>2, <2>3 DEF Cared, Present
  <2>4. CASE d # k.new
    <3>1. ~Finishes(k, d) /\ ~Clears(k, d)
      BY <2>1, <2>4 DEF Finishes, Clears
    <3>2. QED
      BY <1>2, <2>2, <2>4, <3>1, CareStays
  <2>5. QED
    BY <2>3, <2>4
<1>9. CASE CreateChunks(c)
  <2>1. row' = row /\ objects' = objects /\ k.step = "chunks"
    BY <1>9 DEF CreateChunks, Effect, InsertChunks, tableVars
  <2>2. PICK s \in {"complete", "fail"} : Goto(c, s)
    BY <1>9 DEF CreateChunks
  <2>3. ~Clears(k, d) /\ (Finishes(k, d) => Finishes(call'[c], d))
    BY <1>3, <2>1, <2>2 DEF Finishes, Clears, Steps
  <2>4. QED
    BY <1>2, <2>1, <2>3, CareStays
<1>10. CASE Complete(c) \/ Fail(c)
  <2>1. PICK s \in {"completed", "failed"} : SetStatus(k, s)
    BY <1>10 DEF Complete, Fail, Effect
  <2>2. k.step \in {"complete", "fail"} /\ ~Clears(k, d) /\ objects' = objects
    BY <1>10, <2>1 DEF Complete, Fail, Clears, SetStatus
  <2>3. CASE Present(d) /\ d = k.new
    <3>1. row'[d] = s
      BY <1>1, <2>1, <2>3 DEF SetStatus
    <3>2. d \in objects
      BY <2>3 DEF Cared
    <3>3. QED
      BY <2>2, <3>1, <3>2 DEF Cared
  <2>4. CASE ~(Present(d) /\ d = k.new)
    <3>1. row'[d] = row[d]
      BY <1>1, <2>1, <2>4 DEF SetStatus
    <3>2. ~(Finishes(k, d) /\ row[d] = "processing")
      BY <2>4 DEF Finishes, Present
    <3>3. QED
      BY <1>2, <2>2, <3>1, <3>2, CareStays
  <2>5. QED
    BY <2>3, <2>4
<1>11. QED
  BY <1>4, <1>5, <1>6, <1>7, <1>8, <1>9, <1>10

(* An object is taken back when its row was refused, and then no call      *)
(* inserts the row.                                                        *)
LEMMA UndoneHasNoRow ==
  ASSUME IInv, FaultFree, faults = 0, NEW c \in Clients, Serve(c),
         NEW e \in Clients, call'[e].step = "undo"
  PROVE  row'[call'[e].new] = "absent"
<1>1. TypeInv /\ call[c] \in Call /\ call \in [Clients -> Call]
      /\ row \in [Docs -> Statuses]
  BY DEF IInv, TypeInv, TypeOK
<1>2. Moving(c)
  BY <1>1, ReadMoves, WriteMoves DEF Serve
<1>3. \A f \in Clients : f # c => call'[f] = call[f]
  BY <1>2 DEF Moving, Moved
<1>4. CASE e = c
  <2>1. call[c].step = "create" /\ call'[c].new = call[c].new
    <3>1. CASE Ends(c)
      BY <1>4, <3>1 DEF Ends, IdleCall
    <3>2. ASSUME NEW s \in Steps, NEW old, NEW seen
          PROVE  /\ [call[c] EXCEPT !.step = s, !.old = old, !.seen = seen].step = s
                 /\ [call[c] EXCEPT !.step = s].step = s
                 /\ [call[c] EXCEPT !.step = s].new = call[c].new
      BY <1>1 DEF Call
    <3>3. CASE Finds(c)
      <4>1. PICK d \in Docs, s \in {"count", "drop"} :
              call'[c] = [call[c] EXCEPT !.step = s, !.old = d, !.seen = row[d]]
        BY <3>3 DEF Finds
      <4>2. s \in Steps
        BY DEF Steps
      <4>3. QED
        BY <1>4, <3>2, <4>1, <4>2
    <3>4. CASE Passes(c)
      <4>1. PICK s \in Steps : Reason(c, s) /\ call'[c] = [call[c] EXCEPT !.step = s]
        BY <3>4 DEF Passes
      <4>2. s = "undo" /\ call'[c].new = call[c].new
        BY <1>4, <3>2, <4>1
      <4>3. QED
        BY <4>1, <4>2 DEF Reason
    <3>5. QED
      BY <1>2, <3>1, <3>3, <3>4 DEF Moving
  <2>2. UNCHANGED tableVars
    <3>1. Create(c)
      BY <2>1 DEF Serve, CheckAccess, Lookup, CountChunks, GetDocument, Drop, Unlink,
                  Reserve, Store, Undo, Embed, CreateChunks, Complete, Fail, Record
    <3>2. ~Goto(c, "embed")
      BY <1>1, <1>4 DEF Goto, Call
    <3>3. QED
      BY <3>1, <3>2 DEF Create
  <2>3. call[c].new \in Docs
    BY <1>1, <2>1, CallFacts DEF Carries, TypeInv, TypeOK
  <2>4. QED
    BY <1>4, <2>1, <2>2, <2>3, OwnersFacts DEF Early, Present, tableVars
<1>5. CASE e # c
  <2>1. call[e].step = "undo" /\ call'[e] = call[e] /\ row[call[e].new] = "absent"
    BY <1>3, <1>5 DEF FaultFree, Present
  <2>2. call[e].new \in Docs
    BY <1>1, <2>1, CallFacts DEF Carries, TypeInv, TypeOK
  <2>3. CASE Effect(call[c])
    <3>1. call[c].step = "create" => call[c].new # call[e].new
      BY <1>5, <2>2, IngestionAssumption DEF IInv, OneOwner
    <3>2. QED
      BY <1>1, <2>1, <2>2, <2>3, <3>1
         DEF Effect, DropRow, DeleteRows, RemoveObject, StoreObject, InsertRow,
             InsertChunks, SetStatus, Present
  <2>4. CASE UNCHANGED tableVars
    BY <2>1, <2>4 DEF tableVars
  <2>5. QED
    BY <1>1, <2>3, <2>4, ReadMoves, WriteMoves DEF Serve
<1>6. QED
  BY <1>4, <1>5

LEMMA FaultFreeStep ==
  ASSUME IInv, FaultFree, [Next]_vars
  PROVE  FaultFree'
<1> SUFFICES ASSUME faults' = 0
             PROVE  FaultFree'
  BY DEF FaultFree
<1>1. TypeInv
  BY DEF IInv
<1>2. faults = 0 /\ \A i \in 1 .. MaxFaults : orphans[i].step = "idle"
  BY <1>1, FaultFreeCases DEF FaultFree
<1>3. ASSUME NEW c \in Clients, Serve(c)
      PROVE  FaultFree'
  <2>1. orphans' = orphans /\ notebook' = notebook
    BY <1>1, <1>3, ReadMoves, WriteMoves
       DEF Serve, Effect, DropRow, RemoveObject, StoreObject, InsertRow, InsertChunks,
           SetStatus, tableVars
  <2>2. \A e \in Clients : call'[e].step = "undo" => ~Present(call[e].new)'
    BY <1>2, <1>3, UndoneHasNoRow DEF Present
  <2>3. ASSUME NEW d \in Docs, notebook
        PROVE  Cared(d)'
    <3>1. Cared(d)
      BY <1>2, <2>3 DEF FaultFree
    <3>2. QED
      BY <1>1, <1>2, <1>3, <3>1, ReadsCare, WritesCare DEF Serve
  <2>4. QED
    BY <1>2, <2>1, <2>2, <2>3 DEF FaultFree
<1>4. ASSUME NEW c \in Clients, Arrive(c)
      PROVE  FaultFree'
  <2>1. /\ call[c].step = "idle" /\ call'[c].step = "access"
        /\ \A e \in Clients : e # c => call'[e] = call[e]
        /\ UNCHANGED <<row, objects, notebook, orphans>>
    BY <1>1, <1>4, ArriveFacts DEF tableVars
  <2>2. \A e \in Clients, d \in Docs :
          /\ Finishes(call[e], d) => Finishes(call'[e], d)
          /\ Clears(call[e], d) => Clears(call'[e], d)
    BY <2>1 DEF Finishes, Clears
  <2>3. ASSUME NEW d \in Docs, notebook
        PROVE  Cared(d)'
    <3>1. Cared(d)
      BY <1>2, <2>3 DEF FaultFree
    <3>2. /\ (\E e \in Clients : Finishes(call[e], d))
               => \E e \in Clients : Finishes(call'[e], d)
          /\ (\E e \in Clients : Clears(call[e], d))
               => \E e \in Clients : Clears(call'[e], d)
      BY <2>2
    <3>3. QED
      BY <2>1, <3>1, <3>2 DEF Cared, Present, Finishes, Clears
  <2>4. \A e \in Clients : call'[e].step = "undo" => ~Present(call[e].new)'
    BY <1>2, <2>1 DEF FaultFree, Present
  <2>5. QED
    BY <1>2, <2>1, <2>3, <2>4 DEF FaultFree
<1>5. CASE DeleteNotebook
  <2>1. ~notebook' /\ UNCHANGED <<call, orphans>>
    BY <1>5 DEF DeleteNotebook
  <2>2. \A e \in Clients : call[e].step = "undo" => call[e].new \in Docs
    BY <1>1, CallFacts DEF Carries, TypeInv, TypeOK, Call
  <2>3. \A d \in Docs : row'[d] = "absent"
    BY <1>5 DEF DeleteNotebook, DeleteRows
  <2>4. QED
    BY <1>2, <2>1, <2>2, <2>3 DEF FaultFree, Present
<1>6. CASE UNCHANGED vars
  BY <1>2, <1>6 DEF FaultFree, Cared, Present, Finishes, Clears, vars, tableVars
<1>7. QED
  BY <1>1, <1>3, <1>4, <1>5, <1>6, FaultFreeCases

-----------------------------------------------------------------------------
(* The theorems.                                                           *)

(* The invariant holds at the beginning.                                   *)
LEMMA InitIInv == Init => IInv
<1> SUFFICES ASSUME Init
             PROVE  IInv
  OBVIOUS
<1>1. /\ \A d \in Docs : row[d] = "absent"
      /\ \A c \in Clients : call[c] = IdleCall /\ resp[c] = NoResponse
      /\ \A i \in 1 .. MaxFaults : orphans[i] = IdleCall
      /\ accepted = {} /\ used = {}
  BY DEF Init
<1>2. TypeOK
  BY InitialRecords, IngestionAssumption DEF Init, TypeOK, Statuses
<1>3. Carries(IdleCall) /\ Promised(IdleCall) /\ Serving(IdleCall)
  BY DEF Carries, Promised, Serving, IdleCall
<1>4. TypeInv
  BY <1>1, <1>2, <1>3 DEF TypeInv
<1>5. OneOwner /\ AcceptedHasNoOwner /\ InsertedOnce
  BY <1>1, InitialRecords DEF OneOwner, AcceptedHasNoOwner, InsertedOnce
<1>6. WinnersAreUnspoiled
  BY <1>1, InitialRecords DEF WinnersAreUnspoiled, Spoiling
<1>7. RowsAreSettled /\ AnswersHold
  BY <1>1 DEF RowsAreSettled, AnswersHold, Present, NoResponse
<1>8. ReadyIsWhole /\ AcceptedStaysReady
  BY <1>1 DEF ReadyIsWhole, AcceptedStaysReady
<1>9. QED
  BY <1>1, <1>3, <1>4, <1>5, <1>6, <1>7, <1>8 DEF IInv

(* Every step keeps the invariant.                                         *)
LEMMA NextIInv == IInv /\ [Next]_vars => IInv'
<1> SUFFICES ASSUME IInv, [Next]_vars
             PROVE  IInv'
  OBVIOUS
<1>1. TypeInv'
  BY TypeStep DEF IInv
<1>2. QED
  BY <1>1, ServiceStep, OwnersStep, SpoilingStep, RowsStep, AnswersStep,
     ReadyStep, AcceptedStep DEF IInv

(* The inductive invariant: what a call, in service or abandoned, has been *)
(* promised of its document stays true.                                    *)
THEOREM Invariance == Spec => []IInv
<1>1. QED
  BY InitIInv, NextIInv, PTL DEF Spec

(* Rows, objects, requests, answers and abandoned calls are of their type. *)
THEOREM TypeCorrect == Spec => []TypeOK
<1>1. IInv => TypeOK
  BY DEF IInv, TypeInv
<1>2. QED
  BY <1>1, Invariance, PTL

(* A completed document has its chunks and its object.                     *)
THEOREM ReadyWhole == Spec => []ReadyIsWhole
<1>1. IInv => ReadyIsWhole
  BY DEF IInv
<1>2. QED
  BY <1>1, Invariance, PTL

(* A document answered 201 is completed as long as it has a row.           *)
THEOREM AcceptedReady == Spec => []AcceptedStaysReady
<1>1. IInv => AcceptedStaysReady
  BY DEF IInv
<1>2. QED
  BY <1>1, Invariance, PTL

(* A document whose deletion was answered 200 has no row and no chunk.     *)
THEOREM DeletionFinal == Spec => []DeletedIsGone
<1>1. IInv => DeletedIsGone
  BY DEF IInv, AnswersHold, DeletedIsGone, Gone, Present, TypeInv, TypeOK
<1>2. QED
  BY <1>1, Invariance, PTL

(* The row of a document answered 201 is removed only by a deletion of it  *)
(* or with its notebook.                                                   *)
THEOREM AcceptedKept == Spec => AcceptedIsKept
<1> DEFINE Kept ==
      \A d \in accepted :
        Present(d) /\ ~Present(d)' =>
          \/ ~notebook'
          \/ \E k \in {call[c] : c \in Clients}
                        \cup {orphans[i] : i \in 1 .. MaxFaults} :
               k.kind = "delete" /\ k.old = d
<1>1. ASSUME IInv, [Next]_vars
      PROVE  Kept
  <2> SUFFICES ASSUME NEW d \in accepted, Present(d), ~Present(d)', notebook'
               PROVE  \E k \in InService : k.kind = "delete" /\ k.old = d
    BY DEF InService
  <2>1. TypeInv /\ d \in Docs /\ row \in [Docs -> Statuses] /\ MayWin(d)
    BY <1>1 DEF IInv, TypeInv, TypeOK, MayWin
  <2>2. row'[d] = "absent" /\ row[d] # "absent"
    BY DEF Present
  <2>3. PICK k \in InService : Effect(k)
    BY <1>1, <2>1, <2>2, Effects DEF tableVars
  <2>4. k.step = "drop" /\ k.old = d
    BY <2>1, <2>2, <2>3
       DEF Effect, DropRow, DeleteRows, RemoveObject, StoreObject, InsertRow,
           InsertChunks, SetStatus
  <2>5. k \in Call /\ (k.kind = "upload" => Lost(d))
    BY <1>1, <2>4, ServiceFacts DEF Promised
  <2>6. QED
    BY <2>1, <2>4, <2>5 DEF Lost, Call
<1>2. QED
  BY <1>1, Invariance, PTL DEF AcceptedIsKept, Spec

(* Without faults, what no request works on is a row with its object, or   *)
(* nothing: compensation and deletion leave no object and no row behind.   *)
THEOREM LeavesNothing == Spec => []NothingLeftBehind
<1>1. Init => FaultFree
  BY DEF Init, FaultFree, Cared, Present, IdleCall
<1>2. IInv /\ FaultFree => NothingLeftBehind
  <2> SUFFICES ASSUME FaultFree, faults = 0, notebook, NEW d \in Docs, ~WorkedOn(d)
               PROVE  \/ ~Present(d) /\ d \notin objects
                      \/ row[d] \in {"completed", "failed"} /\ d \in objects
    BY DEF NothingLeftBehind
  <2>1. \A c \in Clients : ~Finishes(call[c], d) /\ ~Clears(call[c], d)
    BY DEF WorkedOn, Finishes, Clears
  <2>2. QED
    BY <2>1 DEF FaultFree, Cared
<1>3. QED
  BY <1>1, <1>2, Invariance, FaultFreeStep, PTL DEF Spec
=============================================================================
