------------------------- MODULE DocumentIngestion -------------------------
(***************************************************************************)
(* Upload and deletion of the documents of one notebook.  A document is a  *)
(* row, its chunks (one INSERT for all of them) and an object in storage;  *)
(* no transaction spans the three, so a request compensates what a later   *)
(* step makes wrong, and a call may fail, be late or be lost with the      *)
(* process that made it.                                                   *)
(*                                                                         *)
(* A document is named by the storage path and identifier that its upload  *)
(* generates.  A request of client c is the record call[c], whose step is  *)
(* the call it makes next; requests interleave exactly where the code      *)
(* awaits.                                                                 *)
(***************************************************************************)
EXTENDS Naturals, FiniteSets

CONSTANTS
  Clients,      \* managers' requests in service at the same time
  Docs,         \* paths that uploads may generate
  Contents,     \* files, up to their content hash
  None,
  MaxFaults     \* bound: calls that fail or time out, crashes

ASSUME IngestionAssumption ==
  /\ None \notin Docs \cup Contents
  /\ MaxFaults \in Nat

VARIABLES
  notebook,     \* the notebook exists
  row, content, \* documents.processing_status, documents.content_hash
  chunked,      \* documents with their rows in document_chunks
  objects,      \* documents with their object in the bucket
  used,         \* paths generated so far
  accepted,     \* documents whose upload was answered 201
  call, resp,   \* requests in service; the last response of each client
  orphans,      \* abandoned calls that may still take effect
  faults

tableVars == <<notebook, row, content, chunked, objects>>

vars == <<tableVars, used, accepted, call, resp, orphans, faults>>

Steps == {"idle", "access", "lookup", "count", "drop", "unlink", "reserve",
          "store", "create", "undo", "embed", "chunks", "complete", "fail",
          "record", "get"}

Statuses == {"absent", "processing", "completed", "failed"}

Codes == {"none", "ok", "forbidden", "not_found", "bad_request", "too_many",
          "error"}

(* new: the document of an upload; old: the one found by its hash, or the  *)
(* one to delete; seen: the status read with it.                           *)
Call == [kind : {"upload", "delete"}, step : Steps, content : Contents \cup {None},
         new : Docs \cup {None}, old : Docs \cup {None}, seen : Statuses]

IdleCall == [kind |-> "upload", step |-> "idle", content |-> None,
             new |-> None, old |-> None, seen |-> "absent"]

Response == [kind : {"upload", "delete"}, code : Codes,
             doc : Docs \cup {None}, status : Statuses]

NoResponse == [kind |-> "upload", code |-> "none", doc |-> None,
               status |-> "absent"]

(* Abandoned calls keep their place in orphans; there is one per fault.    *)
TypeOK ==
  /\ notebook \in BOOLEAN
  /\ row \in [Docs -> Statuses]
  /\ content \in [Docs -> Contents \cup {None}]
  /\ \A d \in Docs : content[d] = None <=> row[d] = "absent"
  /\ chunked \subseteq {d \in Docs : row[d] # "absent"}
  /\ objects \subseteq used
  /\ used \subseteq Docs
  /\ accepted \subseteq used
  /\ call \in [Clients -> Call]
  /\ resp \in [Clients -> Response]
  /\ orphans \in [1 .. MaxFaults -> Call]
  /\ faults \in 0 .. MaxFaults

-----------------------------------------------------------------------------
(* The tables and the bucket.                                              *)

Present(d) == row[d] # "absent"

(* Mutated form: no ON DELETE CASCADE on the chunks.                       *)
DeleteRowsOnly(D) ==
  /\ row'     = [d \in Docs |-> IF d \in D THEN "absent" ELSE row[d]]
  /\ content' = [d \in Docs |-> IF d \in D THEN None ELSE content[d]]
  /\ chunked' = chunked

(* Rows are deleted with their chunks (ON DELETE CASCADE).                 *)
DeleteRows(D) ==
  /\ row'     = [d \in Docs |-> IF d \in D THEN "absent" ELSE row[d]]
  /\ content' = [d \in Docs |-> IF d \in D THEN None ELSE content[d]]
  /\ chunked' = chunked \ D

DropRow(k) ==
  /\ DeleteRows({k.old})
  /\ UNCHANGED <<notebook, objects>>

RemoveObject(d) ==
  /\ objects' = objects \ {d}
  /\ UNCHANGED <<notebook, row, content, chunked>>

StoreObject(k) ==
  /\ objects' = objects \cup {k.new}
  /\ UNCHANGED <<notebook, row, content, chunked>>

(* FOREIGN KEY to the notebook; UNIQUE (notebook_id, content_hash).        *)
Insertable(k) == notebook /\ \A d \in Docs : content[d] # k.content

InsertRow(k) ==
  /\ Insertable(k)
  /\ row'     = [row EXCEPT ![k.new] = "processing"]
  /\ content' = [content EXCEPT ![k.new] = k.content]
  /\ UNCHANGED <<notebook, chunked, objects>>

(* Mutated form: no FOREIGN KEY to the document.                           *)
InsertChunksAnyway(k) ==
  /\ chunked' = chunked \cup {k.new}
  /\ UNCHANGED <<notebook, row, content, objects>>

(* FOREIGN KEY to the document.                                            *)
InsertChunks(k) ==
  /\ Present(k.new)
  /\ chunked' = chunked \cup {k.new}
  /\ UNCHANGED <<notebook, row, content, objects>>

SetStatus(k, s) ==
  /\ row' = IF Present(k.new) THEN [row EXCEPT ![k.new] = s] ELSE row
  /\ UNCHANGED <<notebook, content, chunked, objects>>

(* What the call of request k changes when it succeeds.                    *)
Effect(k) ==
  \/ k.step = "drop"     /\ DropRow(k)
  \/ k.step = "unlink"   /\ RemoveObject(k.old)
  \/ k.step = "store"    /\ StoreObject(k)
  \/ k.step = "create"   /\ InsertRow(k)
  \/ k.step = "undo"     /\ RemoveObject(k.new)
  \/ k.step = "chunks"   /\ InsertChunks(k)
  \/ k.step = "complete" /\ SetStatus(k, "completed")
  \/ k.step = "fail"     /\ SetStatus(k, "failed")

Writes == {"drop", "unlink", "store", "create", "undo", "chunks", "complete",
           "fail"}

-----------------------------------------------------------------------------
(* Requests.                                                               *)

Goto(c, s) ==
  /\ call' = [call EXCEPT ![c].step = s]
  /\ UNCHANGED <<resp, accepted>>

Reply(c, code, d, s) ==
  /\ call' = [call EXCEPT ![c] = IdleCall]
  /\ resp' = [resp EXCEPT ![c] = [kind |-> call[c].kind, code |-> code,
                                  doc |-> d, status |-> s]]

Refuse(c, code) == Reply(c, code, None, "absent") /\ UNCHANGED accepted

(* The upload of a new document is answered 201.                           *)
Accept(c) ==
  /\ Reply(c, "ok", call[c].new, "completed")
  /\ accepted' = accepted \cup {call[c].new}

Deleted(c) ==
  /\ Reply(c, "ok", call[c].old, "absent")
  /\ UNCHANGED accepted

NoFault == UNCHANGED <<used, orphans, faults>>

Arrive(c) ==
  /\ call[c].step = "idle"
  /\ \/ \E x \in Contents, d \in Docs \ used :
          /\ call' = [call EXCEPT ![c] = [IdleCall EXCEPT !.step = "access",
                                            !.content = x, !.new = d]]
          /\ used' = used \cup {d}
     \/ \E d \in Docs :
          /\ call' = [call EXCEPT ![c] = [IdleCall EXCEPT !.kind = "delete",
                                            !.step = "access", !.old = d]]
          /\ UNCHANGED used
  /\ resp' = [resp EXCEPT ![c] = NoResponse]
  /\ UNCHANGED <<tableVars, accepted, orphans, faults>>

(* require_manage_access; an unreadable file is refused here too.          *)
CheckAccess(c) ==
  /\ call[c].step = "access"
  /\ \/ ~notebook /\ Refuse(c, "forbidden")
     \/ notebook /\ call[c].kind = "upload" /\ Goto(c, "lookup")
     \/ notebook /\ call[c].kind = "upload" /\ Refuse(c, "bad_request")
     \/ notebook /\ call[c].kind = "delete" /\ Goto(c, "get")
  /\ NoFault /\ UNCHANGED tableVars

(* Mutated form: whatever is not ready is processed again.                 *)
NotReady(s) == s # "completed"

(* Only a failed document is processed again.                              *)
Retried(s) == s = "failed"

(* get_by_hash: the document of the same content, if there is one.         *)
Lookup(c) ==
  /\ call[c].step = "lookup"
  /\ \/ /\ \A d \in Docs : content[d] # call[c].content
        /\ call' = [call EXCEPT ![c].step = "reserve"]
     \/ \E d \in Docs :
          /\ content[d] = call[c].content
          /\ call' = [call EXCEPT
                        ![c].step = IF Retried(row[d]) THEN "drop" ELSE "count",
                        ![c].old = d, ![c].seen = row[d]]
  /\ NoFault /\ UNCHANGED <<tableVars, resp, accepted>>

(* count_for_document, and the existing document as it was read.           *)
CountChunks(c) ==
  /\ call[c].step = "count"
  /\ Reply(c, "ok", call[c].old, call[c].seen)
  /\ NoFault /\ UNCHANGED <<tableVars, accepted>>

GetDocument(c) ==
  /\ call[c].step = "get"
  /\ IF Present(call[c].old) THEN Goto(c, "drop") ELSE Refuse(c, "not_found")
  /\ NoFault /\ UNCHANGED tableVars

(* A deletion must have deleted the row; a retried upload does not care.   *)
Drop(c) ==
  /\ call[c].step = "drop"
  /\ Effect(call[c])
  /\ IF call[c].kind = "delete" /\ ~Present(call[c].old)
     THEN Refuse(c, "not_found") ELSE Goto(c, "unlink")
  /\ NoFault

(* What follows the removal of the object, whether it succeeds or not.     *)
AfterUnlink(c) ==
  IF call[c].kind = "delete" THEN Deleted(c) ELSE Goto(c, "reserve")

Unlink(c) ==
  /\ call[c].step = "unlink"
  /\ Effect(call[c])
  /\ AfterUnlink(c)
  /\ NoFault

(* reserve_ai_usage, then the extraction of the text and the chunks.       *)
Reserve(c) ==
  /\ call[c].step = "reserve"
  /\ \/ Refuse(c, "too_many")
     \/ Refuse(c, "bad_request")
     \/ Goto(c, "store")
  /\ NoFault /\ UNCHANGED tableVars

Store(c) ==
  /\ call[c].step = "store"
  /\ Effect(call[c])
  /\ Goto(c, "create")
  /\ NoFault

(* Mutated form: the object of a refused row is left.                      *)
NoCompensation(c) == Refuse(c, "error")

(* Mutated form: the insertion is repeated.                                *)
InsertAgain(c) == Goto(c, "create")

(* The row was refused: the object is removed before the error is raised.  *)
Compensate(c) == Goto(c, "undo")

Create(c) ==
  /\ call[c].step = "create"
  /\ \/ Effect(call[c]) /\ Goto(c, "embed")
     \/ ~Insertable(call[c]) /\ Compensate(c) /\ UNCHANGED tableVars
  /\ NoFault

Undo(c) ==
  /\ call[c].step = "undo"
  /\ Effect(call[c])
  /\ Refuse(c, "error")
  /\ NoFault

(* Mutated form: the provider is called outside the try block.             *)
EmbedUnguarded(c) ==
  /\ call[c].step = "embed"
  /\ Goto(c, "chunks") \/ Refuse(c, "error")
  /\ NoFault /\ UNCHANGED tableVars

(* The provider may fail.                                                  *)
Embed(c) ==
  /\ call[c].step = "embed"
  /\ Goto(c, "chunks") \/ Goto(c, "fail")
  /\ NoFault /\ UNCHANGED tableVars

CreateChunks(c) ==
  /\ call[c].step = "chunks"
  /\ \/ Effect(call[c]) /\ Goto(c, "complete")
     \/ ~Present(call[c].new) /\ Goto(c, "fail") /\ UNCHANGED tableVars
  /\ NoFault

(* _update_document_status raises when there is no row.                    *)
Complete(c) ==
  /\ call[c].step = "complete"
  /\ Effect(call[c])
  /\ Goto(c, IF Present(call[c].new) THEN "record" ELSE "fail")
  /\ NoFault

Fail(c) ==
  /\ call[c].step = "fail"
  /\ Effect(call[c])
  /\ Refuse(c, IF Present(call[c].new) THEN "error" ELSE "not_found")
  /\ NoFault

(* record_server_activity, whose errors are only logged.                   *)
Record(c) ==
  /\ call[c].step = "record"
  /\ Accept(c)
  /\ NoFault /\ UNCHANGED tableVars

-----------------------------------------------------------------------------
(* Faults.                                                                 *)

(* Mutated form: an upload goes on when the row could not be deleted.      *)
HandleIgnoresDrop(c) ==
  LET s == call[c].step IN
  \/ s = "drop" /\ Goto(c, "unlink")
  \/ s = "unlink" /\ AfterUnlink(c)
  \/ s = "create" /\ Compensate(c)
  \/ s \in {"embed", "chunks", "complete"} /\ Goto(c, "fail")
  \/ s \notin {"idle", "drop", "unlink", "create", "embed", "chunks", "complete"}
       /\ Refuse(c, "error")

(* Mutated form: the update to completed is only tried.                    *)
HandleTriesStatus(c) ==
  LET s == call[c].step IN
  \/ s = "create" /\ Compensate(c)
  \/ s = "complete" /\ Goto(c, "record")
  \/ s = "record" /\ Accept(c)
  \/ s \notin {"idle", "create", "complete", "record"} /\ Refuse(c, "error")

(* The handler of an exception that the next call raises.                  *)
Handle(c) ==
  LET s == call[c].step IN
  \/ s = "unlink" /\ AfterUnlink(c)
  \/ s = "create" /\ Compensate(c)
  \/ s \in {"embed", "chunks", "complete"} /\ Goto(c, "fail")
  \/ s = "record" /\ Accept(c)
  \/ /\ s \in {"access", "lookup", "count", "get", "drop", "reserve", "store",
               "undo", "fail"}
     /\ Refuse(c, "error")

Fault == faults < MaxFaults /\ faults' = faults + 1

Abandon(k) == orphans' = [orphans EXCEPT ![faults'] = k]

CallFails(c) ==
  /\ Fault
  /\ Handle(c)
  /\ UNCHANGED <<tableVars, used, orphans>>

(* The client gives up after its timeout: the call commits later or never. *)
CallTimesOut(c) ==
  /\ call[c].step \in Writes
  /\ Fault
  /\ Abandon(call[c])
  /\ Handle(c)
  /\ UNCHANGED <<tableVars, used>>

(* The process of the request ends: no handler runs.                       *)
Crash(c) ==
  /\ call[c].step # "idle"
  /\ Fault
  /\ Abandon(call[c])
  /\ Refuse(c, "error")
  /\ UNCHANGED <<tableVars, used>>

OrphanCommits(i) ==
  /\ Effect(orphans[i])
  /\ orphans' = [orphans EXCEPT ![i] = IdleCall]
  /\ UNCHANGED <<used, accepted, call, resp, faults>>

OrphanVanishes(i) ==
  /\ orphans[i].step # "idle"
  /\ orphans' = [orphans EXCEPT ![i] = IdleCall]
  /\ UNCHANGED <<tableVars, used, accepted, call, resp, faults>>

(* The notebook is deleted with its rows; the bucket is not touched.       *)
DeleteNotebook ==
  /\ notebook
  /\ notebook' = FALSE
  /\ DeleteRows(Docs)
  /\ UNCHANGED <<objects, used, accepted, call, resp, orphans, faults>>

-----------------------------------------------------------------------------
Init ==
  /\ notebook = TRUE
  /\ row      = [d \in Docs |-> "absent"]
  /\ content  = [d \in Docs |-> None]
  /\ chunked  = {}
  /\ objects  = {}
  /\ used     = {}
  /\ accepted = {}
  /\ call     = [c \in Clients |-> IdleCall]
  /\ resp     = [c \in Clients |-> NoResponse]
  /\ orphans  = [i \in 1 .. MaxFaults |-> IdleCall]
  /\ faults   = 0

Serve(c) ==
  \/ CheckAccess(c) \/ Lookup(c) \/ CountChunks(c) \/ GetDocument(c)
  \/ Drop(c) \/ Unlink(c) \/ Reserve(c) \/ Store(c) \/ Create(c) \/ Undo(c)
  \/ Embed(c) \/ CreateChunks(c) \/ Complete(c) \/ Fail(c) \/ Record(c)

Next ==
  \/ \E c \in Clients :
       Arrive(c) \/ Serve(c) \/ CallFails(c) \/ CallTimesOut(c) \/ Crash(c)
  \/ \E i \in 1 .. MaxFaults : OrphanCommits(i) \/ OrphanVanishes(i)
  \/ DeleteNotebook

(* Every call of a request ends, by its result or by its timeout.          *)
Fairness == \A c \in Clients : WF_vars(Serve(c))

Spec == Init /\ [][Next]_vars

FairSpec == Spec /\ Fairness

-----------------------------------------------------------------------------
(* Properties.                                                             *)

(* A document that is completed has its chunks and its object, whatever    *)
(* requests, late calls and crashes came before: search, which reads the   *)
(* chunks of completed documents, never finds a part of one.               *)
ReadyIsWhole ==
  \A d \in Docs : row[d] = "completed" => d \in chunked /\ d \in objects

(* A document whose upload was answered 201 is completed for as long as it *)
(* has a row: no late update of its status comes after the answer.         *)
AcceptedStaysReady ==
  \A d \in accepted : row[d] \in {"absent", "completed"}

(* The row of such a document is removed only by a deletion or with its    *)
(* notebook, never by an upload that takes it for a failed one.            *)
AcceptedIsKept ==
  [][\A d \in accepted :
       Present(d) /\ ~Present(d)' =>
         \/ ~notebook'
         \/ \E k \in {call[c] : c \in Clients}
                       \cup {orphans[i] : i \in 1 .. MaxFaults} :
              k.kind = "delete" /\ k.old = d]_vars

(* A document whose deletion was answered 200 has left no row and no chunk *)
(* and gets none later, although its upload may still be running.          *)
DeletedIsGone ==
  \A c \in Clients :
    resp[c].kind = "delete" /\ resp[c].code = "ok" =>
      ~Present(resp[c].doc) /\ resp[c].doc \notin chunked

(* Requests in service that work on document d.                            *)
WorkedOn(d) == \E c \in Clients : call[c].step # "idle" /\ d \in {call[c].new, call[c].old}

(* Without faults, and while the notebook exists, compensation is enough:  *)
(* what no request works on is a row, completed or failed, with its        *)
(* object, or nothing at all.                                              *)
NothingLeftBehind ==
  faults = 0 /\ notebook =>
    \A d \in Docs :
      \/ WorkedOn(d)
      \/ ~Present(d) /\ d \notin objects
      \/ row[d] \in {"completed", "failed"} /\ d \in objects

(* Every request is answered.                                              *)
RequestsAnswered ==
  \A c \in Clients : call[c].step # "idle" ~> call[c].step = "idle"

(* Unless a fault strikes, no document stays in processing.                *)
ProcessingEnds ==
  \A d \in Docs : row[d] = "processing" ~> row[d] # "processing" \/ faults > 0

(* The guide: extraction, chunks, embeddings and persistence happen before *)
(* the upload is answered.                                                 *)
UploadIsSynchronous ==
  \A c \in Clients :
    resp[c].kind = "upload" /\ resp[c].code = "ok" => resp[c].status = "completed"
=============================================================================
