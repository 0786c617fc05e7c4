----------------------------- MODULE ServicesProofs -----------------------------
(***************************************************************************)
(* Accounts, for any identities, clients, photos and numbers of faults;    *)
(* Chunking, of a text of any length; and, with StudyActivityProofs, what  *)
(* MCServices checks of the three together.                                *)
(***************************************************************************)
EXTENDS MCServices, StudyActivityProofs, SequenceTheorems

(* Everything that Supabase Auth answers is a code, or goes on.            *)
LEMMA AnswersAreCodes ==
  ASSUME NEW op \in Ops
  PROVE  Answers(op) \subseteq Codes \cup {"identity", "challenge", "message"}
<1>1. \A e \in Errors : ProviderError(op, e) \in Codes
  BY DEF Errors, ProviderError, Codes
<1>2. Refusals(op) \subseteq Codes
  BY <1>1 DEF Refusals
<1>3. Refusals("register") \subseteq Codes /\ Refusals("login") \subseteq Codes
  BY DEF Refusals, Errors, ProviderError, Codes
<1>4. Refusals("verify-otp") \subseteq Codes /\ Refusals("send-otp") \subseteq Codes
  BY DEF Refusals, Errors, ProviderError, Codes
<1>5. Refusals("forgot-password") \subseteq Codes /\ Refusals("update-password") \subseteq Codes
  BY DEF Refusals, Errors, ProviderError, Codes
<1>6. \A e \in Errors : ProviderError("logout", e) \in Codes
  BY DEF Errors, ProviderError, Codes
<1>7. SignOut \subseteq Codes \cup {"message"}
  BY <1>6 DEF SignOut, Codes
<1>8. GetUser(op) \subseteq Codes \cup {"identity"}
  BY <1>2 DEF GetUser, Codes
<1>9. ProviderAnswers(op) \subseteq Codes \cup {"identity", "challenge", "message"}
  BY <1>3, <1>4, <1>5, <1>7, <1>8
     DEF ProviderAnswers, SignUp, SignInWithPassword, SignInWithOtp, VerifyOtp,
         ResetPasswordForEmail, UpdateUserPassword, FormatAuthResponse, Codes
<1> QED
  BY <1>9 DEF Answers, Codes

LEMMA Move ==
  ASSUME AccountsTypeOK, NEW c \in Clients, NEW k \in Request, GoTo(c, k)
  PROVE  request' \in [Clients -> Request \cup {None}] /\ reply' \in Codes
BY DEF AccountsTypeOK, GoTo, Codes

LEMMA Reply ==
  ASSUME AccountsTypeOK, NEW c \in Clients, NEW code \in Codes, Answer(c, code)
  PROVE  request' \in [Clients -> Request \cup {None}] /\ reply' \in Codes
BY DEF AccountsTypeOK, Answer

(* Records that a request becomes.                                         *)
LEMMA Stepped ==
  ASSUME NEW k \in Request,
         NEW s \in {"lookup", "create", "row", "upload", "update", "discard",
                    "cleanup", "sign"}
  PROVE  /\ [k EXCEPT !.step = s] \in Request
         /\ \A p \in Photos \cup {0} : [k EXCEPT !.step = s, !.path = p] \in Request
         /\ \A p \in Photos \cup {0} : [k EXCEPT !.step = s, !.previous = p] \in Request
         /\ \A p, q \in Photos \cup {0} :
              [k EXCEPT !.step = s, !.path = p, !.previous = q] \in Request
         /\ \A code \in Codes : [k EXCEPT !.step = s, !.code = code] \in Request
BY DEF Request

LEMMA Faulty ==
  ASSUME AccountsTypeOK, NEW l \in Late, TimesOut(l)
  PROVE  /\ late' \subseteq Late /\ faults' \in 0 .. MaxFaults
         /\ doubtful' \subseteq Photos
         /\ UNCHANGED rows
<1>1. UNCHANGED rows /\ late' \subseteq Late
  BY DEF AccountsTypeOK, TimesOut
<1>2. faults' = faults + 1 /\ faults < MaxFaults /\ faults \in 0 .. MaxFaults
  BY DEF AccountsTypeOK, TimesOut
<1>3. faults' \in 0 .. MaxFaults
  BY <1>2, AccountsAssumption
<1>4. l.path \in Photos \cup {0}
  BY DEF Late
<1>5. doubtful \subseteq Photos /\ doubtful' \subseteq doubtful \cup ({l.path} \ {0})
  BY DEF AccountsTypeOK, TimesOut
<1> QED
  BY <1>1, <1>3, <1>4, <1>5

LEMMA Faultless ==
  ASSUME AccountsTypeOK, NoFault
  PROVE  /\ late' \subseteq Late /\ faults' \in 0 .. MaxFaults
         /\ doubtful' \subseteq Photos
BY DEF AccountsTypeOK, NoFault

LEMMA RowsKept ==
  ASSUME AccountsTypeOK, UNCHANGED <<rows, nPhotos>>
  PROVE  /\ profile' \in [Identities -> {"absent", "active", "inactive"}]
         /\ photo' \in [Identities -> Photos \cup {0}]
         /\ objects' \subseteq 1 .. nPhotos'
         /\ nPhotos' \in 0 .. MaxPhotos
BY DEF AccountsTypeOK, rows

LEMMA Handled ==
  ASSUME AccountsTypeOK, NEW c \in Clients, request[c] \in Request, Handle(c)
  PROVE  request' \in [Clients -> Request \cup {None}] /\ reply' \in Codes
<1>1. [request[c] EXCEPT !.step = IF request[c].op = "edit" THEN "update" ELSE "row"]
        \in Request
  BY Stepped
<1>2. "ok" \in Codes
  BY DEF Codes
<1> QED
  BY <1>1, <1>2, Move, Reply DEF Handle

-----------------------------------------------------------------------------
(* Types.                                                                  *)

LEMMA TypeAtFirst == AccountsInit => AccountsTypeOK
<1>1. AccountsInit => nPhotos \in 0 .. MaxPhotos /\ faults \in 0 .. MaxFaults
  BY AccountsAssumption DEF AccountsInit
<1>2. "none" \in Codes
  BY DEF Codes
<1> QED
  BY <1>1, <1>2 DEF AccountsInit, AccountsTypeOK

LEMMA TypeArrives ==
  ASSUME AccountsTypeOK, NEW c \in Clients, NEW u \in Identities,
         NEW op \in Ops, Arrive(c, u, op)
  PROVE  AccountsTypeOK'
<1>1. UNCHANGED <<rows, nPhotos>> /\ NoFault
  BY DEF Arrive
<1> DEFINE k == [op |-> op, user |-> u, step |-> "lookup", path |-> 0,
                 previous |-> 0, code |-> "none"]
<1>2. k \in Request
  BY DEF Request, Codes
<1>3. PICK a \in Answers(op) :
        \/ a = "identity" /\ GoTo(c, k)
        \/ a \in {"challenge", "message"} /\ Answer(c, "ok")
        \/ a \notin {"identity", "challenge", "message"} /\ Answer(c, a)
  BY DEF Arrive
<1>4. a \notin {"identity", "challenge", "message"} => a \in Codes
  BY AnswersAreCodes
<1>5. "ok" \in Codes
  BY DEF Codes
<1>6. request' \in [Clients -> Request \cup {None}] /\ reply' \in Codes
  BY <1>2, <1>3, <1>4, <1>5, Move, Reply
<1> QED
  BY <1>1, <1>6, Faultless, RowsKept DEF AccountsTypeOK

(* What a step of a request reads of its record.                           *)
LEMMA Standing ==
  ASSUME AccountsTypeOK, NEW c \in Clients, request[c] # None
  PROVE  /\ request[c] \in Request
         /\ request[c].op \in Ops /\ request[c].user \in Identities
         /\ request[c].path \in Photos \cup {0}
         /\ request[c].previous \in Photos \cup {0}
         /\ request[c].code \in Codes
         /\ photo[request[c].user] \in Photos \cup {0}
<1>1. request[c] \in Request
  BY DEF AccountsTypeOK
<1>2. request[c].user \in Identities
  BY <1>1 DEF Request
<1>3. photo[request[c].user] \in Photos \cup {0}
  BY <1>2 DEF AccountsTypeOK
<1> QED
  BY <1>1, <1>3 DEF Request

LEMMA TypeLooksUp ==
  ASSUME AccountsTypeOK, NEW c \in Clients, Lookup(c)
  PROVE  AccountsTypeOK'
<1>1. UNCHANGED <<rows, nPhotos>> /\ NoFault /\ request[c] # None
  BY DEF Lookup, At
<1>2. request[c] \in Request
  BY <1>1, Standing
<1>3. [request[c] EXCEPT !.step = "create"] \in Request
  BY <1>2, Stepped
<1>4. {"forbidden", "auth_error"} \subseteq Codes
  BY DEF Codes
<1>5. \/ Handle(c) \/ Answer(c, "forbidden") \/ Answer(c, "auth_error")
      \/ GoTo(c, [request[c] EXCEPT !.step = "create"])
  BY DEF Lookup
<1>6. request' \in [Clients -> Request \cup {None}] /\ reply' \in Codes
  BY <1>2, <1>3, <1>4, <1>5, Move, Reply, Handled
<1> QED
  BY <1>1, <1>6, Faultless, RowsKept DEF AccountsTypeOK

LEMMA Inserted ==
  ASSUME AccountsTypeOK, NEW u \in Identities, InsertProfile(u), UNCHANGED nPhotos
  PROVE  /\ profile' \in [Identities -> {"absent", "active", "inactive"}]
         /\ photo' \in [Identities -> Photos \cup {0}]
         /\ objects' \subseteq 1 .. nPhotos'
         /\ nPhotos' \in 0 .. MaxPhotos
BY DEF AccountsTypeOK, InsertProfile

LEMMA TypeCreates ==
  ASSUME AccountsTypeOK, NEW c \in Clients, CreateProfile(c)
  PROVE  AccountsTypeOK'
<1> DEFINE u == request[c].user
<1> DEFINE l == [kind |-> "profile", user |-> u, path |-> 0]
<1>1. request[c] # None /\ UNCHANGED nPhotos
  BY DEF CreateProfile, At
<1>2. request[c] \in Request /\ u \in Identities
  BY <1>1, Standing
<1>3. l \in Late /\ "auth_error" \in Codes
  BY <1>2 DEF Late, Codes
<1>4. CASE InsertProfile(u) /\ Handle(c) /\ NoFault
  BY <1>1, <1>2, <1>4, Inserted, Handled, Faultless DEF AccountsTypeOK
<1>5. CASE UNCHANGED rows /\ Answer(c, "auth_error") /\ NoFault
  <2>1. UNCHANGED <<rows, nPhotos>>
    BY <1>1, <1>5
  <2> QED
    BY <2>1, <1>3, <1>5, RowsKept, Reply, Faultless DEF AccountsTypeOK
<1>6. CASE TimesOut(l) /\ Answer(c, "auth_error")
  <2>1. UNCHANGED <<rows, nPhotos>>
    BY <1>1, <1>3, <1>6, Faulty
  <2> QED
    BY <2>1, <1>3, <1>6, RowsKept, Reply, Faulty DEF AccountsTypeOK
<1> QED
  BY <1>4, <1>5, <1>6 DEF CreateProfile

LEMMA TypeReads ==
  ASSUME AccountsTypeOK, NEW c \in Clients, ReadRow(c)
  PROVE  AccountsTypeOK'
<1> DEFINE k == request[c]
<1> DEFINE p == photo[k.user]
<1>1. k # None /\ UNCHANGED rows /\ NoFault
  BY DEF ReadRow, At
<1>2. k \in Request /\ p \in Photos \cup {0} /\ 0 \in Photos \cup {0}
  BY <1>1, Standing
<1>3. nPhotos \in 0 .. MaxPhotos
  BY DEF AccountsTypeOK
<1>4. {"not_found", "bad_request", "server_error"} \subseteq Codes
  BY DEF Codes
<1>5. CASE /\ nPhotos < MaxPhotos /\ nPhotos' = nPhotos + 1
           /\ GoTo(c, [k EXCEPT !.step = "upload", !.path = nPhotos + 1, !.previous = p])
  <2>1. nPhotos + 1 \in Photos /\ nPhotos' \in 0 .. MaxPhotos /\ nPhotos <= nPhotos'
    BY <1>3, <1>5, AccountsAssumption DEF Photos
  <2>2. [k EXCEPT !.step = "upload", !.path = nPhotos + 1, !.previous = p] \in Request
    BY <1>2, <2>1, Stepped
  <2>3. request' \in [Clients -> Request \cup {None}] /\ reply' \in Codes
    BY <1>5, <2>2, Move
  <2>4. objects' \subseteq 1 .. nPhotos'
    BY <1>1, <1>3, <2>1 DEF AccountsTypeOK, rows
  <2> QED
    BY <1>1, <2>1, <2>3, <2>4, Faultless DEF AccountsTypeOK, rows
<1>6. CASE /\ UNCHANGED nPhotos
           /\ \/ GoTo(c, [k EXCEPT !.step = "update", !.previous = p])
              \/ GoTo(c, [k EXCEPT !.step = "sign", !.path = p])
              \/ Answer(c, "not_found") \/ Answer(c, "bad_request")
              \/ Answer(c, "server_error")
  <2>1. [k EXCEPT !.step = "update", !.previous = p] \in Request
    BY <1>2, Stepped
  <2>2. [k EXCEPT !.step = "sign", !.path = p] \in Request
    BY <1>2, Stepped
  <2>3. request' \in [Clients -> Request \cup {None}] /\ reply' \in Codes
    BY <1>4, <1>6, <2>1, <2>2, Move, Reply
  <2> QED
    BY <1>1, <1>6, <2>3, RowsKept, Faultless DEF AccountsTypeOK
<1> QED
  BY <1>5, <1>6 DEF ReadRow

-----------------------------------------------------------------------------
(* The invariant.  A photo is pending until its row is set for the first   *)
(* time, or this fails: until then nothing else knows of it.  It is doomed *)
(* once it is to be removed: from then on no row names it any more.        *)

Uses(d, p) == request[d] # None /\ p \in {request[d].path, request[d].previous}

Pending(d) ==
  /\ request[d] # None
  /\ request[d].op = "upload-photo" /\ request[d].step \in {"upload", "update"}

Doomed(p) ==
  \/ \E d \in Clients :
       /\ request[d] # None
       /\ \/ request[d].step = "discard" /\ request[d].path = p
          \/ request[d].step = "cleanup" /\ request[d].previous = p /\ request[d].path # p
  \/ \E l \in late : l.kind = "remove" /\ l.path = p

(* The user is the one that the photo is for.                              *)
Claim(u, p) ==
  \/ photo[u] = p
  \/ \E d \in Clients : Uses(d, p) /\ request[d].user = u
  \/ \E l \in late : l.kind = "row" /\ l.user = u /\ l.path = p

Known ==
  /\ \A u \in Identities : photo[u] <= nPhotos
  /\ \A d \in Clients : request[d] # None =>
       request[d].path <= nPhotos /\ request[d].previous <= nPhotos
  /\ \A l \in late : l.path <= nPhotos

Shaped(k) ==
  /\ k.step \in {"lookup", "create", "row"} => k.path = 0 /\ k.previous = 0
  /\ k.step = "upload" => k.op = "upload-photo"
  /\ k.step = "update" /\ k.op # "upload-photo" => k.path = 0

Shape ==
  /\ \A d \in Clients : request[d] # None => Shaped(request[d])
  /\ \A l \in late : l.kind = "store" => l.path # 0

Unknown(d, p) ==
  /\ p # 0 /\ request[d].previous # p
  /\ \A u \in Identities : photo[u] # p
  /\ \A e \in Clients \ {d} : ~Uses(e, p)
  /\ \A l \in late : l.kind \in {"row", "remove"} => l.path # p
  /\ request[d].step = "update" => p \in objects

PendingIsUnknown ==
  \A d \in Clients, p \in Photos \cup {0} :
    Pending(d) /\ request[d].path = p => Unknown(d, p)

OwnedOnce ==
  \A u, v \in Identities, p \in Photos : Claim(u, p) /\ Claim(v, p) => u = v

DoomedIsGone ==
  \A u \in Identities, p \in Photos : Doomed(p) /\ photo[u] = p => p \in doubtful

LateIsDoubtful ==
  \A l \in late : l.kind = "row" => l.path \in doubtful \cup {0}

PhotoInv ==
  /\ Known /\ Shape /\ PendingIsUnknown /\ OwnedOnce /\ DoomedIsGone
  /\ LateIsDoubtful /\ PhotoIsStored

AccountsInv == AccountsTypeOK /\ PhotoInv

-----------------------------------------------------------------------------

LEMMA Stored ==
  ASSUME AccountsTypeOK, NEW p \in Photos, p <= nPhotos, Store(p), UNCHANGED nPhotos
  PROVE  /\ profile' \in [Identities -> {"absent", "active", "inactive"}]
         /\ photo' \in [Identities -> Photos \cup {0}]
         /\ objects' \subseteq 1 .. nPhotos'
         /\ nPhotos' \in 0 .. MaxPhotos
<1>1. nPhotos \in 0 .. MaxPhotos /\ objects \subseteq 1 .. nPhotos
  BY DEF AccountsTypeOK
<1>2. p \in 1 .. nPhotos
  BY <1>1, AccountsAssumption DEF Photos
<1> QED
  BY <1>1, <1>2 DEF AccountsTypeOK, Store

LEMMA Removed ==
  ASSUME AccountsTypeOK, NEW p, RemoveObject(p), UNCHANGED nPhotos
  PROVE  /\ profile' \in [Identities -> {"absent", "active", "inactive"}]
         /\ photo' \in [Identities -> Photos \cup {0}]
         /\ objects' \subseteq 1 .. nPhotos'
         /\ nPhotos' \in 0 .. MaxPhotos
BY DEF AccountsTypeOK, RemoveObject

LEMMA PhotoSet ==
  ASSUME AccountsTypeOK, NEW u \in Identities, NEW p \in Photos \cup {0},
         SetPhoto(u, p), UNCHANGED nPhotos
  PROVE  /\ profile' \in [Identities -> {"absent", "active", "inactive"}]
         /\ photo' \in [Identities -> Photos \cup {0}]
         /\ objects' \subseteq 1 .. nPhotos'
         /\ nPhotos' \in 0 .. MaxPhotos
BY DEF AccountsTypeOK, SetPhoto

LEMMA TypePhotoUploads ==
  ASSUME AccountsInv, NEW c \in Clients, Upload(c)
  PROVE  AccountsTypeOK'
<1> DEFINE k == request[c]
<1> DEFINE l == [kind |-> "store", user |-> k.user, path |-> k.path]
<1>1. k # None /\ k.step = "upload" /\ UNCHANGED nPhotos /\ AccountsTypeOK
  BY DEF Upload, At, AccountsInv
<1>2. k \in Request /\ k.path \in Photos \cup {0} /\ k.user \in Identities
  BY <1>1, Standing
<1>3. Pending(c)
  BY <1>1 DEF AccountsInv, PhotoInv, Shape, Shaped, Pending
<1>4. k.path # 0 /\ k.path <= nPhotos
  BY <1>1, <1>2, <1>3 DEF AccountsInv, PhotoInv, PendingIsUnknown, Unknown, Known
<1>5. k.path \in Photos
  BY <1>2, <1>4
<1>6. l \in Late /\ "server_error" \in Codes
  BY <1>2 DEF Late, Codes
<1>7. CASE Store(k.path) /\ GoTo(c, [k EXCEPT !.step = "update"]) /\ NoFault
  <2>1. [k EXCEPT !.step = "update"] \in Request
    BY <1>2, Stepped
  <2> QED
    BY <1>1, <1>4, <1>5, <1>7, <2>1, Stored, Move, Faultless DEF AccountsTypeOK
<1>8. CASE UNCHANGED rows /\ Answer(c, "server_error") /\ NoFault
  <2>1. UNCHANGED <<rows, nPhotos>>
    BY <1>1, <1>8
  <2> QED
    BY <1>1, <1>6, <1>8, <2>1, RowsKept, Reply, Faultless DEF AccountsTypeOK
<1>9. CASE TimesOut(l) /\ Answer(c, "server_error")
  <2>1. UNCHANGED <<rows, nPhotos>>
    BY <1>1, <1>6, <1>9, Faulty
  <2> QED
    BY <1>1, <1>6, <1>9, <2>1, RowsKept, Reply, Faulty DEF AccountsTypeOK
<1> QED
  BY <1>7, <1>8, <1>9 DEF Upload

LEMMA Failed ==
  ASSUME AccountsTypeOK, NEW c \in Clients, request[c] # None, NEW code \in Codes,
         Fails(c, code)
  PROVE  request' \in [Clients -> Request \cup {None}] /\ reply' \in Codes
<1>1. [request[c] EXCEPT !.step = "discard", !.code = code] \in Request
  BY Standing, Stepped
<1> QED
  BY <1>1, Move, Reply DEF Fails

LEMMA TypeUpdates ==
  ASSUME AccountsTypeOK, NEW c \in Clients, UpdateRow(c)
  PROVE  AccountsTypeOK'
<1> DEFINE k == request[c]
<1> DEFINE l == [kind |-> "row", user |-> k.user, path |-> k.path]
<1>1. k # None /\ UNCHANGED nPhotos
  BY DEF UpdateRow, At
<1>2. k \in Request /\ k.path \in Photos \cup {0} /\ k.user \in Identities
  BY <1>1, Standing
<1>3. l \in Late /\ {"ok", "bad_request", "not_found", "server_error"} \subseteq Codes
  BY <1>2 DEF Late, Codes
<1>4. CASE UNCHANGED rows /\ NoFault /\ (Answer(c, "ok") \/ Answer(c, "bad_request"))
  <2>1. UNCHANGED <<rows, nPhotos>>
    BY <1>1, <1>4
  <2> QED
    BY <1>3, <1>4, <2>1, RowsKept, Reply, Faultless DEF AccountsTypeOK
<1>5. CASE /\ SetPhoto(k.user, k.path) /\ NoFault
           /\ GoTo(c, [k EXCEPT !.step = "cleanup"])
  <2>1. [k EXCEPT !.step = "cleanup"] \in Request
    BY <1>2, Stepped
  <2> QED
    BY <1>1, <1>2, <1>5, <2>1, PhotoSet, Move, Faultless DEF AccountsTypeOK
<1>6. CASE /\ UNCHANGED rows /\ NoFault
           /\ Fails(c, "not_found") \/ Fails(c, "server_error")
  <2>1. UNCHANGED <<rows, nPhotos>>
    BY <1>1, <1>6
  <2> QED
    BY <1>1, <1>3, <1>6, <2>1, RowsKept, Failed, Faultless DEF AccountsTypeOK
<1>7. CASE TimesOut(l) /\ Fails(c, "server_error")
  <2>1. UNCHANGED <<rows, nPhotos>>
    BY <1>1, <1>3, <1>7, Faulty
  <2> QED
    BY <1>1, <1>3, <1>7, <2>1, RowsKept, Failed, Faulty DEF AccountsTypeOK
<1> QED
  BY <1>4, <1>5, <1>6, <1>7 DEF UpdateRow

(* Rows, objects and faults after an object was removed, or not.           *)
LEMMA Deleted ==
  ASSUME AccountsTypeOK, NEW u \in Identities, NEW p \in Photos \cup {0},
         UNCHANGED nPhotos,
         DeleteBestEffort(u, p) \/ (UNCHANGED rows /\ NoFault)
  PROVE  /\ profile' \in [Identities -> {"absent", "active", "inactive"}]
         /\ photo' \in [Identities -> Photos \cup {0}]
         /\ objects' \subseteq 1 .. nPhotos'
         /\ nPhotos' \in 0 .. MaxPhotos
         /\ late' \subseteq Late /\ faults' \in 0 .. MaxFaults
         /\ doubtful' \subseteq Photos
<1> DEFINE l == [kind |-> "remove", user |-> u, path |-> p]
<1>1. l \in Late
  BY DEF Late
<1>2. CASE RemoveObject(p) /\ NoFault
  BY <1>2, Removed, Faultless
<1>3. CASE UNCHANGED rows /\ NoFault
  <2>1. UNCHANGED <<rows, nPhotos>>
    BY <1>3
  <2> QED
    BY <1>3, <2>1, RowsKept, Faultless
<1>4. CASE TimesOut(l)
  <2>1. UNCHANGED <<rows, nPhotos>>
    BY <1>1, <1>4, Faulty
  <2> QED
    BY <1>1, <1>4, <2>1, RowsKept, Faulty
<1> QED
  BY <1>2, <1>3, <1>4 DEF DeleteBestEffort

LEMMA TypeDiscards ==
  ASSUME AccountsTypeOK, NEW c \in Clients, Discard(c)
  PROVE  AccountsTypeOK'
<1>1. request[c] # None /\ UNCHANGED nPhotos
  BY DEF Discard, At
<1>2. request[c].user \in Identities /\ request[c].path \in Photos \cup {0}
      /\ request[c].code \in Codes
  BY <1>1, Standing
<1>3. DeleteBestEffort(request[c].user, request[c].path) /\ Answer(c, request[c].code)
  BY DEF Discard
<1> QED
  BY <1>1, <1>2, <1>3, Deleted, Reply DEF AccountsTypeOK

LEMMA TypeCleansUp ==
  ASSUME AccountsTypeOK, NEW c \in Clients, Cleanup(c)
  PROVE  AccountsTypeOK'
<1> DEFINE k == request[c]
<1>1. k # None /\ UNCHANGED nPhotos
  BY DEF Cleanup, At
<1>2. k \in Request /\ k.user \in Identities /\ k.previous \in Photos \cup {0}
  BY <1>1, Standing
<1>3. DeleteBestEffort(k.user, k.previous) \/ (UNCHANGED rows /\ NoFault)
  BY DEF Cleanup
<1>4. [k EXCEPT !.step = "sign"] \in Request /\ "ok" \in Codes
  BY <1>2, Stepped DEF Codes
<1>5. request' \in [Clients -> Request \cup {None}] /\ reply' \in Codes
  BY <1>4, Move, Reply DEF Cleanup, AfterCleanup
<1> QED
  BY <1>1, <1>2, <1>3, <1>5, Deleted DEF AccountsTypeOK

LEMMA TypeSigns ==
  ASSUME AccountsTypeOK, NEW c \in Clients, SignUrl(c)
  PROVE  AccountsTypeOK'
<1>1. UNCHANGED <<rows, nPhotos>> /\ NoFault
  BY DEF SignUrl
<1>2. Answer(c, "ok") \/ Answer(c, "bad_request")
  BY DEF SignUrl
<1>3. {"ok", "bad_request"} \subseteq Codes
  BY DEF Codes
<1> QED
  BY <1>1, <1>2, <1>3, Faultless, RowsKept, Reply DEF AccountsTypeOK

LEMMA TypeCarriesOut ==
  ASSUME AccountsInv, NEW l \in late, CarryOut(l)
  PROVE  AccountsTypeOK'
<1>1. AccountsTypeOK /\ l \in Late
  BY DEF AccountsInv, AccountsTypeOK
<1>2. l.user \in Identities /\ l.path \in Photos \cup {0}
      /\ l.kind \in {"profile", "row", "store", "remove"}
  BY <1>1 DEF Late
<1>3. l.path <= nPhotos /\ (l.kind = "store" => l.path # 0)
  BY DEF AccountsInv, PhotoInv, Known, Shape
<1>4. late' \subseteq late /\ reply' = "none" /\ UNCHANGED <<nPhotos, request, faults, doubtful>>
  BY DEF CarryOut
<1>5. UNCHANGED nPhotos /\ reply' \in Codes
  BY <1>4 DEF Codes
<1>6. \/ InsertProfile(l.user)
      \/ SetPhoto(l.user, l.path)
      \/ l.kind = "store" /\ Store(l.path)
      \/ RemoveObject(l.path)
  BY <1>2 DEF CarryOut
<1>7. l.kind = "store" => l.path \in Photos
  BY <1>2, <1>3
<1>8. /\ profile' \in [Identities -> {"absent", "active", "inactive"}]
      /\ photo' \in [Identities -> Photos \cup {0}]
      /\ objects' \subseteq 1 .. nPhotos'
      /\ nPhotos' \in 0 .. MaxPhotos
  BY <1>1, <1>2, <1>3, <1>5, <1>6, <1>7, Inserted, PhotoSet, Stored, Removed
<1> QED
  BY <1>1, <1>4, <1>5, <1>8 DEF AccountsTypeOK

LEMMA TypeByOthers ==
  ASSUME AccountsTypeOK,
         \/ \E l \in late : Lose(l)
         \/ \E u \in Identities : SetStatus(u)
         \/ UNCHANGED accountVars
  PROVE  AccountsTypeOK'
<1>1. "none" \in Codes
  BY DEF Codes
<1>2. ASSUME NEW l \in late, Lose(l) PROVE AccountsTypeOK'
  BY <1>1, <1>2 DEF AccountsTypeOK, Lose, rows
<1>3. ASSUME NEW u \in Identities, SetStatus(u) PROVE AccountsTypeOK'
  BY <1>1, <1>3 DEF AccountsTypeOK, SetStatus, NoFault
<1>4. CASE UNCHANGED accountVars
  BY <1>4 DEF AccountsTypeOK, accountVars, rows
<1> QED
  BY <1>2, <1>3, <1>4

-----------------------------------------------------------------------------
(* Most steps are quiet: rows name the same photos, no photo is doomed or  *)
(* pending that was not, and only a doomed one is removed.                 *)

Kin(d, k) ==
  \/ k = None
  \/ /\ k.path \in {0, photo[k.user]}
        \/ (request[d] # None /\ k.path = request[d].path /\ k.user = request[d].user)
     /\ k.previous \in {0, photo[k.user]}
        \/ (request[d] # None /\ k.previous = request[d].previous /\ k.user = request[d].user)
     /\ k.op = "upload-photo" /\ k.step \in {"upload", "update"} =>
          /\ Pending(d) /\ k.path = request[d].path /\ k.previous = request[d].previous
          /\ k.step = "update" => k.path \in objects'
     /\ k.step \notin {"discard", "cleanup"}
     /\ k.user \in Identities
     /\ Shaped(k)

QuietLate(l) ==
  \/ l \in late
  \/ /\ l.path <= nPhotos
     /\ \/ l.kind = "profile"
        \/ l.kind = "store" /\ l.path # 0
        \/ l.kind = "row" /\ l.path = 0
        \/ l.kind = "remove" /\ Doomed(l.path)

Quiet ==
  /\ photo' = photo /\ nPhotos' = nPhotos /\ doubtful \subseteq doubtful'
  /\ \A d \in Clients : request'[d] = request[d] \/ Kin(d, request'[d])
  /\ \A l \in late' : QuietLate(l)
  /\ \A p \in objects \ objects' : Doomed(p)

(* A photo that is pending is not doomed.                                  *)
LEMMA PendingIsNotDoomed ==
  ASSUME AccountsInv, NEW d \in Clients, Pending(d)
  PROVE  ~Doomed(request[d].path)
<1> DEFINE p == request[d].path
<1>1. p \in Photos \cup {0}
  BY Standing DEF AccountsInv, Pending
<1>. HIDE DEF p
<1>3. /\ \A e \in Clients \ {d} : ~Uses(e, p)
      /\ \A l \in late : l.kind = "remove" => l.path # p
  BY <1>1 DEF p, AccountsInv, PhotoInv, PendingIsUnknown, Unknown
<1>2. request[d].step \notin {"discard", "cleanup"}
  BY DEF Pending
<1> QED
  BY <1>2, <1>3 DEF p, Doomed, Uses

LEMMA QuietUses ==
  ASSUME AccountsInv, Quiet, NEW d \in Clients, NEW p \in Photos, Uses(d, p)'
  PROVE  /\ request'[d].user \in Identities
         /\ \/ photo[request'[d].user] = p
            \/ Uses(d, p) /\ request[d].user = request'[d].user
<1>1. request'[d] # None /\ p \in {request'[d].path, request'[d].previous}
  BY DEF Uses
<1>2. p # 0
  BY DEF Photos
<1>3. CASE request'[d] = request[d]
  BY <1>1, <1>3, Standing DEF Uses, AccountsInv
<1>4. CASE Kin(d, request'[d])
  BY <1>1, <1>2, <1>4 DEF Kin, Uses
<1> QED
  BY <1>3, <1>4 DEF Quiet

LEMMA QuietDoomed ==
  ASSUME AccountsInv, Quiet, NEW p, Doomed(p)'
  PROVE  Doomed(p)
<1>1. CASE \E l \in late' : l.kind = "remove" /\ l.path = p
  BY <1>1 DEF Quiet, QuietLate, Doomed
<1>2. ASSUME NEW d \in Clients, request'[d] # None,
             \/ request'[d].step = "discard" /\ request'[d].path = p
             \/ /\ request'[d].step = "cleanup" /\ request'[d].previous = p
                /\ request'[d].path # p
      PROVE  Doomed(p)
  <2>1. ~Kin(d, request'[d])
    BY <1>2 DEF Kin
  <2>2. request'[d] = request[d]
    BY <2>1 DEF Quiet
  <2> QED
    BY <1>2, <2>2 DEF Doomed
<1> QED
  BY <1>1, <1>2 DEF Doomed

LEMMA QuietPending ==
  ASSUME AccountsInv, Quiet, NEW d \in Clients, Pending(d)'
  PROVE  /\ Pending(d) /\ request'[d].path = request[d].path
         /\ request'[d].previous = request[d].previous
         /\ request'[d].step = "update" =>
              request[d].step = "update" \/ request'[d].path \in objects'
<1>1. CASE request'[d] = request[d]
  BY <1>1 DEF Pending
<1>2. CASE Kin(d, request'[d])
  BY <1>2 DEF Kin, Pending
<1> QED
  BY <1>1, <1>2 DEF Quiet

LEMMA QuietClaim ==
  ASSUME AccountsInv, Quiet, NEW u \in Identities, NEW p \in Photos, Claim(u, p)'
  PROVE  Claim(u, p)
<1>1. CASE photo'[u] = p
  BY <1>1 DEF Quiet, Claim
<1>2. CASE \E d \in Clients : Uses(d, p)' /\ request'[d].user = u
  BY <1>2, QuietUses DEF Claim
<1>3. CASE \E l \in late' : l.kind = "row" /\ l.user = u /\ l.path = p
  <2>1. p # 0
    BY DEF Photos
  <2> QED
    BY <1>3, <2>1 DEF Quiet, QuietLate, Claim
<1> QED
  BY <1>1, <1>2, <1>3 DEF Claim

LEMMA QuietInv ==
  ASSUME AccountsInv, Quiet, AccountsTypeOK'
  PROVE  AccountsInv'
<1>1. Known'
  <2>1. \A u \in Identities : photo'[u] <= nPhotos'
    BY DEF AccountsInv, PhotoInv, Known, Quiet
  <2>2. \A l \in late' : l.path <= nPhotos'
    BY DEF AccountsInv, PhotoInv, Known, Quiet, QuietLate
  <2>3. ASSUME NEW d \in Clients, request'[d] # None
        PROVE  request'[d].path <= nPhotos' /\ request'[d].previous <= nPhotos'
    <3>1. nPhotos' = nPhotos /\ 0 <= nPhotos
      BY DEF Quiet, AccountsInv, AccountsTypeOK
    <3>2. CASE request'[d] = request[d]
      BY <2>3, <3>1, <3>2 DEF AccountsInv, PhotoInv, Known
    <3>3. CASE Kin(d, request'[d])
      BY <2>3, <3>1, <3>3 DEF Kin, AccountsInv, PhotoInv, Known
    <3> QED
      BY <3>2, <3>3 DEF Quiet
  <2> QED
    BY <2>1, <2>2, <2>3 DEF Known
<1>2. Shape'
  <2>1. \A l \in late' : l.kind = "store" => l.path # 0
    BY DEF AccountsInv, PhotoInv, Shape, Quiet, QuietLate
  <2>2. \A d \in Clients : request'[d] # None => Shaped(request'[d])
    BY DEF AccountsInv, PhotoInv, Shape, Quiet, Kin
  <2> QED
    BY <2>1, <2>2 DEF Shape, Shaped
<1>3. PendingIsUnknown'
  <2> SUFFICES ASSUME NEW d \in Clients, NEW p \in Photos \cup {0},
                      Pending(d)', request'[d].path = p
               PROVE  Unknown(d, p)'
    BY DEF PendingIsUnknown
  <2>1. /\ Pending(d) /\ request[d].path = p
        /\ request'[d].previous = request[d].previous
        /\ request'[d].step = "update" =>
             request[d].step = "update" \/ p \in objects'
    BY QuietPending
  <2>2. Unknown(d, p)
    BY <2>1 DEF AccountsInv, PhotoInv, PendingIsUnknown
  <2>3. ~Doomed(p)
    BY <2>1, PendingIsNotDoomed
  <2>4. p \in Photos
    BY <2>2 DEF Unknown
  <2>5. \A e \in Clients \ {d} : ~Uses(e, p)'
    BY <2>2, <2>4, QuietUses DEF Unknown
  <2>6. \A l \in late' : l.kind \in {"row", "remove"} => l.path # p
    BY <2>2, <2>3 DEF Quiet, QuietLate, Unknown
  <2>7. \A u \in Identities : photo'[u] # p
    BY <2>2 DEF Quiet, Unknown
  <2>8. request'[d].step = "update" => p \in objects'
    BY <2>1, <2>2, <2>3 DEF Quiet, Unknown
  <2>9. request'[d].previous # p
    BY <2>1, <2>2 DEF Unknown
  <2> QED
    BY <2>4, <2>5, <2>6, <2>7, <2>8, <2>9 DEF Unknown, Photos
<1>4. OwnedOnce'
  BY QuietClaim DEF OwnedOnce, AccountsInv, PhotoInv
<1>5. DoomedIsGone'
  BY QuietDoomed DEF DoomedIsGone, AccountsInv, PhotoInv, Quiet
<1>6. LateIsDoubtful'
  BY DEF LateIsDoubtful, AccountsInv, PhotoInv, Quiet, QuietLate
<1>7. PhotoIsStored'
  <2> SUFFICES ASSUME NEW u \in Identities PROVE photo'[u] \in objects' \cup doubtful' \cup {0}
    BY DEF PhotoIsStored
  <2>1. photo'[u] = photo[u] /\ photo[u] \in objects \cup doubtful \cup {0}
    BY DEF Quiet, AccountsInv, PhotoInv, PhotoIsStored
  <2>2. Doomed(photo[u]) => photo[u] \in doubtful \cup {0}
    BY DEF AccountsInv, AccountsTypeOK, PhotoInv, DoomedIsGone
  <2> QED
    BY <2>1, <2>2 DEF Quiet
<1> QED
  BY <1>1, <1>2, <1>3, <1>4, <1>5, <1>6, <1>7 DEF AccountsInv, PhotoInv

(* One request moves on, or is answered.                                   *)
LEMMA QuietMove ==
  ASSUME AccountsInv, NEW c \in Clients, NEW k, Kin(c, k),
         request' = [request EXCEPT ![c] = k],
         photo' = photo, nPhotos' = nPhotos, doubtful \subseteq doubtful',
         \A l \in late' : QuietLate(l),
         \A p \in objects \ objects' : Doomed(p)
  PROVE  Quiet
<1>1. \A d \in Clients : request'[d] = request[d] \/ d = c
  BY DEF AccountsInv, AccountsTypeOK
<1>2. request'[c] = k
  BY DEF AccountsInv, AccountsTypeOK
<1> QED
  BY <1>1, <1>2 DEF Quiet

(* The same when no row, object or call in flight changes.                 *)
LEMMA QuietRequest ==
  ASSUME AccountsInv, NEW c \in Clients, NEW k, Kin(c, k),
         request' = [request EXCEPT ![c] = k],
         photo' = photo, nPhotos' = nPhotos, objects' = objects, NoFault
  PROVE  Quiet
<1>1. \A l \in late' : QuietLate(l)
  BY DEF NoFault, QuietLate
<1>2. doubtful \subseteq doubtful' /\ \A p \in objects \ objects' : Doomed(p)
  BY DEF NoFault
<1> QED
  BY <1>1, <1>2, QuietMove

LEMMA QuietArrives ==
  ASSUME AccountsInv, NEW c \in Clients, NEW u \in Identities, NEW op \in Ops, Arrive(c, u, op)
  PROVE  Quiet
<1> DEFINE k == [op |-> op, user |-> u, step |-> "lookup", path |-> 0,
                 previous |-> 0, code |-> "none"]
<1>1. PICK j \in {k, None} : request' = [request EXCEPT ![c] = j]
  BY DEF Arrive, GoTo, Answer
<1>2. Kin(c, j)
  BY <1>1 DEF Kin, Shaped
<1> QED
  BY <1>1, <1>2, QuietRequest DEF Arrive, rows

(* What a handler is given is kin to what looked for the user.             *)
LEMMA KinHandled ==
  ASSUME AccountsInv, NEW c \in Clients, request[c] # None,
         request[c].step \in {"lookup", "create"}, Handle(c)
  PROVE  \E k : Kin(c, k) /\ request' = [request EXCEPT ![c] = k]
<1>1. request[c] \in Request /\ request[c].user \in Identities
  BY Standing DEF AccountsInv
<1>2. request[c].path = 0 /\ request[c].previous = 0
  BY DEF AccountsInv, PhotoInv, Shape, Shaped
<1> DEFINE s == IF request[c].op = "edit" THEN "update" ELSE "row"
<1> DEFINE k == [request[c] EXCEPT !.step = s]
<1>3. /\ k.op = request[c].op /\ k.user = request[c].user /\ k.step = s
      /\ k.path = 0 /\ k.previous = 0
  BY <1>1, <1>2 DEF Request
<1>4. Kin(c, k) /\ Kin(c, None)
  BY <1>1, <1>3 DEF Kin, Shaped
<1> QED
  BY <1>4 DEF Handle, GoTo, Answer

LEMMA QuietLooksUp ==
  ASSUME AccountsInv, NEW c \in Clients, Lookup(c)
  PROVE  Quiet
<1>1. request[c] # None /\ request[c].step = "lookup"
  BY DEF Lookup, At
<1>2. request[c] \in Request /\ request[c].user \in Identities
  BY <1>1, Standing DEF AccountsInv
<1> DEFINE k == [request[c] EXCEPT !.step = "create"]
<1>3. /\ k.op = request[c].op /\ k.user = request[c].user /\ k.step = "create"
      /\ k.path = 0 /\ k.previous = 0 /\ k.path = request[c].path
      /\ k.previous = request[c].previous
  BY <1>1, <1>2 DEF Request, AccountsInv, PhotoInv, Shape, Shaped
<1>4. Kin(c, k) /\ Kin(c, None)
  BY <1>2, <1>3 DEF Kin, Shaped
<1>5. \E j : Kin(c, j) /\ request' = [request EXCEPT ![c] = j]
  BY <1>1, <1>4, KinHandled DEF Lookup, GoTo, Answer
<1> QED
  BY <1>5, QuietRequest DEF Lookup, rows

LEMMA QuietCreates ==
  ASSUME AccountsInv, NEW c \in Clients, CreateProfile(c)
  PROVE  Quiet
<1>1. request[c] # None /\ request[c].step = "create"
  BY DEF CreateProfile, At
<1> DEFINE l == [kind |-> "profile", user |-> request[c].user, path |-> 0]
<1>2. Kin(c, None)
  BY DEF Kin
<1>3. \E j : Kin(c, j) /\ request' = [request EXCEPT ![c] = j]
  BY <1>1, <1>2, KinHandled DEF CreateProfile, Answer
<1>4. photo' = photo /\ nPhotos' = nPhotos /\ objects' = objects
  BY DEF CreateProfile, InsertProfile, TimesOut, rows
<1>5. CASE NoFault
  BY <1>3, <1>4, <1>5, QuietRequest
<1>6. CASE TimesOut(l)
  <2>1. nPhotos >= 0
    BY DEF AccountsInv, AccountsTypeOK
  <2>2. QuietLate(l) /\ late' = late \cup {l}
    BY <1>6, <2>1 DEF TimesOut, QuietLate
  <2>3. \A j \in late' : QuietLate(j)
    BY <2>2 DEF QuietLate
  <2>4. doubtful \subseteq doubtful'
    BY <1>6 DEF TimesOut
  <2> QED
    BY <1>3, <1>4, <2>3, <2>4, QuietMove
<1> QED
  BY <1>5, <1>6 DEF CreateProfile

(* Every reading of the row but that of an upload.                         *)
LEMMA QuietReads ==
  ASSUME AccountsInv, NEW c \in Clients, ReadRow(c), UNCHANGED nPhotos
  PROVE  Quiet
<1> DEFINE k == request[c]
<1> DEFINE p == photo[k.user]
<1>1. k # None /\ k.step = "row" /\ UNCHANGED rows /\ NoFault
  BY DEF ReadRow, At
<1>2. k \in Request /\ k.user \in Identities /\ p \in Photos \cup {0}
  BY <1>1, Standing DEF AccountsInv
<1>3. k.path = 0 /\ k.previous = 0
  BY <1>1 DEF AccountsInv, PhotoInv, Shape, Shaped
<1> DEFINE del == [k EXCEPT !.step = "update", !.previous = p]
<1> DEFINE get == [k EXCEPT !.step = "sign", !.path = p]
<1>4. nPhotos \in Nat
  BY AccountsAssumption DEF AccountsInv, AccountsTypeOK
<1>5. \/ k.op = "delete-photo" /\ request' = [request EXCEPT ![c] = del]
      \/ request' = [request EXCEPT ![c] = get]
      \/ request' = [request EXCEPT ![c] = None]
  <2>1. nPhotos' # nPhotos + 1
    BY <1>4
  <2> QED
    BY <2>1 DEF ReadRow, GoTo, Answer
<1>6. k.op = "delete-photo" => Kin(c, del)
  <2>1. /\ del.op = k.op /\ del.user = k.user /\ del.step = "update"
        /\ del.path = 0 /\ del.previous = p
    BY <1>2, <1>3 DEF Request
  <2> QED
    BY <1>2, <2>1 DEF Kin, Shaped
<1>7. Kin(c, get)
  <2>1. /\ get.op = k.op /\ get.user = k.user /\ get.step = "sign"
        /\ get.path = p /\ get.previous = 0
    BY <1>2, <1>3 DEF Request
  <2> QED
    BY <1>2, <2>1 DEF Kin, Shaped
<1>8. Kin(c, None)
  BY DEF Kin
<1>9. photo' = photo /\ nPhotos' = nPhotos /\ objects' = objects
  BY <1>1 DEF rows
<1> QED
  BY <1>1, <1>5, <1>6, <1>7, <1>8, <1>9, QuietRequest

LEMMA QuietUploads ==
  ASSUME AccountsInv, NEW c \in Clients, Upload(c)
  PROVE  Quiet
<1> DEFINE k == request[c]
<1> DEFINE next == [k EXCEPT !.step = "update"]
<1> DEFINE l == [kind |-> "store", user |-> k.user, path |-> k.path]
<1>1. k # None /\ k.step = "upload" /\ nPhotos' = nPhotos
  BY DEF Upload, At
<1>2. k \in Request /\ k.user \in Identities /\ k.path \in Photos \cup {0}
  BY <1>1, Standing DEF AccountsInv
<1>3. Pending(c) /\ k.op = "upload-photo"
  BY <1>1 DEF AccountsInv, PhotoInv, Shape, Shaped, Pending
<1>4. k.path # 0 /\ k.path <= nPhotos
  BY <1>1, <1>2, <1>3 DEF AccountsInv, PhotoInv, PendingIsUnknown, Unknown, Known
<1>5. Kin(c, None)
  BY DEF Kin
<1>6. CASE Store(k.path) /\ GoTo(c, next) /\ NoFault
  <2>1. /\ next.op = k.op /\ next.user = k.user /\ next.step = "update"
        /\ next.path = k.path /\ next.previous = k.previous
    BY <1>2 DEF Request
  <2>2. k.path \in objects' /\ photo' = photo /\ objects \subseteq objects'
    BY <1>6 DEF Store
  <2>3. Kin(c, next)
    BY <1>1, <1>2, <1>3, <2>1, <2>2 DEF Kin, Shaped
  <2>4. request' = [request EXCEPT ![c] = next]
    BY <1>6 DEF GoTo
  <2>5. doubtful \subseteq doubtful' /\ \A j \in late' : QuietLate(j)
    BY <1>6 DEF NoFault, QuietLate
  <2> HIDE DEF next
  <2> QED
    BY <1>1, <2>2, <2>3, <2>4, <2>5, QuietMove
<1>7. CASE UNCHANGED rows /\ Answer(c, "server_error") /\ NoFault
  BY <1>1, <1>5, <1>7, QuietRequest DEF Answer, rows
<1>8. CASE TimesOut(l) /\ Answer(c, "server_error")
  <2>1. \A j \in late' : QuietLate(j)
    BY <1>4, <1>8 DEF TimesOut, QuietLate
  <2>2. doubtful \subseteq doubtful' /\ photo' = photo /\ objects' = objects
    BY <1>8 DEF TimesOut, rows
  <2>3. request' = [request EXCEPT ![c] = None]
    BY <1>8 DEF Answer
  <2> QED
    BY <1>1, <1>5, <2>1, <2>2, <2>3, QuietMove
<1> QED
  BY <1>6, <1>7, <1>8 DEF Upload

(* An object that is to be removed is, or is not, or may be later.         *)
LEMMA QuietDeletes ==
  ASSUME AccountsInv, NEW u, NEW p, Doomed(p), p <= nPhotos,
         DeleteBestEffort(u, p) \/ (UNCHANGED rows /\ NoFault)
  PROVE  /\ photo' = photo /\ doubtful \subseteq doubtful'
         /\ \A l \in late' : QuietLate(l)
         /\ \A q \in objects \ objects' : Doomed(q)
<1> DEFINE l == [kind |-> "remove", user |-> u, path |-> p]
<1>1. CASE TimesOut(l)
  BY <1>1 DEF TimesOut, rows, QuietLate
<1>2. CASE (RemoveObject(p) \/ UNCHANGED rows) /\ NoFault
  BY <1>2 DEF RemoveObject, rows, NoFault, QuietLate
<1> QED
  BY <1>1, <1>2 DEF DeleteBestEffort

LEMMA QuietDiscards ==
  ASSUME AccountsInv, NEW c \in Clients, Discard(c)
  PROVE  Quiet
<1>1. request[c] # None /\ request[c].step = "discard" /\ nPhotos' = nPhotos
  BY DEF Discard, At
<1>2. Doomed(request[c].path) /\ request[c].path <= nPhotos
  BY <1>1 DEF Doomed, AccountsInv, PhotoInv, Known
<1>3. DeleteBestEffort(request[c].user, request[c].path)
  BY DEF Discard
<1>4. Kin(c, None) /\ request' = [request EXCEPT ![c] = None]
  BY DEF Kin, Discard, Answer
<1> QED
  BY <1>1, <1>2, <1>3, <1>4, QuietDeletes, QuietMove

LEMMA QuietCleansUp ==
  ASSUME AccountsInv, NEW c \in Clients, Cleanup(c)
  PROVE  Quiet
<1> DEFINE k == request[c]
<1> DEFINE next == [k EXCEPT !.step = "sign"]
<1>1. k # None /\ k.step = "cleanup" /\ nPhotos' = nPhotos
  BY DEF Cleanup, At
<1>2. k \in Request /\ k.user \in Identities
  BY <1>1, Standing DEF AccountsInv
<1>3. k.previous <= nPhotos
  BY <1>1 DEF AccountsInv, PhotoInv, Known
<1>4. \E j : Kin(c, j) /\ request' = [request EXCEPT ![c] = j]
  <2>1. /\ next.op = k.op /\ next.user = k.user /\ next.step = "sign"
        /\ next.path = k.path /\ next.previous = k.previous
    BY <1>2 DEF Request
  <2>2. Kin(c, next) /\ Kin(c, None)
    BY <1>1, <1>2, <2>1 DEF Kin, Shaped
  <2> QED
    BY <2>2 DEF Cleanup, AfterCleanup, GoTo, Answer
<1>5. CASE k.previous \in {0, k.path}
  BY <1>1, <1>4, <1>5, QuietRequest DEF Cleanup, rows
<1>6. CASE k.previous \notin {0, k.path}
  <2>1. Doomed(k.previous)
    BY <1>1, <1>6 DEF Doomed
  <2>2. DeleteBestEffort(k.user, k.previous)
    BY <1>6 DEF Cleanup
  <2> QED
    BY <1>1, <1>3, <1>4, <2>1, <2>2, QuietDeletes, QuietMove
<1> QED
  BY <1>5, <1>6

LEMMA QuietSigns ==
  ASSUME AccountsInv, NEW c \in Clients, SignUrl(c)
  PROVE  Quiet
<1>1. Kin(c, None) /\ request' = [request EXCEPT ![c] = None]
  BY DEF Kin, SignUrl, Answer
<1> QED
  BY <1>1, QuietRequest DEF SignUrl, rows

(* Whatever is carried out late, but the update of a row.                  *)
LEMMA QuietCarriesOut ==
  ASSUME AccountsInv, NEW l \in late, CarryOut(l), l.kind # "row"
  PROVE  Quiet
<1>1. l.kind \in {"profile", "store", "remove"}
  BY DEF AccountsInv, AccountsTypeOK, Late
<1>2. l.kind = "remove" => Doomed(l.path)
  BY DEF Doomed
<1>3. photo' = photo /\ \A p \in objects \ objects' : Doomed(p)
  BY <1>1, <1>2 DEF CarryOut, InsertProfile, Store, RemoveObject
<1> QED
  BY <1>3 DEF CarryOut, Quiet, QuietLate

LEMMA QuietElsewhere ==
  ASSUME AccountsInv,
         \/ \E l \in late : Lose(l)
         \/ \E u \in Identities : SetStatus(u)
         \/ UNCHANGED accountVars
  PROVE  Quiet
<1>1. photo' = photo /\ objects' = objects /\ nPhotos' = nPhotos
      /\ request' = request /\ doubtful' = doubtful /\ late' \subseteq late
  BY DEF Lose, SetStatus, accountVars, rows, NoFault
<1> QED
  BY <1>1 DEF Quiet, QuietLate

(* An update that fails, other than that of an upload, and an edit.        *)
LEMMA QuietFails ==
  ASSUME AccountsInv, NEW c \in Clients, request[c] # None, request[c].step = "update",
         request[c].op # "upload-photo",
         request' = [request EXCEPT ![c] = None], nPhotos' = nPhotos,
         \/ UNCHANGED rows /\ NoFault
         \/ TimesOut([kind |-> "row", user |-> request[c].user, path |-> request[c].path])
  PROVE  Quiet
<1> DEFINE l == [kind |-> "row", user |-> request[c].user, path |-> request[c].path]
<1>1. request[c].path = 0 /\ nPhotos >= 0
  BY AccountsAssumption DEF AccountsInv, PhotoInv, Shape, Shaped, AccountsTypeOK
<1>2. Kin(c, None)
  BY DEF Kin
<1>3. CASE UNCHANGED rows /\ NoFault
  BY <1>2, <1>3, QuietRequest DEF rows
<1>4. CASE TimesOut(l)
  <2>1. \A j \in late' : QuietLate(j)
    BY <1>1, <1>4 DEF TimesOut, QuietLate
  <2>2. doubtful \subseteq doubtful' /\ photo' = photo /\ objects' = objects
    BY <1>4 DEF TimesOut, rows
  <2> QED
    BY <1>2, <2>1, <2>2, QuietMove
<1> QED
  BY <1>3, <1>4

-----------------------------------------------------------------------------
(* The steps that are not quiet.                                           *)

(* An upload gives its object a name that nothing knows.                   *)
LEMMA UploadIsNamed ==
  ASSUME AccountsInv, AccountsTypeOK', NEW c \in Clients, ReadRow(c), nPhotos' = nPhotos + 1
  PROVE  AccountsInv'
<1> DEFINE k == request[c]
<1> DEFINE n == nPhotos + 1
<1>1. k # None /\ k.step = "row" /\ NoFault /\ nPhotos \in Nat
      /\ photo' = photo /\ objects' = objects
  BY AccountsAssumption DEF ReadRow, At, rows, AccountsInv, AccountsTypeOK
<1>2. k \in Request /\ k.user \in Identities /\ photo[k.user] \in Photos \cup {0}
  BY <1>1, Standing DEF AccountsInv
<1> DEFINE new == [k EXCEPT !.step = "upload", !.path = n, !.previous = photo[k.user]]
<1>3. GoTo(c, new) /\ k.op = "upload-photo"
  <2>1. nPhotos' # nPhotos
    BY <1>1
  <2> QED
    BY <2>1 DEF ReadRow
<1>4. /\ \A d \in Clients \ {c} : request'[d] = request[d]
      /\ request'[c] = new
  BY <1>3 DEF GoTo, AccountsInv, AccountsTypeOK
<1>5. /\ new.op = "upload-photo" /\ new.user = k.user /\ new.step = "upload"
      /\ new.path = n /\ new.previous = photo[k.user]
  BY <1>2, <1>3 DEF Request
<1> HIDE DEF new
<1>6. /\ \A u \in Identities : photo[u] <= nPhotos
      /\ \A d \in Clients : request[d] # None =>
           request[d].path <= nPhotos /\ request[d].previous <= nPhotos
      /\ \A l \in late : l.path <= nPhotos
  BY DEF AccountsInv, PhotoInv, Known
<1>7. late' = late /\ doubtful' = doubtful
  BY <1>1 DEF NoFault
<1>8. \A u \in Identities : photo[u] \in Nat
  BY AccountsAssumption DEF AccountsInv, AccountsTypeOK, Photos
<1>9. Known'
  <2>1. \A u \in Identities : photo'[u] <= nPhotos'
    BY <1>1, <1>6, <1>8
  <2>2. \A l \in late' : l.path <= nPhotos'
    <3>1. \A l \in late : l.path \in Nat
      BY AccountsAssumption DEF AccountsInv, AccountsTypeOK, Late, Photos
    <3> QED
      BY <1>1, <1>6, <1>7, <3>1
  <2>3. ASSUME NEW d \in Clients, request'[d] # None
        PROVE  request'[d].path <= nPhotos' /\ request'[d].previous <= nPhotos'
    <3>1. CASE d = c
      BY <1>1, <1>2, <1>4, <1>5, <1>6, <1>8, <3>1
    <3>2. CASE d # c
      <4>1. request[d].path \in Nat /\ request[d].previous \in Nat
        BY <1>4, <2>3, <3>2, Standing DEF AccountsInv, Photos
      <4> QED
        BY <1>1, <1>4, <1>6, <2>3, <3>2, <4>1
    <3> QED
      BY <3>1, <3>2
  <2> QED
    BY <2>1, <2>2, <2>3 DEF Known
<1>10. Shape'
  BY <1>4, <1>5, <1>7 DEF AccountsInv, PhotoInv, Shape, Shaped
<1>11. \A d \in Clients, p \in Photos \cup {0} :
         Uses(d, p)' => Uses(d, p) \/ (d = c /\ p \in {n, photo[k.user]})
  BY <1>4, <1>5 DEF Uses
<1>12. PendingIsUnknown'
  <2> SUFFICES ASSUME NEW d \in Clients, NEW p \in Photos \cup {0},
                      Pending(d)', request'[d].path = p
               PROVE  Unknown(d, p)'
    BY DEF PendingIsUnknown
  <2>1. CASE d = c
    <3>1. p = n /\ p # 0
      BY <1>1, <1>4, <1>5, <2>1
    <3>2. request'[d].previous # p
      BY <1>1, <1>2, <1>4, <1>5, <1>6, <1>8, <2>1, <3>1
    <3>3. \A u \in Identities : photo'[u] # p
      BY <1>1, <1>6, <1>8, <3>1
    <3>4. \A l \in late' : l.path # p
      BY <1>1, <1>6, <1>7, <3>1
    <3>5. \A e \in Clients \ {d} : ~Uses(e, p)'
      BY <1>1, <1>4, <1>6, <2>1, <3>1 DEF Uses
    <3>6. request'[d].step # "update"
      BY <1>4, <1>5, <2>1
    <3> QED
      BY <3>1, <3>2, <3>3, <3>4, <3>5, <3>6 DEF Unknown
  <2>2. CASE d # c
    <3>1. request'[d] = request[d] /\ Pending(d)
      BY <1>4, <2>2 DEF Pending
    <3>2. Unknown(d, p)
      BY <3>1 DEF AccountsInv, PhotoInv, PendingIsUnknown
    <3>3. p # n /\ p # photo[k.user]
      BY <1>1, <1>2, <1>6, <3>1, <3>2 DEF Pending, Unknown
    <3>4. \A e \in Clients \ {d} : ~Uses(e, p)'
      BY <1>11, <3>2, <3>3 DEF Unknown
    <3> QED
      BY <1>1, <1>7, <3>1, <3>2, <3>4 DEF Unknown
  <2> QED
    BY <2>1, <2>2
<1>13. OwnedOnce'
  <2> SUFFICES ASSUME NEW u \in Identities, NEW v \in Identities, NEW p \in Photos,
                      Claim(u, p)', Claim(v, p)'
               PROVE  u = v
    BY DEF OwnedOnce
  <2>1. \A w \in Identities : Claim(w, p)' => Claim(w, p) \/ (p = n /\ w = k.user)
    BY <1>1, <1>4, <1>5, <1>7 DEF Claim, Uses
  <2>2. \A w \in Identities : Claim(w, p) => p # n
    BY <1>1, <1>6 DEF Claim, Uses
  <2> QED
    BY <2>1, <2>2 DEF AccountsInv, PhotoInv, OwnedOnce
<1>14. DoomedIsGone'
  <2>1. \A p : Doomed(p)' => Doomed(p)
    BY <1>4, <1>5, <1>7 DEF Doomed
  <2> QED
    BY <1>1, <1>7, <2>1 DEF AccountsInv, PhotoInv, DoomedIsGone
<1>15. LateIsDoubtful' /\ PhotoIsStored'
  BY <1>1, <1>7 DEF AccountsInv, PhotoInv, LateIsDoubtful, PhotoIsStored
<1> QED
  BY <1>9, <1>10, <1>12, <1>13, <1>14, <1>15 DEF AccountsInv, PhotoInv

(* Claims that others have stay as they are when one request keeps its     *)
(* user and its objects.                                                   *)
LEMMA KeptUses ==
  ASSUME AccountsTypeOK, NEW c \in Clients, request[c] # None, NEW k,
         k.path = request[c].path, k.previous = request[c].previous,
         k.user = request[c].user, request' = [request EXCEPT ![c] = k]
  PROVE  /\ \A d \in Clients \ {c} : request'[d] = request[d]
         /\ request'[c] = k
         /\ \A d \in Clients, p \in Photos : Uses(d, p)' =>
              Uses(d, p) /\ request'[d].user = request[d].user
BY DEF Uses, AccountsTypeOK

(* A row is set, to a photo that is in the bucket or to none.              *)
LEMMA RowIsUpdated ==
  ASSUME AccountsInv, AccountsTypeOK', NEW c \in Clients, request[c] # None,
         request[c].step = "update", nPhotos' = nPhotos, NoFault,
         SetPhoto(request[c].user, request[c].path),
         GoTo(c, [request[c] EXCEPT !.step = "cleanup"])
  PROVE  AccountsInv'
<1> DEFINE k == request[c]
<1> DEFINE new == [k EXCEPT !.step = "cleanup"]
<1>1. k \in Request /\ k.user \in Identities /\ k.path \in Photos \cup {0}
  BY Standing DEF AccountsInv
<1>2. /\ new.op = k.op /\ new.user = k.user /\ new.step = "cleanup"
      /\ new.path = k.path /\ new.previous = k.previous
  BY <1>1 DEF Request
<1>3. request' = [request EXCEPT ![c] = new]
  BY DEF GoTo
<1> HIDE DEF new
<1>4. /\ \A d \in Clients \ {c} : request'[d] = request[d]
      /\ request'[c] = new
      /\ \A d \in Clients, p \in Photos : Uses(d, p)' =>
           Uses(d, p) /\ request'[d].user = request[d].user
  BY <1>2, <1>3, KeptUses DEF AccountsInv
<1>5. /\ photo' = [photo EXCEPT ![k.user] = k.path] /\ objects' = objects
      /\ late' = late /\ doubtful' = doubtful
  BY DEF SetPhoto, NoFault
<1>6. \A u \in Identities : photo'[u] = IF u = k.user THEN k.path ELSE photo[u]
  BY <1>1, <1>5 DEF AccountsInv, AccountsTypeOK
<1>7. k.path = 0 \/ (Pending(c) /\ Unknown(c, k.path))
  BY <1>1 DEF AccountsInv, PhotoInv, Shape, Shaped, Pending, PendingIsUnknown
<1>8. Known'
  BY <1>1, <1>2, <1>4, <1>5, <1>6 DEF AccountsInv, PhotoInv, Known
<1>9. Shape'
  BY <1>2, <1>4, <1>5 DEF AccountsInv, PhotoInv, Shape, Shaped
<1>10. PendingIsUnknown'
  <2> SUFFICES ASSUME NEW d \in Clients, NEW p \in Photos \cup {0},
                      Pending(d)', request'[d].path = p
               PROVE  Unknown(d, p)'
    BY DEF PendingIsUnknown
  <2>1. d # c
    BY <1>2, <1>4 DEF Pending
  <2>2. request'[d] = request[d] /\ Pending(d)
    BY <1>4, <2>1 DEF Pending
  <2>3. Unknown(d, p)
    BY <2>2 DEF AccountsInv, PhotoInv, PendingIsUnknown
  <2>4. p # k.path /\ p \in Photos
    BY <2>1, <2>3 DEF Unknown, Uses
  <2>5. \A e \in Clients \ {d} : ~Uses(e, p)'
    BY <1>4, <2>3, <2>4 DEF Unknown
  <2> QED
    BY <1>5, <1>6, <2>2, <2>3, <2>4, <2>5 DEF Unknown
<1>11. \A u \in Identities, p \in Photos : Claim(u, p)' => Claim(u, p)
  BY <1>4, <1>5, <1>6 DEF Claim, Uses
<1>12. OwnedOnce'
  BY <1>11 DEF AccountsInv, PhotoInv, OwnedOnce
<1>13. DoomedIsGone'
  <2> SUFFICES ASSUME NEW u \in Identities, NEW p \in Photos, Doomed(p)', photo'[u] = p
               PROVE  p \in doubtful
    BY <1>5 DEF DoomedIsGone
  <2>1. Doomed(p) \/ (p = k.previous /\ p # k.path)
    BY <1>2, <1>4, <1>5 DEF Doomed
  <2>2. CASE u = k.user
    <3>1. p = k.path /\ p # 0 /\ Doomed(p)
      BY <1>6, <2>1, <2>2 DEF Photos
    <3> QED
      BY <1>7, <3>1, PendingIsNotDoomed
  <2>3. CASE u # k.user
    <3>1. photo[u] = p
      BY <1>6, <2>3
    <3>2. p = k.previous => Claim(k.user, p) /\ Claim(u, p)
      BY <3>1 DEF Claim, Uses
    <3>3. p # k.previous
      BY <1>1, <2>3, <3>2 DEF AccountsInv, PhotoInv, OwnedOnce
    <3> QED
      BY <2>1, <3>1, <3>3 DEF AccountsInv, PhotoInv, DoomedIsGone
  <2> QED
    BY <2>2, <2>3
<1>14. LateIsDoubtful'
  BY <1>5 DEF AccountsInv, PhotoInv, LateIsDoubtful
<1>15. PhotoIsStored'
  <2>1. k.path \in objects \cup {0}
    BY <1>7 DEF Unknown
  <2> QED
    BY <1>5, <1>6, <2>1 DEF AccountsInv, PhotoInv, PhotoIsStored
<1> QED
  BY <1>8, <1>9, <1>10, <1>12, <1>13, <1>14, <1>15 DEF AccountsInv, PhotoInv

(* The row of an upload is not set, or may be later, and its object is to  *)
(* be discarded.                                                           *)
LEMMA UploadIsDiscarded ==
  ASSUME AccountsInv, AccountsTypeOK', NEW c \in Clients, request[c] # None,
         request[c].step = "update", request[c].op = "upload-photo",
         nPhotos' = nPhotos, NEW code,
         GoTo(c, [request[c] EXCEPT !.step = "discard", !.code = code]),
         \/ UNCHANGED rows /\ NoFault
         \/ TimesOut([kind |-> "row", user |-> request[c].user, path |-> request[c].path])
  PROVE  AccountsInv'
<1> DEFINE k == request[c]
<1> DEFINE new == [k EXCEPT !.step = "discard", !.code = code]
<1> DEFINE l == [kind |-> "row", user |-> k.user, path |-> k.path]
<1>1. k \in Request /\ k.user \in Identities /\ k.path \in Photos \cup {0}
  BY Standing DEF AccountsInv
<1>2. /\ new.op = k.op /\ new.user = k.user /\ new.step = "discard"
      /\ new.path = k.path /\ new.previous = k.previous
  BY <1>1 DEF Request
<1>3. request' = [request EXCEPT ![c] = new]
  BY DEF GoTo
<1> HIDE DEF new
<1>4. /\ \A d \in Clients \ {c} : request'[d] = request[d]
      /\ request'[c] = new
      /\ \A d \in Clients, p \in Photos : Uses(d, p)' =>
           Uses(d, p) /\ request'[d].user = request[d].user
  BY <1>2, <1>3, KeptUses DEF AccountsInv
<1>5. photo' = photo /\ objects' = objects /\ doubtful \subseteq doubtful'
  BY DEF rows, NoFault, TimesOut
<1>6. \A j \in late' : j \in late \/
        /\ j.kind = "row" /\ j.user = k.user /\ j.path = k.path
        /\ j.path \in doubtful' \cup {0}
  BY DEF NoFault, TimesOut
<1>7. Pending(c) /\ Unknown(c, k.path)
  BY <1>1 DEF AccountsInv, PhotoInv, Pending, PendingIsUnknown
<1>8. Known'
  BY <1>2, <1>4, <1>5, <1>6 DEF AccountsInv, PhotoInv, Known
<1>9. Shape'
  BY <1>2, <1>4, <1>6 DEF AccountsInv, PhotoInv, Shape, Shaped
<1>10. PendingIsUnknown'
  <2> SUFFICES ASSUME NEW d \in Clients, NEW p \in Photos \cup {0},
                      Pending(d)', request'[d].path = p
               PROVE  Unknown(d, p)'
    BY DEF PendingIsUnknown
  <2>1. d # c
    BY <1>2, <1>4 DEF Pending
  <2>2. request'[d] = request[d] /\ Pending(d)
    BY <1>4, <2>1 DEF Pending
  <2>3. Unknown(d, p)
    BY <2>2 DEF AccountsInv, PhotoInv, PendingIsUnknown
  <2>4. p # k.path /\ p \in Photos
    BY <2>1, <2>3 DEF Unknown, Uses
  <2>5. \A e \in Clients \ {d} : ~Uses(e, p)'
    BY <1>4, <2>3, <2>4 DEF Unknown
  <2>6. \A j \in late' : j.kind \in {"row", "remove"} => j.path # p
    BY <1>6, <2>3, <2>4 DEF Unknown
  <2> QED
    BY <1>5, <2>2, <2>3, <2>5, <2>6 DEF Unknown
<1>11. \A u \in Identities, p \in Photos : Claim(u, p)' => Claim(u, p)
  BY <1>4, <1>5, <1>6 DEF Claim, Uses
<1>12. OwnedOnce'
  BY <1>11 DEF AccountsInv, PhotoInv, OwnedOnce
<1>13. DoomedIsGone'
  <2> SUFFICES ASSUME NEW u \in Identities, NEW p \in Photos, Doomed(p)', photo'[u] = p
               PROVE  p \in doubtful'
    BY DEF DoomedIsGone
  <2>1. Doomed(p) \/ p = k.path
    BY <1>2, <1>4, <1>6 DEF Doomed
  <2>2. p # k.path
    BY <1>5, <1>7 DEF Unknown
  <2> QED
    BY <1>5, <2>1, <2>2 DEF AccountsInv, PhotoInv, DoomedIsGone
<1>14. LateIsDoubtful'
  BY <1>5, <1>6 DEF AccountsInv, PhotoInv, LateIsDoubtful
<1>15. PhotoIsStored'
  BY <1>5 DEF AccountsInv, PhotoInv, PhotoIsStored
<1> QED
  BY <1>8, <1>9, <1>10, <1>12, <1>13, <1>14, <1>15 DEF AccountsInv, PhotoInv

(* An update that has timed out is carried out.                            *)
LEMMA RowIsUpdatedLate ==
  ASSUME AccountsInv, AccountsTypeOK', NEW l \in late, CarryOut(l), l.kind = "row"
  PROVE  AccountsInv'
<1>1. l.user \in Identities /\ l.path \in Photos \cup {0}
  BY DEF AccountsInv, AccountsTypeOK, Late
<1>2. /\ photo' = [photo EXCEPT ![l.user] = l.path] /\ objects' = objects
      /\ late' \subseteq late /\ doubtful' = doubtful /\ request' = request
      /\ nPhotos' = nPhotos
  BY DEF CarryOut, SetPhoto
<1>3. \A u \in Identities : photo'[u] = IF u = l.user THEN l.path ELSE photo[u]
  BY <1>1, <1>2 DEF AccountsInv, AccountsTypeOK
<1>4. l.path \in doubtful \cup {0} /\ l.path <= nPhotos
  BY DEF AccountsInv, PhotoInv, LateIsDoubtful, Known
<1>5. Known' /\ Shape' /\ LateIsDoubtful'
  BY <1>2, <1>3, <1>4 DEF AccountsInv, PhotoInv, Known, Shape, Shaped, LateIsDoubtful
<1>6. PendingIsUnknown'
  <2> SUFFICES ASSUME NEW d \in Clients, NEW p \in Photos \cup {0},
                      Pending(d)', request'[d].path = p
               PROVE  Unknown(d, p)'
    BY DEF PendingIsUnknown
  <2>1. Pending(d) /\ Unknown(d, p)
    BY <1>2 DEF Pending, AccountsInv, PhotoInv, PendingIsUnknown
  <2>2. \A e \in Clients : Uses(e, p)' => Uses(e, p)
    BY <1>2 DEF Uses
  <2>3. p # l.path
    BY <2>1 DEF Unknown
  <2> QED
    BY <1>2, <1>3, <2>1, <2>2, <2>3 DEF Unknown
<1>7. OwnedOnce'
  <2>1. \A u \in Identities, p \in Photos : Claim(u, p)' => Claim(u, p)
    BY <1>2, <1>3 DEF Claim, Uses
  <2> QED
    BY <2>1 DEF AccountsInv, PhotoInv, OwnedOnce
<1>8. DoomedIsGone'
  <2>1. \A p \in Photos : Doomed(p)' => Doomed(p)
    BY <1>2 DEF Doomed
  <2>2. \A p \in Photos : p = l.path => p \in doubtful
    BY <1>4 DEF Photos
  <2> QED
    BY <1>2, <1>3, <2>1, <2>2 DEF AccountsInv, PhotoInv, DoomedIsGone
<1>9. PhotoIsStored'
  BY <1>2, <1>3, <1>4 DEF AccountsInv, PhotoInv, PhotoIsStored
<1> QED
  BY <1>5, <1>6, <1>7, <1>8, <1>9 DEF AccountsInv, PhotoInv

-----------------------------------------------------------------------------

LEMMA Updates ==
  ASSUME AccountsInv, NEW c \in Clients, UpdateRow(c)
  PROVE  AccountsInv'
<1> DEFINE k == request[c]
<1> DEFINE l == [kind |-> "row", user |-> k.user, path |-> k.path]
<1>1. k # None /\ k.step = "update" /\ nPhotos' = nPhotos
  BY DEF UpdateRow, At
<1>2. AccountsTypeOK'
  BY TypeUpdates DEF AccountsInv
<1>3. CASE /\ k.op = "edit" /\ UNCHANGED rows /\ NoFault
           /\ Answer(c, "ok") \/ Answer(c, "bad_request")
  <2>1. request' = [request EXCEPT ![c] = None]
    BY <1>3 DEF Answer
  <2> QED
    BY <1>1, <1>2, <1>3, <2>1, QuietFails, QuietInv
<1>4. CASE /\ SetPhoto(k.user, k.path) /\ NoFault
           /\ GoTo(c, [k EXCEPT !.step = "cleanup"])
  BY <1>1, <1>2, <1>4, RowIsUpdated
<1>5. ASSUME NEW code, Fails(c, code), (UNCHANGED rows /\ NoFault) \/ TimesOut(l)
      PROVE  AccountsInv'
  <2>1. CASE k.op = "upload-photo"
    <3>1. GoTo(c, [k EXCEPT !.step = "discard", !.code = code])
      BY <1>5, <2>1 DEF Fails
    <3> QED
      BY <1>1, <1>2, <1>5, <2>1, <3>1, UploadIsDiscarded
  <2>2. CASE k.op # "upload-photo"
    <3>1. request' = [request EXCEPT ![c] = None]
      BY <1>5, <2>2 DEF Fails, Answer
    <3> QED
      BY <1>1, <1>2, <1>5, <2>2, <3>1, QuietFails, QuietInv
  <2> QED
    BY <2>1, <2>2
<1>6. \/ /\ k.op = "edit" /\ UNCHANGED rows /\ NoFault
         /\ Answer(c, "ok") \/ Answer(c, "bad_request")
      \/ /\ SetPhoto(k.user, k.path) /\ NoFault
         /\ GoTo(c, [k EXCEPT !.step = "cleanup"])
      \/ Fails(c, "not_found") /\ UNCHANGED rows /\ NoFault
      \/ Fails(c, "server_error") /\ UNCHANGED rows /\ NoFault
      \/ Fails(c, "server_error") /\ TimesOut(l)
  BY DEF UpdateRow
<1> QED
  BY <1>3, <1>4, <1>5, <1>6

LEMMA AccountsInvInitial == AccountsInit => AccountsInv
<1> SUFFICES ASSUME AccountsInit PROVE AccountsInv
  OBVIOUS
<1>1. \A c \in Clients : request[c] = None
  BY DEF AccountsInit
<1>2. \A u \in Identities : photo[u] = 0
  BY DEF AccountsInit
<1>3. \A u \in Identities, p \in Photos : ~Claim(u, p) /\ ~Doomed(p)
  BY <1>1, <1>2 DEF AccountsInit, Claim, Doomed, Uses, Photos
<1>4. Known /\ Shape /\ PendingIsUnknown /\ LateIsDoubtful /\ PhotoIsStored
  BY <1>1, <1>2 DEF AccountsInit, Known, Shape, PendingIsUnknown, Pending,
                    LateIsDoubtful, PhotoIsStored
<1> QED
  BY <1>3, <1>4, TypeAtFirst DEF AccountsInv, PhotoInv, OwnedOnce, DoomedIsGone

LEMMA AccountsInvNext ==
  ASSUME AccountsInv, [AccountsNext]_accountVars
  PROVE  AccountsInv'
<1>1. AccountsTypeOK
  BY DEF AccountsInv
<1>2. ASSUME NEW c \in Clients, NEW u \in Identities,
             AuthRoutes(c, u) \/ UserRoutes(c, u)
      PROVE  AccountsInv'
  <2>1. PICK op \in Ops : Arrive(c, u, op)
    BY <1>2 DEF AuthRoutes, UserRoutes, Ops
  <2> QED
    BY <1>1, <2>1, TypeArrives, QuietArrives, QuietInv
<1>3. ASSUME NEW c \in Clients, ReadRow(c) PROVE AccountsInv'
  <2>1. AccountsTypeOK'
    BY <1>1, <1>3, TypeReads
  <2>2. nPhotos' = nPhotos + 1 \/ UNCHANGED nPhotos
    BY <1>3 DEF ReadRow
  <2> QED
    BY <1>3, <2>1, <2>2, UploadIsNamed, QuietReads, QuietInv
<1>4. ASSUME NEW c \in Clients, ClientStep(c) PROVE AccountsInv'
  <2>1. CASE Lookup(c)
    BY <1>1, <2>1, TypeLooksUp, QuietLooksUp, QuietInv
  <2>2. CASE CreateProfile(c)
    BY <1>1, <2>2, TypeCreates, QuietCreates, QuietInv
  <2>3. CASE Upload(c)
    BY <2>3, TypePhotoUploads, QuietUploads, QuietInv
  <2>4. CASE Discard(c)
    BY <1>1, <2>4, TypeDiscards, QuietDiscards, QuietInv
  <2>5. CASE Cleanup(c)
    BY <1>1, <2>5, TypeCleansUp, QuietCleansUp, QuietInv
  <2>6. CASE SignUrl(c)
    BY <1>1, <2>6, TypeSigns, QuietSigns, QuietInv
  <2> QED
    BY <1>3, <1>4, <2>1, <2>2, <2>3, <2>4, <2>5, <2>6, Updates DEF ClientStep
<1>5. ASSUME NEW l \in late, CarryOut(l) PROVE AccountsInv'
  <2>1. AccountsTypeOK'
    BY <1>5, TypeCarriesOut
  <2> QED
    BY <1>5, <2>1, QuietCarriesOut, QuietInv, RowIsUpdatedLate
<1>6. ASSUME \/ \E l \in late : Lose(l)
             \/ \E u \in Identities : SetStatus(u)
             \/ UNCHANGED accountVars
      PROVE  AccountsInv'
  BY <1>1, <1>6, TypeByOthers, QuietElsewhere, QuietInv
<1> QED
  BY <1>2, <1>4, <1>5, <1>6 DEF AccountsNext

(* In every state each request and each late call is what its handler made *)
(* it: photos are stored before they are named, and owned by one request.  *)
THEOREM AccountsInvariant == AccountsSpec => []AccountsInv
<1>1. AccountsInv /\ [AccountsNext]_accountVars => AccountsInv'
  BY AccountsInvNext
<1> QED
  BY <1>1, AccountsInvInitial, PTL DEF AccountsSpec

(* Profiles, photos, requests and calls in flight have their types in      *)
(* every state: no step of a handler, nor a call that comes late, leaves   *)
(* the names of objects that were given.                                   *)
THEOREM AccountsTypeCorrect == AccountsSpec => []AccountsTypeOK
<1>1. AccountsInv => AccountsTypeOK
  BY DEF AccountsInv
<1> QED
  BY <1>1, AccountsInvariant, PTL

(* A profile names a photo that is in the bucket, for any number of users, *)
(* of requests that overlap, and of calls that fail or come late, unless   *)
(* the update that named it had timed out.                                 *)
THEOREM PhotosAreStored == AccountsSpec => []PhotoIsStored
<1>1. AccountsInv => PhotoIsStored
  BY DEF AccountsInv, PhotoInv
<1> QED
  BY <1>1, AccountsInvariant, PTL

(* Only a profile that is absent is inserted.                              *)
LEMMA InsertionSparesOthers ==
  ASSUME AccountsTypeOK, NEW v \in Identities, InsertProfile(v),
         NEW u \in Identities, profile[u] = "inactive"
  PROVE  profile'[u] = "inactive"
<1>1. profile[v] = "absent"
  BY DEF InsertProfile, Taken
<1> QED
  BY <1>1 DEF AccountsTypeOK, InsertProfile

LEMMA StatusByOperator ==
  ASSUME AccountsTypeOK, [AccountsNext]_accountVars, NEW u \in Identities,
         profile[u] = "inactive", profile'[u] = "active"
  PROVE  SetStatus(u)
<1>1. ASSUME NEW c \in Clients, ClientStep(c) PROVE profile'[u] = "inactive"
  <2>1. CASE CreateProfile(c)
    <3>1. request[c].user \in Identities
      BY <2>1, Standing DEF CreateProfile, At
    <3>2. InsertProfile(request[c].user) \/ UNCHANGED rows
      BY <2>1 DEF CreateProfile, TimesOut
    <3> QED
      BY <3>1, <3>2, InsertionSparesOthers DEF rows
  <2>2. CASE ~CreateProfile(c)
    <3>1. profile' = profile
      BY <1>1, <2>2 DEF ClientStep, Lookup, ReadRow, Upload, UpdateRow, Discard,
                        Cleanup, SignUrl, DeleteBestEffort, TimesOut, Store,
                        SetPhoto, RemoveObject, rows
    <3> QED
      BY <3>1
  <2> QED
    BY <2>1, <2>2
<1>2. ASSUME NEW c \in Clients, NEW v \in Identities, AuthRoutes(c, v) \/ UserRoutes(c, v)
      PROVE  profile' = profile
  BY <1>2 DEF AuthRoutes, UserRoutes, Arrive, rows
<1>3. ASSUME NEW l \in late, CarryOut(l) PROVE profile'[u] = "inactive"
  <2>1. l.user \in Identities /\ l.kind \in {"profile", "row", "store", "remove"}
    BY DEF AccountsTypeOK, Late
  <2>2. InsertProfile(l.user) \/ profile' = profile
    BY <1>3, <2>1 DEF CarryOut, SetPhoto, Store, RemoveObject
  <2> QED
    BY <2>1, <2>2, InsertionSparesOthers
<1>4. ASSUME NEW l \in late, Lose(l) PROVE profile' = profile
  BY <1>4 DEF Lose, rows
<1>5. ASSUME NEW v \in Identities, SetStatus(v) PROVE v = u
  BY <1>5 DEF AccountsTypeOK, SetStatus
<1>6. UNCHANGED accountVars => profile' = profile
  BY DEF accountVars, rows
<1> QED
  BY <1>1, <1>2, <1>3, <1>4, <1>5, <1>6 DEF AccountsNext

(* No sign-in and no insertion that comes late activates a profile that    *)
(* was deactivated: only the operator does.                                *)
THEOREM DeactivatedStaysSo == AccountsSpec => DeactivationHolds
<1>1. AccountsTypeOK /\ [AccountsNext]_accountVars =>
        [\A u \in Identities :
           profile[u] = "inactive" /\ profile'[u] = "active" => SetStatus(u)]_accountVars
  BY StatusByOperator
<1> QED
  BY <1>1, AccountsTypeCorrect, PTL DEF AccountsSpec, DeactivationHolds

-----------------------------------------------------------------------------
(* Chunking.                                                               *)

(* A finite set of numbers has a least and a greatest element.             *)
LEMMA LeastAndGreatest ==
  ASSUME NEW n \in Nat, NEW T \in SUBSET (1 .. n), T # {}
  PROVE  /\ \E x \in T : \A y \in T : x <= y
         /\ \E x \in T : \A y \in T : y <= x
<1>1. T \in SUBSET Nat /\ T \in SUBSET Int
  OBVIOUS
<1>2. IsFiniteSet(1 .. n)
  BY FS_Interval
<1>3. IsFiniteSet(T)
  BY <1>2, FS_Subset
<1> QED
  BY <1>1, <1>3, LeastOf, GreatestOf

(* As long as windows step by size - overlap, chunks are no more than the  *)
(* steps, and all of the text but the overlap is still ahead.              *)
StepsCounted ==
  start < Len(text) /\ overlap < size =>
    /\ Len(chunks) * (size - overlap) <= start
    /\ start = 0 \/ start + overlap < Len(text)

ChunkingInv == ChunkingTypeOK /\ ChunksCoverText /\ StepsCounted

(* What the type of the loop says of its numbers and sequences.            *)
LEMMA TextTypes ==
  ASSUME ChunkingTypeOK
  PROVE  /\ text \in Seq(BOOLEAN) /\ Len(text) \in Nat
         /\ DOMAIN text = 1 .. Len(text)
         /\ size \in Nat \ {0} /\ overlap \in Nat
         /\ start \in Nat /\ start <= Len(text)
         /\ chunks \in Seq(SUBSET (1 .. Len(text))) /\ Len(chunks) \in Nat
         /\ DOMAIN chunks = 1 .. Len(chunks)
<1>1. text \in Seq(BOOLEAN)
  <2>1. CASE text = <<>>
    BY <2>1
  <2>2. CASE text \in Texts
    <3>1. PICK n \in 1 .. MaxText : text \in [1 .. n -> BOOLEAN]
      BY <2>2 DEF Texts
    <3>2. n \in Nat
      BY <3>1, ChunkingAssumption
    <3> QED
      BY <3>1, <3>2, SeqDef
  <2> QED
    BY <2>1, <2>2 DEF ChunkingTypeOK
<1>2. Len(text) \in Nat /\ DOMAIN text = 1 .. Len(text)
  BY <1>1, LenProperties
<1>3. chunks \in Seq(SUBSET (1 .. Len(text)))
  BY DEF ChunkingTypeOK
<1>4. Len(chunks) \in Nat /\ DOMAIN chunks = 1 .. Len(chunks)
  BY <1>3, LenProperties
<1> QED
  BY <1>1, <1>2, <1>3, <1>4, ChunkingAssumption DEF ChunkingTypeOK

(* What is left of a window reaches from its first character to its last.  *)
LEMMA StripIsPassage ==
  ASSUME ChunkingTypeOK, NEW end \in Nat, end <= Len(text),
         Strip(start + 1 .. end) # {}
  PROVE  \E first, last \in start + 1 .. end :
           /\ text[first] /\ text[last] /\ first <= last
           /\ Strip(start + 1 .. end) = first .. last
<1> DEFINE W == start + 1 .. end
           T == {i \in W : text[i]}
<1>1. start \in Nat /\ end \in Nat
  BY TextTypes
<1>2. T \in SUBSET (1 .. end) /\ T # {}
  BY <1>1 DEF Strip
<1>3. PICK first \in T : \A y \in T : first <= y
  BY <1>2, LeastAndGreatest
<1>4. PICK last \in T : \A y \in T : y <= last
  BY <1>2, LeastAndGreatest
<1>5. first \in W /\ last \in W /\ text[first] /\ text[last] /\ first <= last
  BY <1>3, <1>4
<1>6. ASSUME NEW i \in Strip(W) PROVE i \in first .. last
  <2>1. PICK j, k \in W : j <= i /\ i <= k /\ text[j] /\ text[k]
    BY <1>6 DEF Strip
  <2>2. i \in W /\ first <= j /\ k <= last
    BY <1>3, <1>4, <1>6, <2>1 DEF Strip
  <2> QED
    BY <1>1, <1>5, <2>1, <2>2
<1>7. ASSUME NEW i \in first .. last PROVE i \in Strip(W)
  <2>1. i \in W /\ first <= i /\ i <= last
    BY <1>1, <1>5, <1>7
  <2> QED
    BY <1>5, <2>1 DEF Strip
<1> QED
  BY <1>5, <1>6, <1>7

(* A turn of the loop.                                                     *)
LEMMA CutWindowResult ==
  ASSUME ChunkingTypeOK, CutWindow
  PROVE  \E end \in start + 1 .. Len(text) :
           /\ end = Len(text) \/ (end = start + size /\ end < Len(text))
           /\ end <= start + size
           /\ start' = IF end = Len(text) THEN end ELSE NextStart(end)
           /\ start' \in start + 1 .. end
           /\ chunks' = IF Strip(start + 1 .. end) = {} THEN chunks
                        ELSE Append(chunks, Strip(start + 1 .. end))
           /\ UNCHANGED <<text, size, overlap>>
<1> DEFINE end == IF start + size < Len(text) THEN start + size ELSE Len(text)
<1>1. /\ end \in start + 1 .. Len(text)
      /\ end = Len(text) \/ (end = start + size /\ end < Len(text))
      /\ end <= start + size
  BY TextTypes DEF CutWindow
<1>2. /\ start' = IF end = Len(text) THEN end ELSE NextStart(end)
      /\ chunks' = IF Strip(start + 1 .. end) = {} THEN chunks
                   ELSE Append(chunks, Strip(start + 1 .. end))
      /\ UNCHANGED <<text, size, overlap>>
  BY Zenon DEF CutWindow
<1> HIDE DEF end
<1>3. /\ start \in Nat /\ Len(text) \in Nat /\ size \in Nat \ {0}
      /\ overlap \in Nat
  BY TextTypes
<1>4. start' \in start + 1 .. end
  <2>1. start' = end \/ start' = NextStart(end)
    BY <1>2
  <2> QED
    BY <1>1, <1>3, <2>1 DEF NextStart
<1> QED
  BY <1>1, <1>2, <1>4

(* The next window begins no later than what this one did not hold whole:  *)
(* a passage that begins before it is whole in this one or an earlier one. *)
LEMMA CutWindowKeeps ==
  ASSUME ChunkingInv, CutWindow
  PROVE  ChunkingInv'
<1>1. ChunkingTypeOK /\ ChunksFit /\ PassagesAreWhole /\ ChunksAreFew
        /\ StepsCounted
  BY DEF ChunkingInv, ChunksCoverText
<1> DEFINE n == Len(chunks)
<1>2. /\ Len(text) \in Nat /\ size \in Nat \ {0} /\ overlap \in Nat
      /\ start \in Nat /\ start <= Len(text) /\ n \in Nat
  BY <1>1, TextTypes
<1>3. /\ DOMAIN text = 1 .. Len(text)
      /\ chunks \in Seq(SUBSET (1 .. Len(text)))
      /\ DOMAIN chunks = 1 .. n
  BY <1>1, TextTypes
<1> HIDE DEF n
<1>4. PICK end \in start + 1 .. Len(text) :
        /\ end = Len(text) \/ (end = start + size /\ end < Len(text))
        /\ end <= start + size
        /\ start' = IF end = Len(text) THEN end ELSE NextStart(end)
        /\ start' \in start + 1 .. end
        /\ chunks' = IF Strip(start + 1 .. end) = {} THEN chunks
                     ELSE Append(chunks, Strip(start + 1 .. end))
        /\ UNCHANGED <<text, size, overlap>>
  BY <1>1, CutWindowResult
<1>5. /\ end \in start + 1 .. Len(text) /\ end <= start + size
      /\ end = Len(text) \/ (end = start + size /\ end < Len(text))
      /\ start' \in start + 1 .. end
  BY <1>4, Zenon
<1>6. /\ end \in Nat /\ end <= Len(text) /\ start < end /\ end <= start + size
      /\ end = Len(text) \/ (end = start + size /\ end < Len(text))
      /\ start' \in Nat /\ start < start' /\ start' <= end
  BY <1>2, <1>5
<1>7. text' = text /\ size' = size /\ overlap' = overlap
  BY <1>4, Zenon
<1>8. /\ start' = end \/ start' = NextStart(end)
      /\ end # Len(text) => start' = NextStart(end)
      /\ end = Len(text) => start' = end
  BY <1>4, Zenon
<1> DEFINE chunk == Strip(start + 1 .. end)
<1>9. chunk \in SUBSET (1 .. Len(text))
  BY <1>2, <1>6 DEF Strip
<1> HIDE DEF chunk
<1>10. chunks' \in Seq(SUBSET (1 .. Len(text)))
  <2>1. CASE chunk = {}
    BY <1>3, <1>4, <2>1 DEF chunk
  <2>2. CASE chunk # {}
    BY <1>3, <1>4, <1>9, <2>2, AppendProperties DEF chunk
  <2> QED
    BY <2>1, <2>2
<1>11. /\ Len(chunks') = n \/ (Len(chunks') = n + 1 /\ chunk # {})
       /\ chunk # {} => Len(chunks') = n + 1 /\ chunks'[n + 1] = chunk
       /\ \A i \in 1 .. n : chunks'[i] = chunks[i]
  <2>1. CASE chunk = {}
    BY <1>4, <2>1 DEF chunk, n
  <2>2. CASE chunk # {}
    <3>1. chunks' = Append(chunks, chunk)
      BY <1>4, <2>2 DEF chunk
    <3>2. /\ Len(Append(chunks, chunk)) = n + 1
          /\ \A i \in 1 .. n : Append(chunks, chunk)[i] = chunks[i]
          /\ Append(chunks, chunk)[n + 1] = chunk
      <4> DEFINE S == SUBSET (1 .. Len(text))
      <4>1. chunks \in Seq(S) /\ chunk \in S
        BY <1>3, <1>9
      <4> HIDE DEF S
      <4> QED
        BY <4>1 DEF n
    <3> QED
      BY <2>2, <3>1, <3>2
  <2> QED
    BY <2>1, <2>2
<1>12. \A i : i \in DOMAIN chunks' <=> i \in 1 .. n \/ (i = n + 1 /\ chunk # {})
  <2> DEFINE m == Len(chunks')
  <2>1. DOMAIN chunks' = 1 .. m
    BY <1>10, LenProperties
  <2>2. m = n \/ (m = n + 1 /\ chunk # {})
    BY <1>11
  <2>3. chunk # {} => m = n + 1
    BY <1>11
  <2> HIDE DEF m
  <2> QED
    BY <1>2, <2>1, <2>2, <2>3
<1>13. ChunkingTypeOK'
  <2>1. start' \in 0 .. Len(text)
    BY <1>2, <1>6
  <2> QED
    BY <1>1, <1>7, <1>10, <2>1 DEF ChunkingTypeOK, Texts
<1>14. ChunksFit'
  <2> SUFFICES ASSUME NEW i \in DOMAIN chunks'
               PROVE  \E first, last \in DOMAIN text :
                        /\ text[first] /\ text[last]
                        /\ first <= last /\ last - first < size
                        /\ chunks'[i] = first .. last
    BY <1>7 DEF ChunksFit
  <2>1. CASE i \in 1 .. n
    <3>1. chunks'[i] = chunks[i]
      BY <1>11, <2>1
    <3> QED
      BY <1>1, <1>3, <2>1, <3>1 DEF ChunksFit
  <2>2. CASE i = n + 1 /\ chunk # {}
    <3>1. PICK first, last \in start + 1 .. end :
            /\ text[first] /\ text[last] /\ first <= last
            /\ chunk = first .. last
      BY <1>1, <1>6, <2>2, StripIsPassage DEF chunk
    <3>2. first \in 1 .. Len(text) /\ last \in 1 .. Len(text) /\ last - first < size
      BY <1>2, <1>6, <3>1
    <3> QED
      BY <1>3, <1>11, <2>2, <3>1, <3>2
  <2> QED
    BY <1>12, <2>1, <2>2
<1>15. PassagesAreWhole'
  <2> SUFFICES ASSUME NEW first \in DOMAIN text, NEW last \in DOMAIN text,
                      text[first], text[last], first <= start',
                      first <= last, last - first < size,
                      last - first <= overlap
               PROVE  \E i \in DOMAIN chunks' : first .. last \subseteq chunks'[i]
    BY <1>7 DEF PassagesAreWhole
  <2>0. first \in Nat /\ last \in Nat /\ last <= Len(text)
    BY <1>2, <1>3
  <2>1. CASE first <= start
    <3>1. PICK i \in DOMAIN chunks : first .. last \subseteq chunks[i]
      BY <1>1, <2>1 DEF PassagesAreWhole
    <3> QED
      BY <1>3, <1>11, <1>12, <3>1
  <2>2. CASE start < first
    <3>1. last <= end
      <4>1. CASE end = Len(text)
        BY <2>0, <4>1
      <4>2. CASE end # Len(text) /\ start < end - overlap
        <5>1. first <= end - overlap
          BY <1>2, <1>6, <1>8, <4>2 DEF NextStart
        <5> QED
          BY <1>2, <1>6, <2>0, <5>1
      <4>3. CASE end # Len(text) /\ ~(start < end - overlap)
        <5>1. first <= start + 1 /\ end = start + size
          BY <1>2, <1>6, <1>8, <4>3 DEF NextStart
        <5> QED
          BY <1>2, <1>6, <2>0, <5>1
      <4> QED
        BY <4>1, <4>2, <4>3
    <3>2. first \in start + 1 .. end /\ last \in start + 1 .. end
      BY <1>2, <1>6, <2>0, <2>2, <3>1
    <3>3. first .. last \subseteq chunk
      <4> SUFFICES ASSUME NEW i \in first .. last PROVE i \in chunk
        OBVIOUS
      <4>1. i \in start + 1 .. end /\ first <= i /\ i <= last
        BY <1>2, <1>6, <2>0, <3>2
      <4> QED
        BY <3>2, <4>1 DEF chunk, Strip
    <3>4. chunk # {}
      BY <2>0, <3>3
    <3>5. n + 1 \in DOMAIN chunks' /\ chunks'[n + 1] = chunk
      BY <1>11, <1>12, <3>4
    <3> QED
      BY <3>3, <3>5
  <2> QED
    BY <1>2, <2>0, <2>1, <2>2
<1>16. StepsCounted' /\ ChunksAreFew'
  <2>1. Len(chunks') <= start'
    <3>1. n <= start
      BY <1>1 DEF ChunksAreFew, n
    <3> QED
      BY <1>2, <1>6, <1>11, <3>1
  <2>2. ASSUME overlap < size
        PROVE  /\ start' < Len(text) =>
                    /\ Len(chunks') * (size - overlap) <= start'
                    /\ start' + overlap < Len(text)
               /\ Len(chunks') > 1 =>
                    (Len(chunks') - 1) * (size - overlap) + overlap < Len(text)
    <3> DEFINE d == size - overlap
    <3>1. d \in Nat \ {0}
      BY <1>2, <2>2
    <3>2. n * d <= start /\ (start = 0 \/ start + overlap < Len(text))
      BY <1>1, <1>2, <1>6, <2>2 DEF StepsCounted, n
    <3>3. n * d \in Nat /\ (n + 1) * d = n * d + d
      BY <1>2, <3>1
    <3>4. n > 0 => start > 0
      BY <1>1, <1>2 DEF ChunksAreFew, n
    <3>5. start' < Len(text) => start' = start + d /\ start' + overlap < Len(text)
      <4> SUFFICES ASSUME start' < Len(text)
                   PROVE  start' = start + d /\ start' + overlap < Len(text)
        OBVIOUS
      <4>1. end = start + size /\ end < Len(text)
        BY <1>2, <1>5, <1>6, <1>8
      <4>2. start < end - overlap
        BY <1>2, <2>2, <4>1
      <4>3. start' = end - overlap
        BY <1>8, <4>1, <4>2 DEF NextStart
      <4> QED
        BY <1>2, <4>1, <4>3
    <3>6. (n - 1) * d = n * d - d
      BY <1>2, <3>1
    <3> HIDE DEF d
    <3>7. CASE Len(chunks') = n
      <4>1. (Len(chunks') - 1) * d = n * d - d
        BY <3>6, <3>7
      <4>2. Len(chunks') * d = n * d
        BY <3>7
      <4> QED
        BY <1>2, <1>6, <3>1, <3>2, <3>3, <3>4, <3>5, <3>7, <4>1, <4>2 DEF d
    <3>8. CASE Len(chunks') = n + 1
      <4>1. (Len(chunks') - 1) * d = n * d
        <5>1. Len(chunks') - 1 = n
          BY <1>2, <3>8
        <5> QED
          BY <5>1
      <4>2. Len(chunks') * d = n * d + d
        BY <3>3, <3>8
      <4> QED
        BY <1>2, <1>6, <3>1, <3>2, <3>3, <3>4, <3>5, <3>8, <4>1, <4>2 DEF d
    <3> QED
      BY <1>11, <3>7, <3>8
  <2> QED
    BY <1>7, <2>1, <2>2 DEF StepsCounted, ChunksAreFew
<1> QED
  BY <1>13, <1>14, <1>15, <1>16 DEF ChunkingInv, ChunksCoverText

(* Nothing is cut yet.                                                     *)
NothingCut ==
  /\ text = <<>> \/ text \in Texts
  /\ size \in 1 .. MaxText /\ overlap \in 0 .. MaxText
  /\ start = 0 /\ chunks = <<>>

(* ... of any text.                                                        *)
LEMMA NothingCutInv == NothingCut => ChunkingInv
<1> SUFFICES ASSUME NothingCut PROVE ChunkingInv
  OBVIOUS
<1>1. ChunkingTypeOK
  <2>1. start \in 0 .. Len(text)
    <3>1. CASE text = <<>>
      BY <3>1 DEF NothingCut
    <3>2. CASE text \in Texts
      <4>1. PICK n \in 1 .. MaxText : text \in [1 .. n -> BOOLEAN]
        BY <3>2 DEF Texts
      <4>2. n \in Nat /\ text \in Seq(BOOLEAN)
        BY <4>1, ChunkingAssumption, SeqDef
      <4>3. Len(text) \in Nat
        BY <4>2, LenProperties
      <4> QED
        BY <4>3 DEF NothingCut
    <3> QED
      BY <3>1, <3>2 DEF NothingCut
  <2> QED
    BY <2>1 DEF ChunkingTypeOK, NothingCut
<1>2. /\ Len(text) \in Nat /\ DOMAIN text = 1 .. Len(text)
      /\ size \in Nat \ {0} /\ overlap \in Nat
      /\ Len(chunks) = 0 /\ DOMAIN chunks = {}
  BY <1>1, TextTypes DEF NothingCut
<1> QED
  BY <1>1, <1>2
  DEF NothingCut, ChunkingInv, ChunksCoverText, ChunksFit, PassagesAreWhole,
      ChunksAreFew,
      StepsCounted

(* Whatever the text, the size and the overlap, every chunk is a passage   *)
(* of the text of the right size, every passage no longer than a window    *)
(* and the overlap is whole in one, and chunks are few.                    *)
THEOREM ChunksCover == ChunkingSpec => [](ChunkingTypeOK /\ ChunksCoverText)
<1>1. ChunkingInit => ChunkingInv
  BY NothingCutInv, ChunkingAssumption DEF ChunkingInit, NothingCut
<1>2. ChunkingInv /\ [ChunkingNext]_chunkingVars => ChunkingInv'
  <2> SUFFICES ASSUME ChunkingInv, [ChunkingNext]_chunkingVars
               PROVE  ChunkingInv'
    OBVIOUS
  <2>0. (NothingCut => ChunkingInv)'
    BY NothingCutInv, PTL
  <2>1. CASE ChunkText
    <3>1. start = 0 /\ chunks = <<>>
      <4>1. ChunkingTypeOK /\ Len(chunks) <= start
        BY DEF ChunkingInv, ChunksCoverText, ChunksAreFew
      <4>2. Len(text) = 0
        BY <2>1 DEF ChunkText
      <4>3. start = 0 /\ Len(chunks) = 0
        BY <4>1, <4>2, TextTypes
      <4> QED
        BY <4>1, <4>3, TextTypes, EmptySeq
    <3> QED
      BY <2>0, <2>1, <3>1 DEF ChunkText, NothingCut
  <2>2. CASE CutWindow
    BY <2>2, CutWindowKeeps
  <2>3. CASE Return
    BY <2>0, <2>3, ChunkingAssumption DEF Return, NothingCut
  <2>4. CASE UNCHANGED chunkingVars
    BY <2>4 DEF chunkingVars, ChunkingInv, ChunkingTypeOK, ChunksCoverText,
                ChunksFit, PassagesAreWhole, ChunksAreFew, StepsCounted
  <2> QED
    BY <2>1, <2>2, <2>3, <2>4 DEF ChunkingNext
<1>3. ChunkingInv => ChunkingTypeOK /\ ChunksCoverText
  BY DEF ChunkingInv
<1> QED
  BY <1>1, <1>2, <1>3, PTL DEF ChunkingSpec

-----------------------------------------------------------------------------
(* The three together: a step is one of a service, or changes nothing of   *)
(* it, so each service behaves as its own module says.                     *)

THEOREM ServicesAreThree == ServicesSpec => AccountsSpec /\ StudySpec /\ ChunkingSpec
<1>1. ServicesInit => AccountsInit /\ StudyInit /\ ChunkingInit
  BY DEF ServicesInit
<1>2. [ServicesNext]_<<accountVars, studyVars, chunkingVars>> =>
        [AccountsNext]_accountVars /\ [StudyNext]_studyVars /\ [ChunkingNext]_chunkingVars
  BY Zenon DEF ServicesNext
<1> QED
  BY <1>1, <1>2, PTL DEF ServicesSpec, AccountsSpec, StudySpec, ChunkingSpec

(* Requests, rows, objects, calls, events and chunks have the types that   *)
(* their modules give them.                                                *)
THEOREM ServicesTypeCorrect == ServicesSpec => []ServicesTypeOK
<1>1. AccountsTypeOK /\ StudyTypeOK /\ ChunkingTypeOK => ServicesTypeOK
  BY DEF ServicesTypeOK
<1> QED
  BY <1>1, ServicesAreThree, AccountsTypeCorrect, StudyTypeCorrect, ChunksCover, PTL

(* Whatever the other services do, photos are stored, deactivated users    *)
(* stay so, chunks cover their text, reports keep the limits, events are   *)
(* exact and statistics add up.                                            *)
THEOREM ServicesStayCorrect ==
  ServicesSpec => /\ [](/\ PhotoIsStored /\ ChunksCoverText /\ LimitsKept
                       /\ EventsAreExact /\ StatisticsAddUp)
                  /\ DeactivationHolds
BY ServicesAreThree, PhotosAreStored, DeactivatedStaysSo, ChunksCover,
   LimitsStayKept, EventsStayExact, StatisticsStayRight, PTL
=================================================================================
