------------------------------- MODULE Accounts -------------------------------
(***************************************************************************)
(* Sign-in, profiles and profile photos.                                   *)
(*                                                                         *)
(* Supabase Auth knows the identities; the row of users that belongs to    *)
(* one, its profile, is created by the first request that misses it.       *)
(* Every request that needs a user goes through the same synchronisation,  *)
(* and then on to its handler.  A handler of photos changes the row and    *)
(* the bucket in separate calls, each of which may fail, or time out and   *)
(* be carried out later or never.                                          *)
(***************************************************************************)
EXTENDS Naturals

CONSTANTS
  Identities, Clients, None,
  EmailOf,              \* the address of an identity
  MaxPhotos, MaxFaults  \* bounds: objects ever named, calls that time out

ASSUME AccountsAssumption == MaxPhotos \in Nat /\ MaxFaults \in Nat

VARIABLES
  profile,  \* the status of each identity's row of users, or "absent"
  photo,    \* its profile_image_path, or 0
  objects,  \* objects in the profile bucket
  nPhotos,  \* names of objects given so far
  request,  \* what each client waits for
  reply,    \* the code that was just answered, if the step has answered one
  late,     \* calls that have timed out and may still be carried out
  faults,   \* calls that have timed out so far
  doubtful  \* history: photos whose row update has timed out

rows == <<profile, photo, objects>>

accountVars == <<rows, nPhotos, request, reply, late, faults, doubtful>>

Photos == 1 .. MaxPhotos

(* Requests that end in a session, in a message, or with a handler.        *)
SessionOps == {"register", "login", "verify-otp"}
MessageOps == {"send-otp", "forgot-password", "update-password", "logout"}
HandlerOps == {"me", "edit", "upload-photo", "get-photo", "delete-photo"}
Ops == SessionOps \cup MessageOps \cup HandlerOps

Codes == {"none", "ok", "too_many", "unavailable", "invalid_credentials",
          "unauthorized", "forbidden", "auth_error", "bad_request",
          "not_found", "server_error"}

(* path: the new object; previous: the one that the row named when it was  *)
(* read; code: what is answered after the new object is discarded.         *)
Request == [op : Ops, user : Identities,
            step : {"lookup", "create", "row", "upload", "update", "discard",
                    "cleanup", "sign"},
            path : Photos \cup {0}, previous : Photos \cup {0}, code : Codes]

(* A profile that is inserted, a photo that a row is set to, an object     *)
(* that is stored or removed.                                              *)
Late == [kind : {"profile", "row", "store", "remove"}, user : Identities,
         path : Photos \cup {0}]

AccountsTypeOK ==
  /\ profile \in [Identities -> {"absent", "active", "inactive"}]
  /\ photo \in [Identities -> Photos \cup {0}]
  /\ objects \subseteq 1 .. nPhotos
  /\ nPhotos \in 0 .. MaxPhotos
  /\ request \in [Clients -> Request \cup {None}]
  /\ reply \in Codes
  /\ late \subseteq Late
  /\ faults \in 0 .. MaxFaults
  /\ doubtful \subseteq Photos

-----------------------------------------------------------------------------
(* What Supabase Auth answers: an error, a message, a challenge, which     *)
(* names no identity yet, or an identity.                                  *)

Errors == {"limited", "down", "denied", "other"}

(* _raise_provider_error                                                   *)
ProviderError(op, e) ==
  CASE e = "limited"                     -> "too_many"
    [] e = "down"                        -> "unavailable"
    [] e \in {"denied", "other"} /\ op = "login"      -> "invalid_credentials"
    [] e \in {"denied", "other"} /\ op = "verify-otp" -> "unauthorized"
    [] e = "denied" /\ op \in {"update-password"} \cup HandlerOps
                                         -> "unauthorized"
    [] OTHER                             -> "auth_error"

Refusals(op) == {ProviderError(op, e) : e \in Errors}

(* An identity with or without a session, or nothing, which is an error.   *)
FormatAuthResponse == {"identity", "auth_error"}

(* Without a password, only a challenge is sent.                           *)
SignUp == Refusals("register") \cup {"challenge"} \cup FormatAuthResponse

SignInWithPassword == Refusals("login") \cup FormatAuthResponse

VerifyOtp == Refusals("verify-otp") \cup FormatAuthResponse

SignInWithOtp == Refusals("send-otp") \cup {"message"}

ResetPasswordForEmail == Refusals("forgot-password") \cup {"message"}

UpdateUserPassword == Refusals("update-password") \cup {"message", "auth_error"}

(* A session that is not valid any more counts as signed out.              *)
SignOut ==
  {ProviderError("logout", e) : e \in Errors \ {"denied"}} \cup {"message"}

(* A session that is not valid, or no user, is unauthorized in any case.   *)
GetUser(op) == Refusals(op) \cup {"unauthorized", "identity"}

ProviderAnswers(op) ==
  CASE op = "register"        -> SignUp
    [] op = "login"           -> SignInWithPassword
    [] op = "verify-otp"      -> VerifyOtp
    [] op = "send-otp"        -> SignInWithOtp
    [] op = "forgot-password" -> ResetPasswordForEmail
    [] op = "update-password" -> UpdateUserPassword
    [] op = "logout"          -> SignOut
    [] OTHER                  -> GetUser(op)

(* Without a session, the requests that need one are refused.              *)
Answers(op) ==
  ProviderAnswers(op) \cup
    (IF op \in {"update-password", "logout"} \cup HandlerOps
     THEN {"unauthorized"} ELSE {})

-----------------------------------------------------------------------------
(* Steps of a request.                                                     *)

At(c, s) == request[c] # None /\ request[c].step = s

GoTo(c, k) ==
  /\ request' = [request EXCEPT ![c] = k]
  /\ reply' = "none"

Answer(c, code) ==
  /\ request' = [request EXCEPT ![c] = None]
  /\ reply' = code

(* Nothing but the rows and the objects that the step speaks of changes.   *)
NoFault == UNCHANGED <<late, faults, doubtful>>

(* The call of client c times out; l may be carried out later.             *)
TimesOut(l) ==
  /\ faults < MaxFaults
  /\ faults' = faults + 1
  /\ late' = late \cup {l}
  /\ doubtful' = doubtful \cup (IF l.kind = "row" THEN {l.path} \ {0} ELSE {})
  /\ UNCHANGED rows

(* A request arrives, and Supabase Auth answers it: only an identity is    *)
(* synchronised with its profile.                                          *)
Arrive(c, u, op) ==
  /\ request[c] = None
  /\ \E a \in Answers(op) :
       CASE a = "identity" -> GoTo(c,
              [op |-> op, user |-> u, step |-> "lookup", path |-> 0,
               previous |-> 0, code |-> "none"])
         [] a \in {"challenge", "message"} -> Answer(c, "ok")
         [] OTHER -> Answer(c, a)
  /\ UNCHANGED <<rows, nPhotos>> /\ NoFault

(* The routes of /auth, which the limiter lets pass, and those of /users.  *)
AuthRoutes(c, u) == \E op \in SessionOps \cup MessageOps : Arrive(c, u, op)
UserRoutes(c, u) == \E op \in HandlerOps : Arrive(c, u, op)

(* The handler of the request, once its user is known.                     *)
Handle(c) ==
  IF request[c].op \in SessionOps \cup {"me"}
  THEN Answer(c, "ok")
  ELSE GoTo(c, [request[c] EXCEPT !.step =
                  IF request[c].op = "edit" THEN "update" ELSE "row"])

(* _sync_user_profile: a profile is looked for, or this fails.             *)
Lookup(c) ==
  /\ At(c, "lookup")
  /\ \/ profile[request[c].user] = "active" /\ Handle(c)
     \/ profile[request[c].user] = "inactive" /\ Answer(c, "forbidden")
     \/ /\ profile[request[c].user] = "absent"
        /\ GoTo(c, [request[c] EXCEPT !.step = "create"])
     \/ Answer(c, "auth_error")
  /\ UNCHANGED <<rows, nPhotos>> /\ NoFault

(* A profile of the identity, or one with its address, is in the way.      *)
Taken(u) == \E v \in Identities : profile[v] # "absent" /\ EmailOf[v] = EmailOf[u]

(* Mutated form: a row that is in the way is replaced.                     *)
UpsertProfile(u) ==
  /\ profile' = [profile EXCEPT ![u] = "active"]
  /\ UNCHANGED <<photo, objects>>

InsertProfile(u) ==
  /\ ~Taken(u)
  /\ profile' = [profile EXCEPT ![u] = "active"]
  /\ UNCHANGED <<photo, objects>>

(* It is created unless it is there by now, which is an error like any.    *)
CreateProfile(c) ==
  /\ At(c, "create")
  /\ \/ InsertProfile(request[c].user) /\ Handle(c) /\ NoFault
     \/ UNCHANGED rows /\ Answer(c, "auth_error") /\ NoFault
     \/ /\ TimesOut([kind |-> "profile", user |-> request[c].user, path |-> 0])
        /\ Answer(c, "auth_error")
  /\ UNCHANGED nPhotos

-----------------------------------------------------------------------------
(* Handlers: the row is read and written with the rights of the user, who  *)
(* sees nothing of it when the profile is not active.                      *)

Visible(u) == profile[u] = "active"

(* Reads the row.  An upload is checked, and its object gets a name.       *)
ReadRow(c) ==
  /\ At(c, "row")
  /\ LET k == request[c]  p == photo[k.user] IN
     \/ /\ Visible(k.user) /\ k.op = "upload-photo"
        /\ nPhotos < MaxPhotos
        /\ nPhotos' = nPhotos + 1
        /\ GoTo(c, [k EXCEPT !.step = "upload", !.path = nPhotos + 1,
                             !.previous = p])
     \/ /\ Visible(k.user) /\ k.op = "delete-photo"
        /\ GoTo(c, [k EXCEPT !.step = "update", !.previous = p])
        /\ UNCHANGED nPhotos
     \/ /\ Visible(k.user) /\ k.op = "get-photo" /\ p # 0
        /\ GoTo(c, [k EXCEPT !.step = "sign", !.path = p])
        /\ UNCHANGED nPhotos
     \/ /\ ~Visible(k.user) \/ (k.op = "get-photo" /\ p = 0)
        /\ Answer(c, "not_found")
        /\ UNCHANGED nPhotos
     \/ /\ Visible(k.user) /\ k.op = "upload-photo"
        /\ Answer(c, "bad_request")
        /\ UNCHANGED nPhotos
     \/ Answer(c, "server_error") /\ UNCHANGED nPhotos
  /\ UNCHANGED rows /\ NoFault

(* Each photo is an object of its own: none is written over.               *)
Store(p) == objects' = objects \cup {p} /\ UNCHANGED <<profile, photo>>

Upload(c) ==
  /\ At(c, "upload")
  /\ LET k == request[c] IN
     \/ /\ Visible(k.user) /\ Store(k.path)
        /\ GoTo(c, [k EXCEPT !.step = "update"]) /\ NoFault
     \/ UNCHANGED rows /\ Answer(c, "server_error") /\ NoFault
     \/ /\ TimesOut([kind |-> "store", user |-> k.user, path |-> k.path])
        /\ Answer(c, "server_error")
  /\ UNCHANGED nPhotos

SetPhoto(u, p) ==
  /\ photo' = [photo EXCEPT ![u] = p]
  /\ UNCHANGED <<profile, objects>>

(* An update that fails, or finds no row, leaves an upload its new object. *)
Fails(c, code) ==
  IF request[c].op = "upload-photo"
  THEN GoTo(c, [request[c] EXCEPT !.step = "discard", !.code = code])
  ELSE Answer(c, code)

(* The names of a profile are not modelled: their update, which is refused *)
(* when it is empty, changes nothing else.                                 *)
UpdateRow(c) ==
  /\ At(c, "update")
  /\ LET k == request[c] IN
     \/ /\ Visible(k.user) /\ NoFault
        /\ IF k.op = "edit"
           THEN UNCHANGED rows /\ (Answer(c, "ok") \/ Answer(c, "bad_request"))
           ELSE /\ SetPhoto(k.user, k.path)
                /\ GoTo(c, [k EXCEPT !.step = "cleanup"])
     \/ ~Visible(k.user) /\ UNCHANGED rows /\ Fails(c, "not_found") /\ NoFault
     \/ UNCHANGED rows /\ Fails(c, "server_error") /\ NoFault
     \/ /\ k.op # "edit"
        /\ TimesOut([kind |-> "row", user |-> k.user, path |-> k.path])
        /\ Fails(c, "server_error")
  /\ UNCHANGED nPhotos

RemoveObject(p) == objects' = objects \ {p} /\ UNCHANGED <<profile, photo>>

(* The object is removed, or not, which is only logged.                    *)
DeleteBestEffort(u, p) ==
  \/ Visible(u) /\ RemoveObject(p) /\ NoFault
  \/ UNCHANGED rows /\ NoFault
  \/ TimesOut([kind |-> "remove", user |-> u, path |-> p])

Discard(c) ==
  /\ At(c, "discard")
  /\ DeleteBestEffort(request[c].user, request[c].path)
  /\ Answer(c, request[c].code)
  /\ UNCHANGED nPhotos

(* The end of the upload of a photo, and of its removal.                   *)
AfterCleanup(c) ==
  IF request[c].op = "upload-photo"
  THEN GoTo(c, [request[c] EXCEPT !.step = "sign"])
  ELSE Answer(c, "ok")

(* Mutated form: what the row names now is removed, not what it named when *)
(* the request read it.                                                    *)
CleanupCurrent(c) ==
  /\ At(c, "cleanup")
  /\ LET k == request[c]  p == photo[k.user] IN
     IF k.previous \in {0, k.path}
     THEN UNCHANGED rows /\ NoFault
     ELSE DeleteBestEffort(k.user, p)
  /\ AfterCleanup(c)
  /\ UNCHANGED nPhotos

Cleanup(c) ==
  /\ At(c, "cleanup")
  /\ LET k == request[c] IN
     IF k.previous \in {0, k.path}
     THEN UNCHANGED rows /\ NoFault
     ELSE DeleteBestEffort(k.user, k.previous)
  /\ AfterCleanup(c)
  /\ UNCHANGED nPhotos

(* The URL of the object that the request has stored, or has read the name *)
(* of; another request may have removed it.                                *)
SignUrl(c) ==
  /\ At(c, "sign")
  /\ \/ request[c].path \in objects /\ Answer(c, "ok")
     \/ Answer(c, "bad_request")
  /\ UNCHANGED <<rows, nPhotos>> /\ NoFault

-----------------------------------------------------------------------------

(* A call that has timed out is carried out, with the effect that it would *)
(* have now, or is lost.                                                   *)
CarryOut(l) ==
  /\ late' = late \ {l}
  /\ CASE l.kind = "profile" -> InsertProfile(l.user)
       [] l.kind = "row"     -> Visible(l.user) /\ SetPhoto(l.user, l.path)
       [] l.kind = "store"   -> Visible(l.user) /\ Store(l.path)
       [] l.kind = "remove"  -> Visible(l.user) /\ RemoveObject(l.path)
  /\ reply' = "none"
  /\ UNCHANGED <<nPhotos, request, faults, doubtful>>

Lose(l) ==
  /\ late' = late \ {l}
  /\ reply' = "none"
  /\ UNCHANGED <<rows, nPhotos, request, faults, doubtful>>

(* The operator deactivates or activates a profile.                        *)
SetStatus(u) ==
  /\ profile[u] # "absent"
  /\ profile' = [profile EXCEPT ![u] = IF @ = "active" THEN "inactive" ELSE "active"]
  /\ reply' = "none"
  /\ UNCHANGED <<photo, objects, nPhotos, request>> /\ NoFault

AccountsInit ==
  /\ profile = [u \in Identities |-> "absent"]
  /\ photo = [u \in Identities |-> 0]
  /\ objects = {} /\ nPhotos = 0
  /\ request = [c \in Clients |-> None]
  /\ reply = "none"
  /\ late = {} /\ faults = 0 /\ doubtful = {}

ClientStep(c) ==
  \/ Lookup(c) \/ CreateProfile(c)
  \/ ReadRow(c) \/ Upload(c) \/ UpdateRow(c) \/ Discard(c) \/ Cleanup(c)
  \/ SignUrl(c)

AccountsNext ==
  \/ \E c \in Clients :
       ClientStep(c) \/ \E u \in Identities : AuthRoutes(c, u) \/ UserRoutes(c, u)
  \/ \E l \in late : CarryOut(l) \/ Lose(l)
  \/ \E u \in Identities : SetStatus(u)

AccountsSpec == AccountsInit /\ [][AccountsNext]_accountVars

-----------------------------------------------------------------------------

(* The photo that a profile names is in the bucket, whatever replacements  *)
(* and removals overlap, each of which removes the object that it found:   *)
(* except one whose update has timed out, which was taken for a failure.   *)
PhotoIsStored ==
  \A u \in Identities : photo[u] \in objects \cup doubtful \cup {0}

(* A profile that the operator has deactivated stays so until they         *)
(* activate it again: no sign-in that missed the profile before, and no    *)
(* insertion that comes late, gives it back its status.                    *)
DeactivationHolds ==
  [][\A u \in Identities :
       profile[u] = "inactive" /\ profile'[u] = "active" => SetStatus(u)]_accountVars
=============================================================================
