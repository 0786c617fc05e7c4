------------------------------ MODULE Workspace ------------------------------
(***************************************************************************)
(* Notebooks, study rooms and their members.                               *)
(*                                                                         *)
(* A user reads a notebook of their own, and those linked to a room that   *)
(* they are a member of under their identity, a row of study_members.      *)
(* Requests are one statement under the row policies of the database, an   *)
(* action each; one that is refused changes nothing.  Two of them run      *)
(* functions of several statements, in transactions that interleave with   *)
(* everything else: the creation of a room and the linking of a notebook.  *)
(* Rows of identities, rooms and notebooks are numbered as they are        *)
(* created: identifiers are never used again.                              *)
(***************************************************************************)
EXTENDS Naturals

CONSTANTS
  Users, Clients, None,
  MaxMembers, MaxRooms, MaxNotebooks  \* bounds: rows ever created

Roles == {"user", "admin"}

ASSUME WorkspaceAssumption ==
  /\ None \notin Users \cup Roles
  /\ MaxMembers \in Nat /\ MaxRooms \in Nat /\ MaxNotebooks \in Nat

VARIABLES
  active,     \* users whose profile is active
  identity,   \* the row of each user in study_members, or 0
  role,       \* members_rooms
  notebooks,  \* the rows of notebooks
  personal,   \* personal_notebooks: the owner
  link,       \* room_notebooks: the room, and the member who linked it
  nMembers, nRooms, nNotebooks,  \* rows created so far
  call,       \* the transaction that a client's request waits for
  managed     \* history: who has ever managed each notebook

rows == <<active, identity, role, notebooks, personal, link>>

vars == <<rows, nMembers, nRooms, nNotebooks, call, managed>>

Members   == 1 .. MaxMembers
Rooms     == 1 .. MaxRooms
Notebooks == 1 .. MaxNotebooks
Link      == [room : Rooms, by : Members]

(* own: the transaction inserted the identity, which nobody else sees yet; *)
(* lost: an identity of the user was deleted meanwhile.                    *)
Call == [kind : {"room", "link"}, user : Users,
         step : {"insert", "reread", "check", "commit"},
         member : Members \cup {0}, own : BOOLEAN, lost : BOOLEAN,
         room : Rooms \cup {0}, notebook : Notebooks \cup {0}]

(* Rows refer to rows that exist.                                          *)
ReferencesOK ==
  /\ \A n \in Notebooks : personal[n] # None \/ link[n] # None => n \in notebooks
  /\ \A n \in Notebooks : link[n] # None => role[<<link[n].by, link[n].room>>] # None
  /\ \A m \in Members, r \in Rooms :
       role[<<m, r>>] # None => \E u \in Users : identity[u] = m
  /\ \A u, v \in Users : identity[u] = identity[v] /\ identity[u] # 0 => u = v

TypeOK ==
  /\ active \subseteq Users
  /\ identity \in [Users -> Members \cup {0}]
  /\ role \in [Members \X Rooms -> Roles \cup {None}]
  /\ notebooks \subseteq 1 .. nNotebooks
  /\ personal \in [Notebooks -> Users \cup {None}]
  /\ link \in [Notebooks -> Link \cup {None}]
  /\ nMembers \in 0 .. MaxMembers
  /\ nRooms \in 0 .. MaxRooms
  /\ nNotebooks \in 0 .. MaxNotebooks
  /\ call \in [Clients -> Call \cup {None}]
  /\ managed \in [Notebooks -> SUBSET Users]
  /\ ReferencesOK

-----------------------------------------------------------------------------
(* What the row policies ask about the acting user.                        *)

IsMember(u, r) ==
  u \in active /\ identity[u] # 0 /\ role[<<identity[u], r>>] # None

IsAdmin(u, r) ==
  u \in active /\ identity[u] # 0 /\ role[<<identity[u], r>>] = "admin"

CanRead(u, n) ==
  /\ u \in active
  /\ \/ personal[n] = u
     \/ link[n] # None /\ IsMember(u, link[n].room)

CanManage(u, n) ==
  /\ u \in active
  /\ \/ personal[n] = u
     \/ link[n] # None /\ IsAdmin(u, link[n].room)

(* GET /notebooks                                                          *)
ListNotebooks(u) == {n \in notebooks : CanRead(u, n)}

(* A member who linked a notebook to a room cannot leave it (RESTRICT).    *)
Restricted(m, r) ==
  \E n \in Notebooks : link[n] # None /\ link[n] = [room |-> r, by |-> m]

-----------------------------------------------------------------------------
(* Transactions of several statements.                                     *)

Set(c, k) == call' = [call EXCEPT ![c] = k]

End(c) == Set(c, None)

(* Somebody else's uncommitted row, which an insertion waits for.          *)
Pending(u) == \E d \in Clients : call[d] # None /\ call[d].own /\ call[d].user = u

Transaction(k, u, s) ==
  [kind |-> k, user |-> u, step |-> s, member |-> identity[u], own |-> FALSE,
   lost |-> FALSE, room |-> 0, notebook |-> 0]

BeginRoom(c, u) ==
  /\ call[c] = None
  /\ u \in active
  /\ Set(c, Transaction("room", u,
                        IF identity[u] = 0 THEN "insert" ELSE "commit"))
  /\ UNCHANGED <<rows, nMembers, nRooms, nNotebooks>>

(* ON CONFLICT (user_id) DO NOTHING.  Mutated form: without reading the    *)
(* identity that the conflict is with.                                     *)
InsertOnly(c) ==
  /\ call[c] # None
  /\ call[c].step = "insert"
  /\ ~Pending(call[c].user)
  /\ IF identity[call[c].user] # 0
     THEN /\ Set(c, [call[c] EXCEPT !.step = "commit"])
          /\ UNCHANGED nMembers
     ELSE /\ nMembers < MaxMembers
          /\ nMembers' = nMembers + 1
          /\ Set(c, [call[c] EXCEPT !.step = "commit", !.own = TRUE,
                                    !.member = nMembers + 1])
  /\ UNCHANGED <<rows, nRooms, nNotebooks>>

InsertIdentity(c) ==
  /\ call[c] # None
  /\ call[c].step = "insert"
  /\ ~Pending(call[c].user)
  /\ IF identity[call[c].user] # 0
     THEN /\ Set(c, [call[c] EXCEPT !.step = "reread"])
          /\ UNCHANGED nMembers
     ELSE /\ nMembers < MaxMembers
          /\ nMembers' = nMembers + 1
          /\ Set(c, [call[c] EXCEPT !.step = "commit", !.own = TRUE,
                                    !.member = nMembers + 1])
  /\ UNCHANGED <<rows, nRooms, nNotebooks>>

ReadWinner(c) ==
  /\ call[c] # None
  /\ call[c].step = "reread"
  /\ Set(c, [call[c] EXCEPT !.step = "commit",
                            !.member = identity[call[c].user]])
  /\ UNCHANGED <<rows, nMembers, nRooms, nNotebooks>>

(* The room and its first administrator, unless the identity is gone: then *)
(* the request fails.                                                      *)
CommitRoom(c) ==
  /\ call[c] # None
  /\ call[c].kind = "room" /\ call[c].step = "commit"
  /\ LET m == call[c].member  u == call[c].user IN
     IF call[c].own \/ (m # 0 /\ identity[u] = m)
     THEN /\ nRooms < MaxRooms
          /\ nRooms' = nRooms + 1
          /\ identity' = [identity EXCEPT ![u] = m]
          /\ role' = [role EXCEPT ![<<m, nRooms + 1>>] = "admin"]
     ELSE UNCHANGED <<nRooms, identity, role>>
  /\ End(c)
  /\ UNCHANGED <<active, notebooks, personal, link, nMembers,
                 nNotebooks>>

BeginLink(c, u, r, n) ==
  /\ call[c] = None
  /\ u \in active
  /\ identity[u] # 0
  /\ Set(c, [Transaction("link", u, "check") EXCEPT !.room = r, !.notebook = n])
  /\ UNCHANGED <<rows, nMembers, nRooms, nNotebooks>>

(* Mutated form: any reader of the notebook may link it.                   *)
ReaderLinks(c) ==
  /\ call[c] # None
  /\ call[c].step = "check"
  /\ IF IsAdmin(call[c].user, call[c].room)
        /\ CanRead(call[c].user, call[c].notebook)
     THEN Set(c, [call[c] EXCEPT !.step = "commit"])
     ELSE End(c)
  /\ UNCHANGED <<rows, nMembers, nRooms, nNotebooks>>

CheckLink(c) ==
  /\ call[c] # None
  /\ call[c].step = "check"
  /\ IF IsAdmin(call[c].user, call[c].room)
        /\ CanManage(call[c].user, call[c].notebook)
     THEN Set(c, [call[c] EXCEPT !.step = "commit"])
     ELSE End(c)
  /\ UNCHANGED <<rows, nMembers, nRooms, nNotebooks>>

(* The link, as long as the notebook is not linked yet and the notebook    *)
(* and the membership that the row refers to exist.                        *)
CommitLink(c) ==
  /\ call[c] # None
  /\ call[c].kind = "link" /\ call[c].step = "commit"
  /\ LET k == call[c] IN
     IF /\ k.notebook \in notebooks /\ link[k.notebook] = None
        /\ role[<<k.member, k.room>>] # None
     THEN link' = [link EXCEPT ![k.notebook] = [room |-> k.room, by |-> k.member]]
     ELSE UNCHANGED link
  /\ End(c)
  /\ UNCHANGED <<active, identity, role, notebooks, personal,
                 nMembers, nRooms, nNotebooks>>

(* A transaction that fails leaves nothing.                                *)
Abort(c) ==
  /\ call[c] # None
  /\ End(c)
  /\ UNCHANGED <<rows, nMembers, nRooms, nNotebooks>>

-----------------------------------------------------------------------------
(* Rooms and their members.                                                *)

(* The memberships and the links of the room go with it, also those that   *)
(* would keep a member from leaving.                                       *)
DeleteRoom(u, r) ==
  /\ IsAdmin(u, r)
  /\ role' = [x \in Members \X Rooms |-> IF x[2] = r THEN None ELSE role[x]]
  /\ link' = [n \in Notebooks |->
                IF link[n] # None /\ link[n].room = r THEN None ELSE link[n]]
  /\ UNCHANGED <<active, identity, notebooks, personal,
                 nMembers, nRooms, nNotebooks, call>>

SetMembership(m, r, x) ==
  /\ role' = [role EXCEPT ![<<m, r>>] = x]
  /\ UNCHANGED <<active, identity, notebooks, personal, link,
                 nMembers, nRooms, nNotebooks, call>>

AddMember(u, r, m, x) ==
  /\ IsAdmin(u, r)
  /\ \E v \in Users : identity[v] = m
  /\ role[<<m, r>>] = None
  /\ SetMembership(m, r, x)

(* Not by a route, but by the policy and the grant of the table.           *)
ChangeRole(u, r, m, x) ==
  /\ IsAdmin(u, r)
  /\ role[<<m, r>>] # None
  /\ SetMembership(m, r, x)

(* Mutated form: the membership that a link refers to is not kept.         *)
RemoveAnyMember(u, r, m) ==
  /\ IsAdmin(u, r)
  /\ role[<<m, r>>] # None
  /\ SetMembership(m, r, None)

(* Also of the last administrator.                                         *)
RemoveMember(u, r, m) ==
  /\ IsAdmin(u, r)
  /\ role[<<m, r>>] # None
  /\ ~Restricted(m, r)
  /\ SetMembership(m, r, None)

RemoveLink(u, r, n) ==
  /\ IsAdmin(u, r)
  /\ link[n] # None /\ link[n].room = r
  /\ link' = [link EXCEPT ![n] = None]
  /\ UNCHANGED <<active, identity, role, notebooks, personal,
                 nMembers, nRooms, nNotebooks, call>>

RoomRequests(u) ==
  \/ \E c \in Clients : BeginRoom(c, u)
  \/ \E c \in Clients, r \in Rooms, n \in Notebooks : BeginLink(c, u, r, n)
  \/ \E r \in Rooms :
       \/ DeleteRoom(u, r)
       \/ \E m \in Members : RemoveMember(u, r, m)
       \/ \E m \in Members, x \in Roles :
            AddMember(u, r, m, x) \/ ChangeRole(u, r, m, x)
       \/ \E n \in Notebooks : RemoveLink(u, r, n)

-----------------------------------------------------------------------------
(* Identities.                                                             *)

CreateStudyMember(u) ==
  /\ u \in active
  /\ identity[u] = 0 /\ ~Pending(u)
  /\ nMembers < MaxMembers
  /\ nMembers' = nMembers + 1
  /\ identity' = [identity EXCEPT ![u] = nMembers + 1]
  /\ UNCHANGED <<active, role, notebooks, personal, link, nRooms,
                 nNotebooks, call>>

(* The memberships go with the identity, unless one of them must stay.     *)
DeleteStudyMember(u) ==
  /\ u \in active
  /\ identity[u] # 0
  /\ \A r \in Rooms : ~Restricted(identity[u], r)
  /\ identity' = [identity EXCEPT ![u] = 0]
  /\ role' = [x \in Members \X Rooms |->
                IF x[1] = identity[u] THEN None ELSE role[x]]
  /\ call' = [c \in Clients |->
                IF call[c] # None /\ call[c].user = u
                THEN [call[c] EXCEPT !.lost = TRUE] ELSE call[c]]
  /\ UNCHANGED <<active, notebooks, personal, link, nMembers,
                 nRooms, nNotebooks>>

StudyMemberRequests(u) == CreateStudyMember(u) \/ DeleteStudyMember(u)

-----------------------------------------------------------------------------
(* Notebooks.                                                              *)

(* The notebook and its owner, in one transaction.                         *)
CreateNotebook(u) ==
  /\ u \in active
  /\ nNotebooks < MaxNotebooks
  /\ nNotebooks' = nNotebooks + 1
  /\ notebooks' = notebooks \cup {nNotebooks + 1}
  /\ personal' = [personal EXCEPT ![nNotebooks + 1] = u]
  /\ UNCHANGED <<active, identity, role, link, nMembers, nRooms,
                 call>>

DeleteNotebook(u, n) ==
  /\ CanManage(u, n)
  /\ notebooks' = notebooks \ {n}
  /\ personal' = [personal EXCEPT ![n] = None]
  /\ link' = [link EXCEPT ![n] = None]
  /\ UNCHANGED <<active, identity, role, nMembers, nRooms, nNotebooks,
                 call>>

(* Not by a route, but by the policy and the grant of the table; a         *)
(* notebook without any link is left to nobody.                            *)
DisownNotebook(u, n) ==
  /\ u \in active
  /\ personal[n] = u
  /\ personal' = [personal EXCEPT ![n] = None]
  /\ UNCHANGED <<active, identity, role, notebooks, link,
                 nMembers, nRooms, nNotebooks, call>>

NotebookRequests(u) ==
  \/ CreateNotebook(u)
  \/ \E n \in Notebooks :
       \/ DeleteNotebook(u, n)
       \/ DisownNotebook(u, n)

(* The operator deactivates or activates a profile.                        *)
SetActive(u) ==
  /\ active' = IF u \in active THEN active \ {u} ELSE active \cup {u}
  /\ UNCHANGED <<identity, role, notebooks, personal, link, nMembers, nRooms,
                 nNotebooks, call>>

Steps(c) ==
  \/ InsertIdentity(c) \/ ReadWinner(c) \/ CommitRoom(c)
  \/ CheckLink(c) \/ CommitLink(c) \/ Abort(c)

Init ==
  /\ active = Users
  /\ identity = [u \in Users |-> 0]
  /\ role = [x \in Members \X Rooms |-> None]
  /\ notebooks = {}
  /\ personal = [n \in Notebooks |-> None]
  /\ link = [n \in Notebooks |-> None]
  /\ nMembers = 0 /\ nRooms = 0 /\ nNotebooks = 0
  /\ call = [c \in Clients |-> None]
  /\ managed = [n \in Notebooks |-> {}]

Remember ==
  managed' = [n \in Notebooks |-> managed[n] \cup {u \in Users : CanManage(u, n)'}]

Next ==
  /\ \/ \E c \in Clients : Steps(c)
     \/ \E u \in Users :
          \/ RoomRequests(u) \/ StudyMemberRequests(u) \/ NotebookRequests(u)
          \/ SetActive(u)
  /\ Remember

Spec == Init /\ [][Next]_vars

-----------------------------------------------------------------------------

(* Nobody gets at a notebook that somebody who managed it did not give     *)
(* away: what a user lists was managed by them before, or is linked by a   *)
(* member of that room who had managed it, and still is a member.  The     *)
(* identity of who links a notebook, the checks and the insertion are      *)
(* separate statements, between which roles, memberships, identities and   *)
(* links change.                                                           *)
SharedByManagers ==
  \A u \in Users : \A n \in ListNotebooks(u) :
    \/ u \in managed[n]
    \/ \E v \in managed[n] : /\ identity[v] = link[n].by
                             /\ role[<<link[n].by, link[n].room>>] # None

(* "A concurrent room creation can win the unique user_id insert while     *)
(* this transaction waits.  Read the winner instead of failing the whole   *)
(* RPC": the creation of a room by an active user fails only when its      *)
(* transaction does, or when their identity is deleted meanwhile.          *)
CreationRaceIsHarmless ==
  [][\A c \in Clients :
       CommitRoom(c) /\ nRooms' = nRooms => call[c].lost]_vars
=============================================================================
