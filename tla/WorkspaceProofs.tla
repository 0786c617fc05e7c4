--------------------------- MODULE WorkspaceProofs ---------------------------
(***************************************************************************)
(* Proofs about Workspace: its rows refer to rows that exist, notebooks    *)
(* are shared by those who have managed them, and the creations of rooms   *)
(* do not fail each other.                                                 *)
(***************************************************************************)
EXTENDS Workspace, TLAPS

(* What is known of a running transaction: its identity is that of its     *)
(* user or nobody's, the one that it inserted is not seen yet, who is      *)
(* about to link a notebook has managed it, and a creation that goes on    *)
(* without an identity of its own has lost one or knows the one there is.  *)
Sound(k) ==
  /\ k.member <= nMembers
  /\ k.member # 0 => \A u \in Users : identity[u] = k.member => u = k.user
  /\ k.own => /\ k.member # 0 /\ k.step = "commit" /\ k.kind = "room"
              /\ identity[k.user] = 0
              /\ \A u \in Users : identity[u] # k.member
  /\ k.kind = "link" =>
       /\ k.step \in {"check", "commit"}
       /\ k.room # 0 /\ k.notebook # 0 /\ k.member # 0
       /\ k.step = "commit" => k.user \in managed[k.notebook]
  /\ k.kind = "room" =>
       /\ k.step \in {"insert", "reread", "commit"}
       /\ k.step = "reread" => k.lost \/ identity[k.user] # 0
       /\ k.step = "commit" /\ ~k.own =>
            k.lost \/ (k.member # 0 /\ identity[k.user] = k.member)

(* Nobody knows the identity that a transaction has inserted.              *)
Apart(k, l) == k.own => k.member # l.member /\ (l.own => k.user # l.user)

CallInv ==
  /\ \A c \in Clients : call[c] # None => Sound(call[c])
  /\ \A c, d \in Clients :
       c # d /\ call[c] # None /\ call[d] # None => Apart(call[c], call[d])

(* Who manages a notebook, and who linked it, is in its history.           *)
RowInv ==
  /\ \A u \in Users : identity[u] <= nMembers
  /\ \A u \in Users, n \in Notebooks : CanManage(u, n) => u \in managed[n]
  /\ \A n \in Notebooks : link[n] # None =>
       \E v \in managed[n] : identity[v] = link[n].by

IInv == TypeOK /\ CallInv /\ RowInv

USE WorkspaceAssumption

-----------------------------------------------------------------------------

(* The history only grows, and every new manager is in it.                 *)
LEMMA ManagedGrows ==
  ASSUME TypeOK, Remember
  PROVE  /\ managed' \in [Notebooks -> SUBSET Users]
         /\ \A n \in Notebooks : managed[n] \subseteq managed'[n]
         /\ \A u \in Users, n \in Notebooks :
              CanManage(u, n)' => u \in managed'[n]
BY DEF Remember, TypeOK

LEMMA InitOK ==
  ASSUME Init PROVE IInv
<1> USE DEF Init
<1>1. TypeOK
  BY DEF TypeOK, ReferencesOK, Members, Rooms, Notebooks
<1>2. CallInv
  BY DEF CallInv
<1>3. RowInv
  BY DEF RowInv, CanManage
<1> QED
  BY <1>1, <1>2, <1>3 DEF IInv

(* What is known of a transaction stays so as long as no identity changes. *)
LEMMA SoundStays ==
  ASSUME TypeOK, Remember, NEW k \in Call, Sound(k), identity' = identity,
         nMembers' \in Nat, nMembers <= nMembers'
  PROVE  Sound(k)'
<1>1. \A n \in Notebooks : managed[n] \subseteq managed'[n]
  BY ManagedGrows
<1>2. k.member \in Nat /\ nMembers \in Nat /\ k.notebook \in Notebooks \cup {0}
  BY DEF TypeOK, Call, Members
<1> QED
  BY <1>1, <1>2 DEF Sound

(* A transaction is replaced by k, or ends, and no identity changes.       *)
LEMMA CallUpdated ==
  ASSUME IInv, Remember, identity' = identity, nMembers' \in Nat,
         nMembers <= nMembers', NEW c \in Clients, NEW k \in Call \cup {None},
         call' = [call EXCEPT ![c] = k],
         k # None =>
           /\ Sound(k)'
           /\ \A d \in Clients \ {c} :
                call[d] # None => Apart(k, call[d]) /\ Apart(call[d], k)
  PROVE  CallInv'
<1> USE DEF IInv, TypeOK
<1>1. \A d \in Clients : call'[d] = IF d = c THEN k ELSE call[d]
  OBVIOUS
<1>2. ASSUME NEW d \in Clients, call'[d] # None PROVE Sound(call[d])'
  <2>1. PICK l : l = call'[d]
    OBVIOUS
  <2>2. Sound(l)'
    <3>1. CASE d = c
      BY <1>1, <1>2, <2>1, <3>1
    <3>2. CASE d # c
      <4>1. l = call[d] /\ l \in Call /\ Sound(l)
        BY <1>1, <1>2, <2>1, <3>2 DEF CallInv, Sound
      <4> QED
        BY <4>1, SoundStays
    <3> QED
      BY <3>1, <3>2
  <2> QED
    BY <2>1, <2>2 DEF Sound
<1>3. ASSUME NEW d \in Clients, NEW e \in Clients, d # e, call'[d] # None,
             call'[e] # None
      PROVE  Apart(call[d], call[e])'
  BY <1>1, <1>3 DEF CallInv, Apart
<1> QED
  BY <1>2, <1>3 DEF CallInv

(* Rows that nothing is done to keep what is known of them.                *)
LEMMA RowsKept ==
  ASSUME IInv, Remember, rows' = rows, nMembers' \in Nat, nMembers <= nMembers'
  PROVE  RowInv'
<1>1. /\ \A n \in Notebooks : managed[n] \subseteq managed'[n]
      /\ \A u \in Users, n \in Notebooks : CanManage(u, n)' => u \in managed'[n]
  BY ManagedGrows DEF IInv
<1>2. \A u \in Users : identity[u] \in Nat
  BY DEF IInv, TypeOK, Members
<1>3. nMembers \in Nat
  BY DEF IInv, TypeOK
<1> QED
  BY <1>1, <1>2, <1>3 DEF IInv, RowInv, rows

(* What the steps of TransactionStep leave alone.                          *)
Frame ==
  /\ rows' = rows /\ UNCHANGED <<nRooms, nNotebooks>>
  /\ nMembers' \in 0 .. MaxMembers /\ nMembers <= nMembers'

(* A step that replaces one transaction, or ends it, and keeps the rows.   *)
LEMMA TransactionStep ==
  ASSUME IInv, Remember, Frame, NEW c \in Clients, NEW k \in Call \cup {None},
         call' = [call EXCEPT ![c] = k],
         k # None =>
           /\ Sound(k)'
           /\ \A d \in Clients \ {c} :
                call[d] # None => Apart(k, call[d]) /\ Apart(call[d], k)
  PROVE  IInv'
<1>1. TypeOK'
  BY ManagedGrows DEF IInv, TypeOK, ReferencesOK, rows, Frame
<1>2. CallInv'
  <2>1. identity' = identity /\ nMembers' \in Nat
    BY DEF rows, Frame
  <2>2. nMembers <= nMembers'
    BY DEF Frame
  <2> QED
    BY <2>1, <2>2, CallUpdated
<1>3. RowInv'
  <2>1. rows' = rows /\ nMembers' \in Nat /\ nMembers <= nMembers'
    BY DEF Frame
  <2> QED
    BY <2>1, RowsKept
<1> QED
  BY <1>1, <1>2, <1>3 DEF IInv

(* A transaction that has inserted no identity is apart from the others.   *)
LEMMA NotOwn ==
  ASSUME IInv, NEW c \in Clients, NEW d \in Clients \ {c}, call[d] # None,
         NEW k \in Call, ~k.own,
         \/ k.member = 0
         \/ \E u \in Users : identity[u] = k.member
         \/ call[c] # None /\ k.member = call[c].member
  PROVE  Apart(k, call[d]) /\ Apart(call[d], k)
BY DEF IInv, CallInv, Sound, Apart

LEMMA EndStep ==
  ASSUME IInv, Remember, Frame, NEW c \in Clients, End(c)
  PROVE  IInv'
<1>1. call' = [call EXCEPT ![c] = None]
  BY DEF End, Set
<1> QED
  BY <1>1, TransactionStep

LEMMA BeginRoomStep ==
  ASSUME IInv, Remember, NEW c \in Clients, NEW u \in Users, BeginRoom(c, u)
  PROVE  IInv'
<1> DEFINE s == IF identity[u] = 0 THEN "insert" ELSE "commit"
<1>1. PICK k : k = Transaction("room", u, s)
  OBVIOUS
<1>2. k \in Call /\ ~k.own /\ k.member = identity[u]
  BY <1>1 DEF Transaction, Call, IInv, TypeOK
<1>3. Sound(k)'
  BY <1>1, ManagedGrows
     DEF BeginRoom, Transaction, Sound, IInv, TypeOK, ReferencesOK, RowInv, rows
<1>4. call' = [call EXCEPT ![c] = k]
  BY <1>1 DEF BeginRoom, Set
<1>5. Frame
  BY DEF Frame, BeginRoom, IInv, TypeOK
<1>6. \A d \in Clients \ {c} :
        call[d] # None => Apart(k, call[d]) /\ Apart(call[d], k)
  BY <1>2, NotOwn
<1> QED
  BY <1>2, <1>3, <1>4, <1>5, <1>6, TransactionStep

LEMMA BeginLinkStep ==
  ASSUME IInv, Remember, NEW c \in Clients, NEW u \in Users, NEW r \in Rooms,
         NEW n \in Notebooks, BeginLink(c, u, r, n)
  PROVE  IInv'
<1>1. PICK k : k = [Transaction("link", u, "check")
                      EXCEPT !.room = r, !.notebook = n]
  OBVIOUS
<1>2. k \in Call /\ ~k.own /\ k.member = identity[u]
  BY <1>1 DEF Transaction, Call, IInv, TypeOK
<1>3. Sound(k)'
  BY <1>1 DEF BeginLink, Transaction, Sound, IInv, TypeOK, ReferencesOK,
              RowInv, rows, Rooms, Notebooks
<1>4. call' = [call EXCEPT ![c] = k]
  BY <1>1 DEF BeginLink, Set
<1>5. Frame
  BY DEF Frame, BeginLink, IInv, TypeOK
<1>6. \A d \in Clients \ {c} :
        call[d] # None => Apart(k, call[d]) /\ Apart(call[d], k)
  BY <1>2, NotOwn
<1> QED
  BY <1>2, <1>3, <1>4, <1>5, <1>6, TransactionStep

LEMMA InsertIdentityStep ==
  ASSUME IInv, Remember, NEW c \in Clients, InsertIdentity(c)
  PROVE  IInv'
<1>1. call[c] \in Call /\ Sound(call[c])
  BY DEF InsertIdentity, IInv, CallInv, TypeOK
<1>2. CASE identity[call[c].user] # 0
  <2>1. PICK k : k = [call[c] EXCEPT !.step = "reread"]
    OBVIOUS
  <2>2. /\ k \in Call /\ k.member = call[c].member /\ k.own = call[c].own
        /\ ~k.own
    BY <1>1, <2>1 DEF Call, Sound, InsertIdentity
  <2>3. Sound(k)'
    BY <1>1, <1>2, <2>1 DEF Sound, InsertIdentity, rows, Call
  <2>4. call' = [call EXCEPT ![c] = k]
    BY <1>2, <2>1 DEF InsertIdentity, Set
  <2>5. Frame
    BY <1>2 DEF Frame, InsertIdentity, IInv, TypeOK
  <2>6. \A d \in Clients \ {c} :
          call[d] # None => Apart(k, call[d]) /\ Apart(call[d], k)
    BY <2>2, NotOwn DEF InsertIdentity
  <2> QED
    BY <2>2, <2>3, <2>4, <2>5, <2>6, TransactionStep
<1>3. CASE identity[call[c].user] = 0
  <2>1. PICK k : k = [call[c] EXCEPT !.step = "commit", !.own = TRUE,
                                     !.member = nMembers + 1]
    OBVIOUS
  <2>2. /\ nMembers \in Nat /\ nMembers' = nMembers + 1 /\ nMembers < MaxMembers
        /\ nMembers' \in Members
    BY <1>3 DEF InsertIdentity, IInv, TypeOK, Members
  <2>3. /\ k \in Call /\ k.member = nMembers + 1 /\ k.own /\ k.step = "commit"
        /\ k.user = call[c].user /\ k.kind = call[c].kind
    BY <1>1, <2>1, <2>2 DEF Call
  <2>4. k.kind = "room"
    BY <1>1, <2>3 DEF Sound, InsertIdentity, Call
  <2>5. Sound(k)'
    <3>1. \A u \in Users : identity[u] \in Nat /\ identity[u] <= nMembers
      <4>1. \A u \in Users : identity[u] \in Members \cup {0}
        BY DEF IInv, TypeOK
      <4>2. \A u \in Users : identity[u] <= nMembers
        BY DEF IInv, RowInv
      <4>3. Members \cup {0} \subseteq Nat
        BY DEF Members
      <4> QED
        BY <4>1, <4>2, <4>3
    <3> QED
      BY <1>3, <2>2, <2>3, <2>4, <3>1 DEF Sound, InsertIdentity, rows
  <2>6. ASSUME NEW d \in Clients \ {c}, call[d] # None
        PROVE  Apart(k, call[d]) /\ Apart(call[d], k)
    <3>1. Sound(call[d]) /\ call[d] \in Call /\ call[d].member \in Nat
      BY <2>6 DEF IInv, CallInv, TypeOK, Call, Members
    <3> QED
      BY <2>2, <2>3, <2>6, <3>1 DEF Apart, Sound, InsertIdentity, Pending
  <2>7. call' = [call EXCEPT ![c] = k]
    BY <1>3, <2>1 DEF InsertIdentity, Set
  <2>8. Frame
    BY <2>2 DEF Frame, Members, InsertIdentity
  <2> QED
    BY <2>3, <2>5, <2>6, <2>7, <2>8, TransactionStep
<1> QED
  BY <1>2, <1>3

LEMMA ReadWinnerStep ==
  ASSUME IInv, Remember, NEW c \in Clients, ReadWinner(c)
  PROVE  IInv'
<1>1. call[c] \in Call /\ Sound(call[c])
  BY DEF ReadWinner, IInv, CallInv, TypeOK
<1>2. PICK k : k = [call[c] EXCEPT !.step = "commit",
                                   !.member = identity[call[c].user]]
  OBVIOUS
<1>3. /\ k \in Call /\ ~k.own /\ k.user = call[c].user
      /\ k.member = identity[k.user] /\ k.step = "commit"
      /\ k.kind = "room" /\ k.lost = call[c].lost
  BY <1>1, <1>2 DEF Sound, ReadWinner, Call, IInv, TypeOK
<1>4. k.user \in Users /\ call[c].step = "reread" /\ call[c].kind = "room"
  BY <1>1, <1>3 DEF ReadWinner, Call, Sound
<1>5. Sound(k)'
  <2>1. k.lost \/ k.member # 0
    BY <1>1, <1>3, <1>4 DEF Sound
  <2>2. k.member <= nMembers
    BY <1>3, <1>4 DEF IInv, RowInv
  <2> QED
    BY <1>3, <1>4, <2>1, <2>2
       DEF Sound, ReadWinner, rows, IInv, TypeOK, ReferencesOK
<1>6. call' = [call EXCEPT ![c] = k]
  BY <1>2 DEF ReadWinner, Set
<1>7. Frame
  BY DEF Frame, ReadWinner, IInv, TypeOK
<1>8. \A d \in Clients \ {c} :
        call[d] # None => Apart(k, call[d]) /\ Apart(call[d], k)
  BY <1>3, <1>4, NotOwn
<1> QED
  BY <1>3, <1>5, <1>6, <1>7, <1>8, TransactionStep

LEMMA CheckLinkStep ==
  ASSUME IInv, Remember, NEW c \in Clients, CheckLink(c)
  PROVE  IInv'
<1>1. call[c] \in Call /\ Sound(call[c])
  BY DEF CheckLink, IInv, CallInv, TypeOK
<1>2. CASE IsAdmin(call[c].user, call[c].room)
           /\ CanManage(call[c].user, call[c].notebook)
  <2>1. PICK k : k = [call[c] EXCEPT !.step = "commit"]
    OBVIOUS
  <2>2. /\ k \in Call /\ k.member = call[c].member /\ ~k.own
        /\ call[c].kind = "link" /\ call[c].user \in Users
        /\ call[c].notebook \in Notebooks
    BY <1>1, <2>1 DEF Sound, CheckLink, Call
  <2>3. call[c].user \in managed[call[c].notebook]
    BY <1>2, <2>2 DEF IInv, RowInv
  <2>4. call[c].user \in managed'[call[c].notebook]
    BY <2>2, <2>3, ManagedGrows DEF IInv
  <2>5. Sound(k)'
    BY <1>1, <2>1, <2>2, <2>4 DEF Sound, CheckLink, rows, Call
  <2>6. call' = [call EXCEPT ![c] = k]
    BY <1>2, <2>1 DEF CheckLink, Set
  <2>7. Frame
    BY DEF Frame, CheckLink, IInv, TypeOK
  <2>8. \A d \in Clients \ {c} :
          call[d] # None => Apart(k, call[d]) /\ Apart(call[d], k)
    BY <2>2, NotOwn DEF CheckLink
  <2> QED
    BY <2>2, <2>5, <2>6, <2>7, <2>8, TransactionStep
<1>3. CASE ~(IsAdmin(call[c].user, call[c].room)
             /\ CanManage(call[c].user, call[c].notebook))
  BY <1>3, EndStep DEF CheckLink, Frame, IInv, TypeOK
<1> QED
  BY <1>2, <1>3

LEMMA AbortStep ==
  ASSUME IInv, Remember, NEW c \in Clients, Abort(c)
  PROVE  IInv'
BY EndStep DEF Abort, Frame, IInv, TypeOK

-----------------------------------------------------------------------------
(* Steps that change rows.                                                 *)

LEMMA CallsKept ==
  ASSUME IInv, Remember, UNCHANGED <<identity, nMembers, call>>
  PROVE  CallInv'
<1>1. ASSUME NEW d \in Clients, call'[d] # None PROVE Sound(call[d])'
  <2>1. PICK l : l = call[d]
    OBVIOUS
  <2>2. l \in Call /\ Sound(l)
    BY <1>1, <2>1 DEF IInv, TypeOK, CallInv, Sound
  <2>3. Sound(l)'
    BY <2>2, SoundStays DEF IInv, TypeOK
  <2> QED
    BY <2>1, <2>3 DEF Sound
<1> QED
  BY <1>1 DEF IInv, CallInv, Apart

(* A step that links nothing and leaves identities alone.                  *)
LEMMA RowsStep ==
  ASSUME IInv, Remember, UNCHANGED <<identity, nMembers, call>>, TypeOK',
         \A n \in Notebooks : link'[n] \in {link[n], None}
  PROVE  IInv'
<1>1. /\ \A n \in Notebooks : managed[n] \subseteq managed'[n]
      /\ \A u \in Users, n \in Notebooks : CanManage(u, n)' => u \in managed'[n]
  BY ManagedGrows DEF IInv
<1>2. RowInv'
  BY <1>1 DEF IInv, RowInv
<1> QED
  BY <1>2, CallsKept DEF IInv

LEMMA MembershipStep ==
  ASSUME IInv, Remember, NEW u \in Users, NEW r \in Rooms, NEW m \in Members,
         \/ \E x \in Roles : AddMember(u, r, m, x) \/ ChangeRole(u, r, m, x)
         \/ RemoveMember(u, r, m)
  PROVE  IInv'
<1>1. PICK x \in Roles \cup {None} :
        /\ SetMembership(m, r, x)
        /\ x # None => \E v \in Users : identity[v] = m
        /\ x = None => ~Restricted(m, r) \/ role[<<m, r>>] = None
  BY DEF AddMember, ChangeRole, RemoveMember, IInv, TypeOK, ReferencesOK
<1>2. /\ managed' \in [Notebooks -> SUBSET Users]
      /\ role' \in [Members \X Rooms -> Roles \cup {None}]
      /\ role'[<<m, r>>] = x
      /\ \A y \in Members \X Rooms : y # <<m, r>> => role'[y] = role[y]
  BY <1>1, ManagedGrows DEF SetMembership, IInv, TypeOK
<1>3. \A n \in Notebooks : link[n] # None =>
        /\ link[n].by \in Members /\ link[n].room \in Rooms
        /\ link[n] = [room |-> link[n].room, by |-> link[n].by]
  BY DEF IInv, TypeOK, Link
<1>4. ASSUME NEW n \in Notebooks, link[n] # None
      PROVE  role'[<<link[n].by, link[n].room>>] # None
  BY <1>1, <1>2, <1>3, <1>4 DEF Restricted, IInv, TypeOK, ReferencesOK
<1>5. ASSUME NEW q \in Members, NEW s \in Rooms, role'[<<q, s>>] # None
      PROVE  \E v \in Users : identity[v] = q
  BY <1>1, <1>2, <1>5 DEF IInv, TypeOK, ReferencesOK
<1>6. TypeOK'
  BY <1>1, <1>2, <1>4, <1>5 DEF SetMembership, IInv, TypeOK, ReferencesOK
<1> QED
  BY <1>1, <1>6, RowsStep DEF SetMembership

LEMMA RoomRowsStep ==
  ASSUME IInv, Remember, NEW u \in Users, NEW r \in Rooms,
         \/ DeleteRoom(u, r)
         \/ \E n \in Notebooks : RemoveLink(u, r, n)
  PROVE  IInv'
<1>1. managed' \in [Notebooks -> SUBSET Users]
  BY ManagedGrows DEF IInv
<1>2. CASE DeleteRoom(u, r)
  <2>1. TypeOK'
    BY <1>1, <1>2 DEF DeleteRoom, IInv, TypeOK, ReferencesOK, Link
  <2> QED
    BY <1>2, <2>1, RowsStep DEF DeleteRoom
<1>3. CASE \E n \in Notebooks : RemoveLink(u, r, n)
  <2>1. PICK n \in Notebooks : RemoveLink(u, r, n)
    BY <1>3
  <2>2. TypeOK'
    BY <1>1, <2>1 DEF RemoveLink, IInv, TypeOK, ReferencesOK
  <2> QED
    BY <2>1, <2>2, RowsStep DEF RemoveLink, IInv, TypeOK
<1> QED
  BY <1>2, <1>3

LEMMA NotebookStep ==
  ASSUME IInv, Remember, NEW u \in Users,
         \/ CreateNotebook(u)
         \/ \E n \in Notebooks : DeleteNotebook(u, n) \/ DisownNotebook(u, n)
         \/ SetActive(u)
  PROVE  IInv'
<1>1. managed' \in [Notebooks -> SUBSET Users]
  BY ManagedGrows DEF IInv
<1>2. CASE CreateNotebook(u)
  <2>1. TypeOK'
    BY <1>1, <1>2 DEF CreateNotebook, IInv, TypeOK, ReferencesOK, Notebooks
  <2> QED
    BY <1>2, <2>1, RowsStep DEF CreateNotebook
<1>3. CASE \E n \in Notebooks : DeleteNotebook(u, n) \/ DisownNotebook(u, n)
  <2>1. PICK n \in Notebooks : DeleteNotebook(u, n) \/ DisownNotebook(u, n)
    BY <1>3
  <2>2. TypeOK'
    BY <1>1, <2>1 DEF DeleteNotebook, DisownNotebook, IInv, TypeOK, ReferencesOK
  <2> QED
    BY <2>1, <2>2, RowsStep DEF DeleteNotebook, DisownNotebook, IInv, TypeOK
<1>4. CASE SetActive(u)
  <2>1. TypeOK'
    BY <1>1, <1>4 DEF SetActive, IInv, TypeOK, ReferencesOK
  <2> QED
    BY <1>4, <2>1, RowsStep DEF SetActive
<1> QED
  BY <1>2, <1>3, <1>4

LEMMA CommitLinkStep ==
  ASSUME IInv, Remember, NEW c \in Clients, CommitLink(c)
  PROVE  IInv'
<1>1. PICK k : k = call[c]
  OBVIOUS
<1>2. /\ k \in Call /\ Sound(k) /\ k.kind = "link" /\ k.step = "commit"
      /\ call' = [call EXCEPT ![c] = None]
  BY <1>1 DEF CommitLink, IInv, TypeOK, CallInv, Sound, End, Set
<1>3. /\ k.room \in Rooms /\ k.notebook \in Notebooks /\ k.member \in Members
      /\ k.user \in managed[k.notebook] /\ k.user \in Users
  BY <1>2 DEF Sound, Call
<1>4. /\ \A n \in Notebooks : managed[n] \subseteq managed'[n]
      /\ \A u \in Users, n \in Notebooks : CanManage(u, n)' => u \in managed'[n]
      /\ managed' \in [Notebooks -> SUBSET Users]
  BY ManagedGrows DEF IInv
<1>5. ASSUME NEW n \in Notebooks, link'[n] # link[n]
      PROVE  /\ n = k.notebook /\ n \in notebooks
             /\ link'[n] = [room |-> k.room, by |-> k.member]
             /\ role[<<k.member, k.room>>] # None
  BY <1>1, <1>5 DEF CommitLink, IInv, TypeOK
<1>6. link' \in [Notebooks -> Link \cup {None}]
  BY <1>1, <1>3 DEF CommitLink, IInv, TypeOK, Link
<1>7. TypeOK'
  <2>1. \A n \in Notebooks : link'[n] # None =>
          n \in notebooks /\ role[<<link'[n].by, link'[n].room>>] # None
    BY <1>5 DEF IInv, TypeOK, ReferencesOK
  <2>2. UNCHANGED <<active, identity, role, notebooks, personal, nMembers,
                    nRooms, nNotebooks>>
    BY DEF CommitLink
  <2>3. ReferencesOK'
    BY <2>1, <2>2 DEF IInv, TypeOK, ReferencesOK
  <2> QED
    BY <1>2, <1>4, <1>6, <2>2, <2>3 DEF IInv, TypeOK
<1>8. CallInv'
  <2>1. identity' = identity /\ nMembers' \in Nat /\ nMembers <= nMembers'
    BY DEF CommitLink, IInv, TypeOK
  <2> QED
    BY <1>2, <2>1, CallUpdated
<1>9. ASSUME NEW n \in Notebooks, link'[n] # None
      PROVE  \E v \in managed'[n] : identity'[v] = link'[n].by
  <2>1. CASE link'[n] = link[n]
    BY <1>4, <1>9, <2>1 DEF IInv, RowInv, CommitLink
  <2>2. CASE link'[n] # link[n]
    <3>1. PICK v \in Users : identity[v] = k.member
      BY <1>3, <1>5, <2>2 DEF IInv, TypeOK, ReferencesOK
    <3>2. v = k.user
      BY <1>2, <1>3, <3>1 DEF Sound, Members
    <3> QED
      BY <1>3, <1>4, <1>5, <2>2, <3>1, <3>2 DEF CommitLink
  <2> QED
    BY <2>1, <2>2
<1>10. RowInv'
  <2>1. \A u \in Users : identity'[u] <= nMembers'
    BY DEF CommitLink, IInv, RowInv
  <2> QED
    BY <1>4, <1>9, <2>1 DEF RowInv
<1> QED
  BY <1>7, <1>8, <1>10 DEF IInv

-----------------------------------------------------------------------------
(* Steps that change identities.                                           *)

LEMMA CommitRoomStep ==
  ASSUME IInv, Remember, NEW c \in Clients, CommitRoom(c)
  PROVE  IInv'
<1>1. PICK k : k = call[c]
  OBVIOUS
<1>2. /\ k \in Call /\ Sound(k) /\ k.kind = "room" /\ k.step = "commit"
      /\ call' = [call EXCEPT ![c] = None]
  BY <1>1 DEF CommitRoom, IInv, TypeOK, CallInv, Sound, End, Set
<1>3. /\ \A n \in Notebooks : managed[n] \subseteq managed'[n]
      /\ \A u \in Users, n \in Notebooks : CanManage(u, n)' => u \in managed'[n]
      /\ managed' \in [Notebooks -> SUBSET Users]
  BY ManagedGrows DEF IInv
<1>4. CASE ~(k.own \/ (k.member # 0 /\ identity[k.user] = k.member))
  <2>1. Frame
    BY <1>1, <1>4 DEF CommitRoom, Frame, rows, IInv, TypeOK
  <2> QED
    BY <2>1, EndStep DEF CommitRoom
<1>5. CASE k.own \/ (k.member # 0 /\ identity[k.user] = k.member)
  <2>1. /\ k.user \in Users /\ k.member \in Members /\ k.member <= nMembers
        /\ nMembers' = nMembers /\ nMembers \in Nat
    BY <1>2, <1>5 DEF Sound, Call, CommitRoom, IInv, TypeOK
  <2>2. /\ identity' = [identity EXCEPT ![k.user] = k.member]
        /\ nRooms' = nRooms + 1 /\ nRooms < MaxRooms
        /\ role' = [role EXCEPT ![<<k.member, nRooms + 1>>] = "admin"]
        /\ UNCHANGED <<active, notebooks, personal, link, nMembers, nNotebooks>>
    BY <1>1, <1>5 DEF CommitRoom
  <2>3. \A u \in Users : identity'[u] = IF u = k.user THEN k.member ELSE identity[u]
    BY <2>1, <2>2 DEF IInv, TypeOK
  <2>4. \A u \in Users : identity[u] # 0 => identity'[u] = identity[u]
    BY <1>2, <1>5, <2>1, <2>3 DEF Sound
  <2>5. nRooms + 1 \in Rooms
    BY <2>2 DEF IInv, TypeOK, Rooms
  <2>6. /\ role' \in [Members \X Rooms -> Roles \cup {None}]
        /\ role'[<<k.member, nRooms + 1>>] = "admin"
        /\ \A y \in Members \X Rooms :
             y # <<k.member, nRooms + 1>> => role'[y] = role[y]
    BY <2>1, <2>2, <2>5 DEF IInv, TypeOK, Roles
  <2>7. TypeOK'
    <3>1. identity' \in [Users -> Members \cup {0}]
      BY <2>1, <2>2 DEF IInv, TypeOK
    <3>2. nRooms' \in 0 .. MaxRooms
      BY <2>2 DEF IInv, TypeOK
    <3>3. call' \in [Clients -> Call \cup {None}]
      BY <1>2 DEF IInv, TypeOK
    <3>4. ASSUME NEW q \in Members, NEW s \in Rooms, role'[<<q, s>>] # None
          PROVE  \E v \in Users : identity'[v] = q
      <4>1. CASE q = k.member
        BY <2>1, <2>3, <4>1
      <4>2. CASE q # k.member
        <5>1. PICK v \in Users : identity[v] = q
          BY <2>6, <3>4, <4>2 DEF IInv, TypeOK, ReferencesOK
        <5>2. q # 0
          BY DEF Members
        <5> QED
          BY <2>4, <5>1, <5>2
      <4> QED
        BY <4>1, <4>2
    <3>5. \A n \in Notebooks :
            link[n] # None => link[n].by \in Members /\ link[n].room \in Rooms
      BY DEF IInv, TypeOK, Link
    <3>6. ASSUME NEW n \in Notebooks, link[n] # None
          PROVE  role'[<<link[n].by, link[n].room>>] # None
      BY <2>6, <3>5, <3>6 DEF IInv, TypeOK, ReferencesOK, Roles
    <3>7. ASSUME NEW u \in Users, NEW v \in Users, identity'[u] = identity'[v],
                 identity'[u] # 0
          PROVE  u = v
      <4>1. \A w \in Users : identity[w] = k.member => w = k.user
        BY <1>2, <2>1 DEF Sound, Members
      <4> QED
        BY <2>3, <3>7, <4>1 DEF IInv, TypeOK, ReferencesOK
    <3>8. ReferencesOK'
      BY <2>2, <3>4, <3>6, <3>7 DEF IInv, TypeOK, ReferencesOK
    <3> QED
      BY <1>3, <2>2, <3>1, <3>2, <2>6, <3>3, <3>8 DEF IInv, TypeOK
  <2>8. CallInv'
    <3>1. ASSUME NEW d \in Clients, call'[d] # None PROVE Sound(call[d])'
      <4>1. PICK l : l = call[d]
        OBVIOUS
      <4>2. /\ d # c /\ call'[d] = l /\ l # None /\ l \in Call /\ Sound(l)
            /\ Apart(k, l) /\ Apart(l, k)
        BY <1>1, <1>2, <3>1, <4>1 DEF IInv, TypeOK, CallInv, CommitRoom
      <4>3. l.user \in Users /\ l.notebook \in Notebooks \cup {0}
            /\ l.member \in Nat
        BY <4>2 DEF Call, Members
      <4>4. l.member # 0 => \A u \in Users : identity'[u] = l.member => u = l.user
        <5>1. k.own => k.member # l.member
          BY <4>2 DEF Apart
        <5>2. ~k.own => identity' = identity
          BY <1>5, <2>2 DEF IInv, TypeOK
        <5> QED
          BY <2>3, <4>2, <5>1, <5>2 DEF Sound
      <4>5. l.own => /\ identity'[l.user] = 0
                     /\ \A u \in Users : identity'[u] # l.member
        <5>1. l.own => k.user # l.user \/ ~k.own
          BY <4>2 DEF Apart
        <5>2. l.own => k.member # l.member
          BY <4>2 DEF Apart
        <5>3. l.own /\ ~k.own => k.user # l.user
          BY <1>5, <4>2 DEF Sound
        <5> QED
          BY <2>3, <4>2, <4>3, <5>1, <5>2, <5>3 DEF Sound
      <4>6. \A n \in Notebooks : managed[n] \subseteq managed'[n]
        BY <1>3
      <4>7. l.kind = "link" =>
              /\ l.step \in {"check", "commit"}
              /\ l.room # 0 /\ l.notebook # 0 /\ l.member # 0
              /\ l.step = "commit" => l.user \in managed'[l.notebook]
        BY <4>2, <4>3, <4>6 DEF Sound
      <4>8. l.kind = "room" =>
              /\ l.step \in {"insert", "reread", "commit"}
              /\ l.step = "reread" => l.lost \/ identity'[l.user] # 0
              /\ l.step = "commit" /\ ~l.own =>
                   l.lost \/ (l.member # 0 /\ identity'[l.user] = l.member)
        BY <2>4, <4>2, <4>3 DEF Sound
      <4>9. l.member <= nMembers'
        BY <2>1, <4>2 DEF Sound
      <4>10. l.own => l.member # 0 /\ l.step = "commit" /\ l.kind = "room"
        BY <4>2 DEF Sound
      <4>11. Sound(l)'
        BY <4>4, <4>5, <4>7, <4>8, <4>9, <4>10 DEF Sound
      <4> QED
        BY <4>2, <4>11, <4>1 DEF Sound
    <3>2. ASSUME NEW d \in Clients, NEW e \in Clients, d # e, call'[d] # None,
                 call'[e] # None
          PROVE  Apart(call[d], call[e])'
      <4>1. call'[d] = call[d] /\ call'[e] = call[e]
        BY <1>2, <3>2 DEF IInv, TypeOK
      <4> QED
        BY <3>2, <4>1 DEF IInv, CallInv, Apart
    <3> QED
      BY <3>1, <3>2 DEF CallInv
  <2>9. RowInv'
    <3>1. \A u \in Users : identity'[u] <= nMembers'
      BY <2>1, <2>3 DEF IInv, RowInv
    <3>2. ASSUME NEW n \in Notebooks, link'[n] # None
          PROVE  \E v \in managed'[n] : identity'[v] = link'[n].by
      <4>1. PICK v \in managed[n] : identity[v] = link[n].by
        BY <2>2, <3>2 DEF IInv, RowInv
      <4>2. v \in Users /\ link[n].by # 0
        BY <2>2, <3>2 DEF IInv, TypeOK, Link, Members
      <4> QED
        BY <1>3, <2>2, <2>4, <4>1, <4>2
    <3> QED
      BY <1>3, <3>1, <3>2 DEF RowInv
  <2> QED
    BY <2>7, <2>8, <2>9 DEF IInv
<1> QED
  BY <1>4, <1>5

LEMMA CreateStudyMemberStep ==
  ASSUME IInv, Remember, NEW u \in Users, CreateStudyMember(u)
  PROVE  IInv'
<1>1. /\ \A n \in Notebooks : managed[n] \subseteq managed'[n]
      /\ \A v \in Users, n \in Notebooks : CanManage(v, n)' => v \in managed'[n]
      /\ managed' \in [Notebooks -> SUBSET Users]
  BY ManagedGrows DEF IInv
<1> DEFINE i == nMembers + 1
<1>2. /\ nMembers \in Nat /\ nMembers' = i /\ i \in Members /\ i # 0
      /\ nMembers < i /\ i \in Nat
  BY DEF CreateStudyMember, IInv, TypeOK, Members
<1>3. /\ identity[u] = 0
      /\ identity' = [identity EXCEPT ![u] = i]
      /\ UNCHANGED <<active, role, notebooks, personal, link, nRooms,
                     nNotebooks, call>>
  BY DEF CreateStudyMember
<1>4. \A v \in Users : identity'[v] = IF v = u THEN i ELSE identity[v]
  BY <1>3 DEF IInv, TypeOK
<1>5. \A v \in Users : identity[v] \in Nat /\ identity[v] <= nMembers
  <2>1. Members \cup {0} \subseteq Nat
    BY DEF Members
  <2> QED
    BY <2>1 DEF IInv, TypeOK, RowInv
<1> HIDE DEF i
<1>6. \A v \in Users : identity[v] # i
  BY <1>2, <1>5
<1>7. \A v \in Users : identity[v] # 0 => identity'[v] = identity[v]
  BY <1>3, <1>4
<1>8. TypeOK'
  <2>1. identity' \in [Users -> Members \cup {0}]
    BY <1>2, <1>3 DEF IInv, TypeOK
  <2>2. nMembers' \in 0 .. MaxMembers
    BY <1>2 DEF Members
  <2>3. ASSUME NEW q \in Members, NEW s \in Rooms, role'[<<q, s>>] # None
        PROVE  \E v \in Users : identity'[v] = q
    <3>1. PICK v \in Users : identity[v] = q
      BY <1>3, <2>3 DEF IInv, TypeOK, ReferencesOK
    <3>2. q # 0
      BY DEF Members
    <3> QED
      BY <1>7, <3>1, <3>2
  <2>4. ReferencesOK'
    BY <1>3, <1>4, <1>6, <2>3 DEF IInv, TypeOK, ReferencesOK
  <2> QED
    BY <1>1, <1>3, <2>1, <2>2, <2>4 DEF IInv, TypeOK
<1>9. ASSUME NEW d \in Clients, call'[d] # None PROVE Sound(call[d])'
  <2>1. PICK l : l = call[d]
    OBVIOUS
  <2>2. call'[d] = l /\ l # None /\ l \in Call /\ Sound(l)
    BY <1>3, <1>9, <2>1 DEF IInv, TypeOK, CallInv, Sound
  <2>3. l.user \in Users /\ l.notebook \in Notebooks \cup {0} /\ l.member \in Nat
    BY <2>2 DEF Call, Members
  <2>4. l.member <= nMembers /\ l.member # i
    <3>1. l.member <= nMembers
      BY <2>2 DEF Sound
    <3> QED
      BY <1>2, <2>3, <3>1
  <2>5. l.member <= nMembers'
    BY <1>2, <2>3, <2>4
  <2>6. l.own => l.user # u
    BY <2>1, <2>2 DEF CreateStudyMember, Pending
  <2> QED
    BY <1>1, <1>4, <1>7, <2>1, <2>2, <2>3, <2>4, <2>5, <2>6 DEF Sound
<1>10. CallInv'
  BY <1>3, <1>9 DEF IInv, CallInv, Apart
<1>11. ASSUME NEW n \in Notebooks, link'[n] # None
       PROVE  \E v \in managed'[n] : identity'[v] = link'[n].by
  <2>1. PICK v \in managed[n] : identity[v] = link[n].by
    BY <1>3, <1>11 DEF IInv, RowInv
  <2>2. v \in Users /\ link[n].by # 0
    BY <1>3, <1>11 DEF IInv, TypeOK, Link, Members
  <2> QED
    BY <1>1, <1>3, <1>7, <2>1, <2>2
<1>12. \A v \in Users : identity'[v] <= nMembers'
  <2>1. i \in Nat
    BY <1>2
  <2>2. ASSUME NEW v \in Users PROVE identity'[v] <= i
    <3>1. identity[v] \in Nat /\ identity[v] <= nMembers
      BY <1>5
    <3>2. identity[v] <= i
      BY <1>2, <2>1, <3>1
    <3> QED
      BY <1>4, <2>1, <3>2
  <2> QED
    BY <1>2, <2>2
<1>13. RowInv'
  BY <1>1, <1>11, <1>12 DEF RowInv
<1> QED
  BY <1>8, <1>10, <1>13 DEF IInv

LEMMA DeleteStudyMemberStep ==
  ASSUME IInv, Remember, NEW u \in Users, DeleteStudyMember(u)
  PROVE  IInv'
<1>1. /\ \A n \in Notebooks : managed[n] \subseteq managed'[n]
      /\ \A v \in Users, n \in Notebooks : CanManage(v, n)' => v \in managed'[n]
      /\ managed' \in [Notebooks -> SUBSET Users]
  BY ManagedGrows DEF IInv
<1>2. /\ identity[u] # 0
      /\ identity' = [identity EXCEPT ![u] = 0]
      /\ UNCHANGED <<active, notebooks, personal, link, nMembers, nRooms,
                     nNotebooks>>
  BY DEF DeleteStudyMember
<1>3. \A v \in Users : identity'[v] = IF v = u THEN 0 ELSE identity[v]
  BY <1>2 DEF IInv, TypeOK
<1>4. \A q \in Members, s \in Rooms :
        role'[<<q, s>>] = IF q = identity[u] THEN None ELSE role[<<q, s>>]
  BY DEF DeleteStudyMember
<1>5. \A n \in Notebooks : link[n] # None =>
        /\ link[n].by \in Members /\ link[n].room \in Rooms
        /\ link[n].by # identity[u]
  <2>1. ASSUME NEW n \in Notebooks, link[n] # None
        PROVE  link[n] \in Link
    BY <2>1 DEF IInv, TypeOK
  <2> QED
    BY <2>1 DEF DeleteStudyMember, Restricted, Link
<1>6. TypeOK'
  <2>1. identity' \in [Users -> Members \cup {0}]
    BY <1>2 DEF IInv, TypeOK
  <2>2. role' \in [Members \X Rooms -> Roles \cup {None}]
    BY DEF DeleteStudyMember, IInv, TypeOK
  <2>3. call' \in [Clients -> Call \cup {None}]
    <3>1. ASSUME NEW c \in Clients, call[c] # None, call[c] \in Call
          PROVE  [call[c] EXCEPT !.lost = TRUE] \in Call
      BY <3>1 DEF Call
    <3> QED
      BY <3>1 DEF DeleteStudyMember, IInv, TypeOK
  <2>4. ASSUME NEW q \in Members, NEW s \in Rooms, role'[<<q, s>>] # None
        PROVE  \E v \in Users : identity'[v] = q
    <3>1. q # identity[u] /\ role[<<q, s>>] # None
      BY <1>4, <2>4
    <3>2. PICK v \in Users : identity[v] = q
      BY <3>1 DEF IInv, TypeOK, ReferencesOK
    <3> QED
      BY <1>3, <3>1, <3>2
  <2>5. \A n \in Notebooks : link[n] # None =>
          role'[<<link[n].by, link[n].room>>] # None
    BY <1>4, <1>5 DEF IInv, TypeOK, ReferencesOK
  <2>6. ReferencesOK'
    BY <1>2, <1>3, <2>4, <2>5 DEF IInv, TypeOK, ReferencesOK
  <2> QED
    BY <1>1, <1>2, <2>1, <2>2, <2>3, <2>6 DEF IInv, TypeOK
<1>7. ASSUME NEW d \in Clients, call[d] # None, call[d] \in Call
      PROVE  /\ call'[d] \in Call
             /\ call'[d].user = call[d].user /\ call'[d].own = call[d].own
             /\ call'[d].member = call[d].member /\ call'[d].kind = call[d].kind
             /\ call'[d].step = call[d].step /\ call'[d].room = call[d].room
             /\ call'[d].notebook = call[d].notebook
             /\ call[d].lost => call'[d].lost
             /\ call[d].user = u => call'[d].lost
  BY <1>7 DEF DeleteStudyMember, Call
<1>8. \A d \in Clients : call'[d] # None => call[d] # None /\ call[d] \in Call
  BY DEF DeleteStudyMember, IInv, TypeOK
<1>9. ASSUME NEW d \in Clients, call'[d] # None PROVE Sound(call[d])'
  <2>1. PICK k : k = call[d]
    OBVIOUS
  <2>2. PICK l : l = call'[d]
    OBVIOUS
  <2>3. k # None /\ k \in Call /\ Sound(k)
    BY <1>8, <1>9, <2>1 DEF IInv, CallInv
  <2>4. /\ l.user = k.user /\ l.own = k.own /\ l.member = k.member
        /\ l.kind = k.kind /\ l.step = k.step /\ l.room = k.room
        /\ l.notebook = k.notebook /\ (k.lost => l.lost)
        /\ (k.user = u => l.lost)
    BY <1>7, <2>1, <2>2, <2>3
  <2>5. k.user \in Users /\ k.notebook \in Notebooks \cup {0}
    BY <2>3 DEF Call
  <2>6. \A v \in Users : identity'[v] \in {identity[v], 0}
    BY <1>3
  <2>7. nMembers' = nMembers
    BY <1>2
  <2>8. l.kind = "link" =>
          /\ l.step \in {"check", "commit"}
          /\ l.room # 0 /\ l.notebook # 0 /\ l.member # 0
          /\ l.step = "commit" => l.user \in managed'[l.notebook]
    BY <1>1, <2>3, <2>4, <2>5 DEF Sound
  <2>9. l.kind = "room" =>
          /\ l.step \in {"insert", "reread", "commit"}
          /\ l.step = "reread" => l.lost \/ identity'[l.user] # 0
          /\ l.step = "commit" /\ ~l.own =>
               l.lost \/ (l.member # 0 /\ identity'[l.user] = l.member)
    BY <1>3, <2>3, <2>4, <2>5 DEF Sound
  <2>10. l.member <= nMembers'
    BY <2>3, <2>4, <2>7 DEF Sound
  <2>11. l.member # 0 => \A v \in Users : identity'[v] = l.member => v = l.user
    BY <2>3, <2>4, <2>6 DEF Sound
  <2>12. l.own => /\ l.member # 0 /\ l.step = "commit" /\ l.kind = "room"
                  /\ identity'[l.user] = 0
                  /\ \A v \in Users : identity'[v] # l.member
    BY <2>3, <2>4, <2>5, <2>6 DEF Sound
  <2>13. Sound(l)'
    BY <2>8, <2>9, <2>10, <2>11, <2>12 DEF Sound
  <2> QED
    BY <2>2, <2>13 DEF Sound
<1>10. ASSUME NEW d \in Clients, NEW e \in Clients, d # e, call'[d] # None,
              call'[e] # None
       PROVE  Apart(call[d], call[e])'
  BY <1>7, <1>8, <1>10 DEF IInv, CallInv, Apart
<1>11. CallInv'
  BY <1>9, <1>10 DEF CallInv
<1>12. ASSUME NEW n \in Notebooks, link'[n] # None
       PROVE  \E v \in managed'[n] : identity'[v] = link'[n].by
  <2>1. PICK v \in managed[n] : identity[v] = link[n].by
    BY <1>2, <1>12 DEF IInv, RowInv
  <2>2. v \in Users /\ v # u
    BY <1>2, <1>5, <1>12, <2>1 DEF IInv, TypeOK
  <2> QED
    BY <1>1, <1>2, <1>3, <2>1, <2>2
<1>13. \A v \in Users : identity'[v] <= nMembers'
  <2>1. nMembers \in Nat
    BY DEF IInv, TypeOK
  <2> QED
    BY <1>2, <1>3, <2>1 DEF IInv, RowInv
<1>14. RowInv'
  BY <1>1, <1>12, <1>13 DEF RowInv
<1> QED
  BY <1>6, <1>11, <1>14 DEF IInv

-----------------------------------------------------------------------------

LEMMA NextStep ==
  ASSUME IInv, [Next]_vars
  PROVE  IInv'
<1>1. CASE Next
  <2>1. Remember
    BY <1>1 DEF Next
  <2>2. CASE \E c \in Clients : Steps(c)
    BY <2>1, <2>2, InsertIdentityStep, ReadWinnerStep, CommitRoomStep,
       CheckLinkStep, CommitLinkStep, AbortStep DEF Steps
  <2>3. CASE \E u \in Users : RoomRequests(u)
    <3>1. PICK u \in Users : RoomRequests(u)
      BY <2>3
    <3>2. CASE \E c \in Clients : BeginRoom(c, u)
      BY <2>1, <3>2, BeginRoomStep
    <3>3. CASE \E c \in Clients, r \in Rooms, n \in Notebooks :
                 BeginLink(c, u, r, n)
      BY <2>1, <3>3, BeginLinkStep
    <3>4. CASE \E r \in Rooms : DeleteRoom(u, r)
                                \/ \E n \in Notebooks : RemoveLink(u, r, n)
      BY <2>1, <3>4, RoomRowsStep
    <3>5. CASE \E r \in Rooms, m \in Members :
                 \/ \E x \in Roles : AddMember(u, r, m, x) \/ ChangeRole(u, r, m, x)
                 \/ RemoveMember(u, r, m)
      <4>1. PICK r \in Rooms, m \in Members :
                 \/ \E x \in Roles : AddMember(u, r, m, x) \/ ChangeRole(u, r, m, x)
                 \/ RemoveMember(u, r, m)
        BY <3>5
      <4> QED
        BY <2>1, <4>1, MembershipStep
    <3> QED
      BY <3>1, <3>2, <3>3, <3>4, <3>5 DEF RoomRequests
  <2>4. CASE \E u \in Users : StudyMemberRequests(u)
    BY <2>1, <2>4, CreateStudyMemberStep, DeleteStudyMemberStep
       DEF StudyMemberRequests
  <2>5. CASE \E u \in Users : NotebookRequests(u) \/ SetActive(u)
    BY <2>1, <2>5, NotebookStep DEF NotebookRequests
  <2> QED
    BY <1>1, <2>2, <2>3, <2>4, <2>5 DEF Next
<1>2. CASE UNCHANGED vars
  BY <1>2 DEF vars, rows, IInv, TypeOK, ReferencesOK, CallInv, RowInv, Sound,
              Apart, CanManage, IsAdmin
<1> QED
  BY <1>1, <1>2

LEMMA Invariance == Spec => []IInv
<1>1. Init => IInv
  BY InitOK
<1>2. IInv /\ [Next]_vars => IInv'
  BY NextStep
<1> QED
  BY <1>1, <1>2, PTL DEF Spec

(* The rows keep their types and their references, whatever statements of  *)
(* the transactions and of the requests come in between.                   *)
THEOREM TypeCorrect == Spec => []TypeOK
<1>1. IInv => TypeOK
  BY DEF IInv
<1> QED
  BY <1>1, Invariance, PTL

(* What a user lists they have managed themselves, or it is linked by a    *)
(* member of that room who has.                                            *)
THEOREM NotebooksSharedByManagers == Spec => []SharedByManagers
<1>1. ASSUME IInv PROVE SharedByManagers
  <2>1. ASSUME NEW u \in Users, NEW n \in ListNotebooks(u), u \notin managed[n]
        PROVE  \E v \in managed[n] : /\ identity[v] = link[n].by
                                     /\ role[<<link[n].by, link[n].room>>] # None
    <3>1. n \in Notebooks /\ CanRead(u, n)
      BY <1>1 DEF ListNotebooks, IInv, TypeOK, Notebooks
    <3>2. ~CanManage(u, n)
      BY <1>1, <2>1, <3>1 DEF IInv, RowInv
    <3>3. link[n] # None
      BY <3>1, <3>2 DEF CanRead, CanManage
    <3> QED
      BY <1>1, <3>1, <3>3 DEF IInv, RowInv, TypeOK, ReferencesOK
  <2> QED
    BY <2>1 DEF SharedByManagers
<1> QED
  BY <1>1, Invariance, PTL

(* No creation of a room fails because another request of the same user    *)
(* created their identity at the same time.                                *)
THEOREM NoCreationFailsAnother == Spec => CreationRaceIsHarmless
<1>1. ASSUME IInv, NEW c \in Clients, CommitRoom(c), nRooms' = nRooms
      PROVE  call[c].lost
  <2>1. nRooms + 1 # nRooms
    BY <1>1 DEF IInv, TypeOK
  <2>2. ~(call[c].own \/ (call[c].member # 0
                          /\ identity[call[c].user] = call[c].member))
    BY <1>1, <2>1 DEF CommitRoom
  <2>3. Sound(call[c]) /\ call[c].kind = "room" /\ call[c].step = "commit"
    BY <1>1 DEF CommitRoom, IInv, CallInv
  <2> QED
    BY <2>2, <2>3 DEF Sound
<1>2. ASSUME IInv
      PROVE  [\A c \in Clients :
                CommitRoom(c) /\ nRooms' = nRooms => call[c].lost]_vars
  BY <1>1, <1>2
<1> QED
  BY <1>2, Invariance, PTL DEF CreationRaceIsHarmless

=============================================================================
