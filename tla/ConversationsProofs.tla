------------------------- MODULE ConversationsProofs -------------------------
(***************************************************************************)
(* Proofs about Conversations, for any number of clients and chats:        *)
(* messages are numbered without gaps, turns are whole, pages miss         *)
(* nothing, the conversation implements ConversationLog, and the provider  *)
(* is asked with the question.                                             *)
(***************************************************************************)
EXTENDS Conversations, FiniteSetTheorems, SequenceTheorems, TLAPS

-----------------------------------------------------------------------------
(* The invariant.                                                          *)

Items == messages \cup appends

Question(t) == \E q \in messages : q.turn = t /\ q.role = "user"

(* The orders of the messages, and that of the transaction with the lock.  *)
Numbered == \E n \in Nat : Orders = 1 .. n

Distinct == \A m, n \in messages : m.order = n.order => m = n

Locked ==
  \A x \in appends : x.order # 0 =>
    /\ conversation => x.order = NextOrder
    /\ \A y \in appends : y.order # 0 => y = x

(* What a transaction will store is stored by no other, for a turn that is *)
(* admitted, and an answer after its question.                             *)
AppendsFit ==
  /\ \A x, y \in appends : x.turn = y.turn /\ x.role = y.role => x = y
  /\ \A x \in appends, m \in messages : ~(x.turn = m.turn /\ x.role = m.role)
  /\ \A x \in appends :
       /\ x.turn \in admitted
       /\ x.role = "assistant" /\ conversation => Question(x.turn)

(* What request k has done so far.                                         *)
CallFits(k) ==
  /\ k.turn = 0 => k.step \in {"idle", "get", "access", "list"}
                   /\ k.kind = "list"
  /\ k.turn # 0 => /\ k.step \notin {"idle", "list"} /\ k.kind = "chat"
                   /\ k.turn \notin answered
  /\ k.turn # 0 => k.size >= 1
  /\ k.turn # 0 /\ k.step \notin {"save", "saving"} => k.size <= MaxSize
  /\ k.step \in {"retrieve", "history"} => k.asked # 0
  /\ k.turn # 0 /\ k.step \in {"get", "access", "reserve", "question"} =>
       \A m \in Items : m.turn # k.turn
  /\ k.step \notin {"idle", "get", "access", "reserve", "list"} =>
       k.turn \in admitted
  /\ k.step = "asking" =>
       /\ \A m \in messages : m.turn # k.turn
       /\ \A x \in appends : ~(x.turn = k.turn /\ x.role = "assistant")
  /\ k.step \in {"retrieve", "history", "answer", "save"} =>
       /\ \A x \in appends : x.turn # k.turn
       /\ \A m \in messages : ~(m.turn = k.turn /\ m.role = "assistant")
       /\ conversation => Question(k.turn)
  /\ k.step = "saving" /\ conversation => Question(k.turn)

CallsFit == \A c \in Clients : CallFits(call[c])

OwnTurns ==
  \A c, d \in Clients : call[c].turn # 0 /\ call[c].turn = call[d].turn => c = d

IInv ==
  /\ TypeOK
  /\ Numbered /\ Distinct /\ Locked
  /\ AppendsFit /\ CallsFit /\ OwnTurns
  /\ TurnsAreWhole
  /\ PagesAreAPrefix

-----------------------------------------------------------------------------
(* Orders.                                                                 *)

(* The next order follows the last.                                        *)
LEMMA NextFollows ==
  ASSUME NEW n \in Nat, Orders = 1 .. n
  PROVE  NextOrder = n + 1
<1>1. n \in Orders \cup {0} /\ \A k \in Orders : k <= n
  OBVIOUS
<1>2. \A i \in Orders \cup {0} :
        (\A k \in Orders : k <= i) => i = n
  OBVIOUS
<1>3. LastOrder = n
  BY <1>1, <1>2 DEF LastOrder
<1>4. QED
  BY <1>3 DEF NextOrder

(* There are as many messages as orders.                                   *)
LEMMA MessagesCounted ==
  ASSUME Distinct, NEW n \in Nat, Orders = 1 .. n
  PROVE  IsFiniteSet(messages) /\ Cardinality(messages) = n
<1> DEFINE f == [m \in messages |-> m.order]
<1>1. f \in [messages -> 1 .. n]
  BY DEF Orders
<1>2. f \in Injection(messages, 1 .. n)
  BY <1>1 DEF Distinct, Injection, IsInjective
<1>3. f \in Surjection(messages, 1 .. n)
  BY <1>1 DEF Surjection, Orders
<1>4. IsFiniteSet(1 .. n) /\ Cardinality(1 .. n) = n
  BY FS_Interval
<1>5. QED
  BY <1>2, <1>3, <1>4, FS_Injection

(* The message with the order k is the k-th one.                           *)
LEMMA RankedIs ==
  ASSUME Distinct, NEW n \in Nat, Orders = 1 .. n, NEW k \in 1 .. n
  PROVE  Ranked(k) \in messages /\ Ranked(k).order = k
<1>1. ASSUME NEW m \in messages
      PROVE  m.order \in 1 .. n
             /\ Cardinality({i \in Orders : i <= m.order}) = m.order
  <2>1. m.order \in 1 .. n
    BY DEF Orders
  <2>2. {i \in Orders : i <= m.order} = 1 .. m.order
    BY <2>1
  <2>3. Cardinality(1 .. m.order) = m.order
    BY <2>1, FS_Interval
  <2>4. QED
    BY <2>1, <2>2, <2>3
<1>2. PICK m \in messages : m.order = k
  BY DEF Orders
<1>3. Cardinality({i \in Orders : i <= m.order}) = k
  BY <1>1, <1>2
<1>4. Ranked(k) \in messages
      /\ Cardinality({i \in Orders : i <= Ranked(k).order}) = k
  BY <1>3 DEF Ranked
<1>5. QED
  BY <1>1, <1>4

-----------------------------------------------------------------------------
(* Steps of a request.                                                     *)

(* What is kept when the tables are not written.                           *)
LEMMA TablesKept ==
  ASSUME IInv, UNCHANGED <<conversation, messages, appends, answered>>,
         admitted \subseteq admitted'
  PROVE  /\ Numbered' /\ Distinct' /\ Locked' /\ AppendsFit'
         /\ TurnsAreWhole'
         /\ UNCHANGED NextOrder
<1>1. UNCHANGED <<Orders, NextOrder>>
  BY DEF Orders, NextOrder, LastOrder
<1>2. Numbered' /\ Distinct' /\ Locked'
  BY <1>1 DEF IInv, Numbered, Distinct, Locked
<1>3. AppendsFit'
  BY DEF IInv, AppendsFit, Question
<1>4. TurnsAreWhole'
  BY DEF IInv, TurnsAreWhole, AnswersFollowQuestions, EveryTurnOnce,
         AnsweredIsStored
<1>5. QED
  BY <1>1, <1>2, <1>3, <1>4

LEMMA FitKept ==
  ASSUME NEW k, CallFits(k),
         UNCHANGED <<conversation, messages, appends, answered>>,
         admitted \subseteq admitted'
  PROVE  CallFits(k)'
BY DEF CallFits, Items, Question

(* A request of client c becomes k, with its turn, a new one or none.      *)
LEMMA RequestStep ==
  ASSUME IInv, NEW c \in Clients, NEW k \in Call,
         UNCHANGED <<conversation, member, messages, appends, answered>>,
         turns' \in turns .. MaxTurns,
         admitted \subseteq admitted', admitted' \subseteq 1 .. turns',
         call' = [call EXCEPT ![c] = k],
         k.turn \in {0, call[c].turn} \cup (turns + 1 .. turns'),
         CallFits(k)',
         read' \in [Clients -> Seq(Row)], PagesAreAPrefix'
  PROVE  IInv'
<1>1. /\ call \in [Clients -> Call] /\ turns \in Nat /\ turns' \in Nat
      /\ MaxTurns \in Nat /\ \A d \in Clients : call[d].turn \in 0 .. turns
  <2>1. call \in [Clients -> Call] /\ turns \in Nat /\ MaxTurns \in Nat
    BY ConversationAssumption DEF IInv, TypeOK, ConversationAssumption
  <2>2. ASSUME NEW d \in Clients
        PROVE  call[d].turn \in 0 .. turns
    <3>1. call[d].turn \in Turns \cup {0}
      BY <2>1 DEF Call
    <3>2. call[d].turn <= turns
      BY DEF IInv, TypeOK
    <3>3. QED
      BY <2>1, <3>1, <3>2 DEF Turns
  <2>3. QED
    BY <2>1, <2>2
<1>2. \A d \in Clients : call'[d] = IF d = c THEN k ELSE call[d]
  BY <1>1
<1>3. TypeOK'
  <2>1. call' \in [Clients -> Call]
    BY <1>1
  <2>2. \A d \in Clients : call'[d].turn <= turns'
    BY <1>1, <1>2
  <2>3. answered' \subseteq 1 .. turns'
    BY <1>1 DEF IInv, TypeOK
  <2>4. QED
    BY <1>1, <2>1, <2>2, <2>3 DEF IInv, TypeOK
<1>4. CallsFit'
  <2> SUFFICES ASSUME NEW d \in Clients PROVE CallFits(call[d])'
    BY DEF CallsFit
  <2>1. CASE d = c
    BY <1>2, <2>1
  <2>2. CASE d # c
    <3>1. PICK j : j = call[d] /\ j = call'[d]
      BY <1>2, <2>2
    <3>2. CallFits(j)
      BY <3>1 DEF IInv, CallsFit
    <3>3. CallFits(j)'
      BY <3>2, FitKept
    <3>4. QED
      BY <3>1, <3>3 DEF CallFits
  <2>3. QED
    BY <2>1, <2>2
<1>5. OwnTurns'
  <2> SUFFICES ASSUME NEW d \in Clients, NEW e \in Clients,
                      call'[d].turn # 0, call'[d].turn = call'[e].turn
               PROVE  d = e
    BY DEF OwnTurns
  <2>1. CASE call[d].turn = call'[d].turn /\ call[e].turn = call'[e].turn
    BY <2>1 DEF IInv, OwnTurns
  <2>2. CASE ~(call[d].turn = call'[d].turn /\ call[e].turn = call'[e].turn)
    <3>1. k.turn \in turns + 1 .. turns' /\ (d = c \/ e = c)
      BY <1>2, <2>2
    <3>2. QED
      BY <1>1, <1>2, <3>1
  <2>3. QED
    BY <2>1, <2>2
<1>6. QED
  BY <1>3, <1>4, <1>5, TablesKept DEF IInv

(* No request always fits.                                                 *)
LEMMA IdleFits == IdleCall \in Call /\ CallFits(IdleCall) /\ CallFits(IdleCall)'
<1>1. 0 \in 0 .. MaxSize + 1
  BY ConversationAssumption DEF ConversationAssumption
<1>2. {} \in SUBSET Row
  OBVIOUS
<1>3. IdleCall \in Call
  BY <1>1, <1>2 DEF IdleCall, Call, Steps
<1>4. CallFits(IdleCall) /\ CallFits(IdleCall)'
  BY DEF IdleCall, CallFits
<1>5. QED
  BY <1>3, <1>4

(* The tables and what was listed are as before.                           *)
Quiet ==
  /\ UNCHANGED <<conversation, member, messages, appends, turns, answered, read>>
  /\ admitted \subseteq admitted'
  /\ admitted' \subseteq 1 .. turns

LEMMA QuietRefuse ==
  ASSUME IInv, NEW c \in Clients, Quiet, Refuse(c)
  PROVE  IInv'
<1>1. PagesAreAPrefix' /\ read' \in [Clients -> Seq(Row)]
      /\ turns' \in turns .. MaxTurns
  BY ConversationAssumption
     DEF IInv, TypeOK, PagesAreAPrefix, Quiet, ConversationAssumption
<1>2. IdleCall.turn = 0
  BY DEF IdleCall
<1>3. QED
  BY <1>1, <1>2, IdleFits, RequestStep DEF Refuse, Quiet

LEMMA QuietChange ==
  ASSUME IInv, NEW c \in Clients, Quiet, NEW k \in Call,
         call' = [call EXCEPT ![c] = k], k.turn = call[c].turn, CallFits(k)'
  PROVE  IInv'
<1>1. PagesAreAPrefix' /\ read' \in [Clients -> Seq(Row)]
      /\ turns' \in turns .. MaxTurns
  BY ConversationAssumption
     DEF IInv, TypeOK, PagesAreAPrefix, Quiet, ConversationAssumption
<1>2. QED
  BY <1>1, RequestStep DEF Quiet

(* A request goes to a step that it fits.                                  *)
LEMMA QuietGoto ==
  ASSUME IInv, NEW c \in Clients, Quiet, NEW s \in Steps, Goto(c, s),
         NEW k, k = [call[c] EXCEPT !.step = s], CallFits(k)'
  PROVE  IInv'
<1>1. call \in [Clients -> Call]
  BY DEF IInv, TypeOK
<1>2. k \in Call /\ k.turn = call[c].turn
  BY <1>1 DEF Call
<1>3. call' = [call EXCEPT ![c] = k]
  BY <1>1 DEF Goto
<1>4. QED
  BY <1>2, <1>3, QuietChange

(* The steps that write no table.                                          *)
LEMMA CallFailsStep ==
  ASSUME IInv, NEW c \in Clients, CallFails(c)
  PROVE  IInv'
<1>1. Quiet
  BY DEF CallFails, Quiet, IInv, TypeOK
<1>2. QED
  BY <1>1, QuietRefuse DEF CallFails

LEMMA GetStep ==
  ASSUME IInv, NEW c \in Clients, GetConversation(c)
  PROVE  IInv'
<1>1. Quiet
  BY DEF GetConversation, Quiet, IInv, TypeOK
<1>2. CASE Refuse(c)
  BY <1>1, <1>2, QuietRefuse
<1>3. CASE Goto(c, "access")
  <2>1. PICK k : k = [call[c] EXCEPT !.step = "access"]
    OBVIOUS
  <2>2. call[c] \in Call /\ call[c].step = "get" /\ CallFits(call[c])
    BY DEF GetConversation, IInv, TypeOK, CallsFit
  <2>3. CallFits(k)
    BY <2>1, <2>2 DEF CallFits, Call
  <2>4. CallFits(k)'
    BY <1>1, <2>3, FitKept DEF Quiet
  <2>5. QED
    BY <1>1, <1>3, <2>1, <2>4, QuietGoto DEF Steps
<1>4. QED
  BY <1>2, <1>3 DEF GetConversation

LEMMA AccessStep ==
  ASSUME IInv, NEW c \in Clients, CheckAccess(c)
  PROVE  IInv'
<1>1. Quiet
  BY DEF CheckAccess, Quiet, IInv, TypeOK
<1>2. CASE Refuse(c)
  BY <1>1, <1>2, QuietRefuse
<1>3. CASE Goto(c, IF call[c].kind = "chat" THEN "reserve" ELSE "list")
  <2>1. PICK s \in Steps :
          s = IF call[c].kind = "chat" THEN "reserve" ELSE "list"
    BY DEF Steps
  <2>2. PICK k : k = [call[c] EXCEPT !.step = s]
    OBVIOUS
  <2>3. call[c] \in Call /\ call[c].step = "access" /\ CallFits(call[c])
    BY DEF CheckAccess, IInv, TypeOK, CallsFit
  <2>4. CallFits(k)
    BY <2>1, <2>2, <2>3 DEF CallFits, Call
  <2>5. CallFits(k)'
    BY <1>1, <2>4, FitKept DEF Quiet
  <2>6. QED
    BY <1>1, <1>3, <2>1, <2>2, <2>5, QuietGoto
<1>4. QED
  BY <1>2, <1>3 DEF CheckAccess

LEMMA ReserveStep ==
  ASSUME IInv, NEW c \in Clients, Reserve(c)
  PROVE  IInv'
<1>1. call[c] \in Call /\ call[c].step = "reserve" /\ CallFits(call[c])
      /\ call[c].turn <= turns /\ turns \in Nat /\ admitted \subseteq 1 .. turns
  BY DEF Reserve, IInv, TypeOK, CallsFit
<1>2. call[c].turn \in 1 .. turns
  BY <1>1 DEF CallFits, Call, Turns
<1>3. Quiet
  BY <1>1, <1>2 DEF Reserve, Quiet
<1>4. CASE Refuse(c)
  BY <1>3, <1>4, QuietRefuse
<1>5. CASE Goto(c, "question") /\ admitted' = admitted \cup {call[c].turn}
  <2>1. PICK k : k = [call[c] EXCEPT !.step = "question"]
    OBVIOUS
  <2>2. CallFits(k)'
    BY <1>1, <1>2, <1>3, <1>5, <2>1 DEF CallFits, Call, Quiet, Items, Question
  <2>3. QED
    BY <1>3, <1>5, <2>1, <2>2, QuietGoto DEF Steps
<1>6. QED
  BY <1>4, <1>5 DEF Reserve

LEMMA RetrieveStep ==
  ASSUME IInv, NEW c \in Clients, Retrieve(c)
  PROVE  IInv'
<1>1. Quiet
  BY DEF Retrieve, Quiet, IInv, TypeOK
<1>2. PICK k : k = [call[c] EXCEPT !.step = "history"]
  OBVIOUS
<1>3. call[c] \in Call /\ call[c].step = "retrieve" /\ CallFits(call[c])
  BY DEF Retrieve, IInv, TypeOK, CallsFit
<1>4. CallFits(k)
  BY <1>2, <1>3 DEF CallFits, Call
<1>5. CallFits(k)'
  BY <1>1, <1>4, FitKept DEF Quiet
<1>6. QED
  BY <1>1, <1>2, <1>5, QuietGoto DEF Retrieve, Steps

LEMMA HistoryStep ==
  ASSUME IInv, NEW c \in Clients, ReadHistory(c)
  PROVE  IInv'
<1>1. Quiet
  BY DEF ReadHistory, Quiet, IInv, TypeOK
<1>2. call[c] \in Call /\ call[c].step = "history" /\ CallFits(call[c])
      /\ messages \subseteq Row /\ call \in [Clients -> Call]
  BY DEF ReadHistory, IInv, TypeOK, CallsFit
<1>3. /\ call[c].turn \in Turns /\ call[c].size \in 1 .. MaxSize
      /\ call[c].asked \in Nat \ {0}
  BY <1>2, ConversationAssumption
     DEF CallFits, Call, Turns, ConversationAssumption
<1>4. Prompt(c) \in SUBSET Row
  <2>1. Bounded(Latest(MaxHistory)) \subseteq Row
    BY <1>2 DEF Bounded, Latest
  <2>2. [turn |-> call[c].turn, role |-> "user", size |-> call[c].size,
         order |-> call[c].asked] \in Row
    BY <1>3 DEF Row, Roles
  <2>3. QED
    BY <2>1, <2>2 DEF Prompt
<1>5. PICK k : k = [call[c] EXCEPT !.step = "answer", !.prompt = Prompt(c)]
  OBVIOUS
<1>6. k \in Call /\ k.turn = call[c].turn
  BY <1>2, <1>4, <1>5 DEF Call, Steps
<1>7. CallFits(k)
  BY <1>2, <1>5 DEF CallFits, Call
<1>8. CallFits(k)'
  BY <1>1, <1>7, FitKept DEF Quiet
<1>9. call' = [call EXCEPT ![c] = k]
  BY <1>2, <1>5 DEF ReadHistory
<1>10. QED
  BY <1>1, <1>6, <1>8, <1>9, QuietChange

LEMMA AnswerStep ==
  ASSUME IInv, NEW c \in Clients, Answer(c)
  PROVE  IInv'
<1>1. Quiet
  BY DEF Answer, Quiet, IInv, TypeOK
<1>2. call[c] \in Call /\ call[c].step = "answer" /\ CallFits(call[c])
      /\ call \in [Clients -> Call]
  BY DEF Answer, IInv, TypeOK, CallsFit
<1>3. PICK n \in 1 .. MaxSize + 1 :
        call' = [call EXCEPT ![c].step = "save", ![c].size = n,
                             ![c].prompt = {}]
  BY DEF Answer
<1>4. PICK k : k = [call[c] EXCEPT !.step = "save", !.size = n, !.prompt = {}]
  OBVIOUS
<1>5. n \in 0 .. MaxSize + 1 /\ n >= 1
  BY <1>3, ConversationAssumption DEF ConversationAssumption
<1>6. k \in Call /\ k.turn = call[c].turn
  BY <1>2, <1>4, <1>5 DEF Call, Steps
<1>7. CallFits(k)
  BY <1>2, <1>4, <1>5 DEF CallFits, Call
<1>8. CallFits(k)'
  BY <1>1, <1>7, FitKept DEF Quiet
<1>9. call' = [call EXCEPT ![c] = k]
  BY <1>2, <1>3, <1>4
<1>10. QED
  BY <1>1, <1>6, <1>8, <1>9, QuietChange

(* A page continues what was listed.                                       *)
(* How many messages a page has, after the first k of n.                   *)
PageLength(n, k) ==
  IF n < k THEN 0 ELSE IF n - k < PageSize THEN n - k ELSE PageSize

(* A page has the messages of the next orders.                             *)
LEMMA PageIs ==
  ASSUME IInv, NEW n \in Nat, Orders = 1 .. n, NEW k \in Nat
  PROVE  /\ PageLength(n, k) \in Nat
         /\ Page(k) \in Seq(Row) /\ Len(Page(k)) = PageLength(n, k)
         /\ \A i \in 1 .. PageLength(n, k) :
              /\ k + i \in 1 .. n
              /\ Page(k)[i] \in messages /\ Page(k)[i].order = k + i
<1> DEFINE z == PageLength(n, k)
<1>1. Cardinality(messages) = n /\ messages \subseteq Row
  BY MessagesCounted DEF IInv, TypeOK
<1>2. z \in Nat /\ \A i \in 1 .. z : k + i \in 1 .. n
  BY ConversationAssumption DEF ConversationAssumption, PageLength
<1>3. Page(k) = [i \in 1 .. z |-> Ranked(k + i)]
  BY <1>1 DEF Page, PageLength
<1> HIDE DEF z
<1>4. \A i \in 1 .. z : /\ Ranked(k + i) \in messages
                        /\ Ranked(k + i).order = k + i
  BY <1>2, RankedIs DEF IInv
<1>5. [i \in 1 .. z |-> Ranked(k + i)] \in [1 .. z -> Row]
  BY <1>1, <1>4
<1>6. \A f \in [1 .. z -> Row] : f \in Seq(Row) /\ Len(f) = z
  BY <1>2
<1>7. Page(k) \in Seq(Row) /\ Len(Page(k)) = z
  BY <1>3, <1>5, <1>6
<1>8. \A i \in 1 .. z : Page(k)[i] \in messages /\ Page(k)[i].order = k + i
  BY <1>3, <1>4
<1>9. QED
  BY <1>2, <1>7, <1>8 DEF z

LEMMA ListStep ==
  ASSUME IInv, NEW c \in Clients, List(c)
  PROVE  IInv'
<1>1. /\ read' = [read EXCEPT ![c] = @ \o Page(Len(@))]
      /\ UNCHANGED <<conversation, member, messages, appends, turns, admitted,
                     answered>>
      /\ Refuse(c)
  BY DEF List
<1>2. /\ read \in [Clients -> Seq(Row)] /\ admitted \subseteq 1 .. turns
      /\ messages \subseteq Row /\ turns \in turns .. MaxTurns
  BY ConversationAssumption DEF IInv, TypeOK, ConversationAssumption
<1>3. PICK n \in Nat : Orders = 1 .. n
  BY DEF IInv, Numbered
<1> DEFINE r == read[c]
           z == PageLength(n, Len(r))
<1>4. r \in Seq(Row) /\ Len(r) \in Nat
  BY <1>2
<1>5. z \in Nat /\ \A i \in 1 .. z : Len(r) + i \in 1 .. n
  BY <1>3, <1>4, PageIs
<1>6. Len(Page(Len(r))) = z
      /\ \A i \in 1 .. z : /\ Page(Len(r))[i] \in messages
                           /\ Page(Len(r))[i].order = Len(r) + i
  BY <1>3, <1>4, PageIs
<1>7. Page(Len(r)) \in Seq(Row)
  BY <1>3, <1>4, PageIs
<1> HIDE DEF z
<1>8. PICK p \in Seq(Row) : p = Page(Len(r))
  BY <1>7
<1>9. read' = [read EXCEPT ![c] = r \o p] /\ r \o p \in Seq(Row)
  BY <1>1, <1>2, <1>4, <1>8
<1>10. read' \in [Clients -> Seq(Row)]
  BY <1>2, <1>9
<1>11. ASSUME NEW i \in DOMAIN (r \o p)
       PROVE  /\ (r \o p)[i].order = i
              /\ conversation => (r \o p)[i] \in messages
  <2>1. CASE i \in 1 .. Len(r)
    <3>1. (r \o p)[i] = r[i] /\ i \in DOMAIN r
      BY <1>4, <1>8, <2>1
    <3>2. QED
      BY <3>1 DEF IInv, PagesAreAPrefix
  <2>2. CASE i \notin 1 .. Len(r)
    <3>1. PICK j \in 1 .. z : i = Len(r) + j
      <4>1. i \in 1 .. Len(r) + z /\ i > Len(r)
        <5>1. p \in Seq(Row) /\ Len(p) = z
          BY <1>6, <1>8
        <5>2. Len(r \o p) = Len(r) + z /\ DOMAIN (r \o p) = 1 .. Len(r \o p)
          BY <1>4, <5>1
        <5>3. i \in 1 .. Len(r) + z
          BY <5>2
        <5>4. QED
          BY <1>4, <1>5, <2>2, <5>3
      <4>2. i - Len(r) \in 1 .. z /\ i = Len(r) + (i - Len(r))
        BY <1>4, <1>5, <4>1
      <4>3. QED
        BY <4>2
    <3>2. (r \o p)[i] = p[j]
      BY <1>4, <1>6, <1>8, <3>1
    <3>3. QED
      BY <1>6, <1>8, <3>1, <3>2
  <2>3. QED
    BY <2>1, <2>2
<1>12. PagesAreAPrefix'
  <2> SUFFICES ASSUME NEW d \in Clients, NEW i \in DOMAIN read'[d]
               PROVE  /\ read'[d][i].order = i
                      /\ conversation => read'[d][i] \in messages
    BY <1>1 DEF PagesAreAPrefix
  <2>1. CASE d = c
    BY <1>2, <1>9, <1>11, <2>1
  <2>2. CASE d # c
    BY <1>2, <1>9, <2>2 DEF IInv, PagesAreAPrefix
  <2>3. QED
    BY <2>1, <2>2
<1>13. IdleCall.turn = 0
  BY DEF IdleCall
<1>14. QED
  BY <1>1, <1>2, <1>10, <1>12, <1>13, IdleFits, RequestStep DEF Refuse

LEMMA ArriveStep ==
  ASSUME IInv, NEW c \in Clients, Arrive(c)
  PROVE  IInv'
<1>1. /\ UNCHANGED <<conversation, member, messages, appends, admitted, answered>>
      /\ turns \in 0 .. MaxTurns /\ admitted \subseteq 1 .. turns
      /\ answered \subseteq 1 .. turns /\ messages \subseteq Row
      /\ read \in [Clients -> Seq(Row)] /\ MaxTurns \in Nat
  BY ConversationAssumption DEF Arrive, IInv, TypeOK, ConversationAssumption
<1>2. CASE /\ call' = [call EXCEPT ![c] = Listing]
           /\ read' = [read EXCEPT ![c] = <<>>] \/ UNCHANGED read
           /\ UNCHANGED turns
  <2>1. PICK k : k = Listing
    OBVIOUS
  <2>2. k \in Call /\ k.turn = 0 /\ CallFits(k)'
    <3>1. k = [kind |-> "list", step |-> "get", turn |-> 0, asked |-> 0,
               prompt |-> {}, size |-> 0]
      BY <2>1 DEF Listing, IdleCall
    <3>2. 0 \in 0 .. MaxSize + 1 /\ {} \in SUBSET Row
      BY ConversationAssumption DEF ConversationAssumption
    <3>3. k \in Call
      BY <3>1, <3>2 DEF Call, Steps
    <3>4. CallFits(k)'
      BY <3>1 DEF CallFits
    <3>5. QED
      BY <3>1, <3>3, <3>4
  <2>3. read' \in [Clients -> Seq(Row)]
    <3>1. <<>> \in Seq(Row)
      OBVIOUS
    <3>2. QED
      BY <1>1, <1>2, <3>1
  <2>4. \A d \in Clients : read'[d] = read[d] \/ read'[d] = <<>>
    BY <1>1, <1>2
  <2>5. PagesAreAPrefix'
    BY <1>1, <2>4 DEF IInv, PagesAreAPrefix
  <2>6. turns' \in turns .. MaxTurns
    BY <1>1, <1>2
  <2>7. QED
    BY <1>1, <1>2, <2>1, <2>2, <2>3, <2>5, <2>6, RequestStep
<1>3. CASE /\ turns < MaxTurns
           /\ turns' = turns + 1
           /\ \E n \in 1 .. MaxQuestion :
                call' = [call EXCEPT ![c] = Chat(turns + 1, n)]
           /\ UNCHANGED read
  <2>1. PICK n \in 1 .. MaxQuestion :
               call' = [call EXCEPT ![c] = Chat(turns + 1, n)]
    BY <1>3
  <2>2. PICK k : k = Chat(turns + 1, n)
    OBVIOUS
  <2>3. k = [kind |-> "chat", step |-> "get", turn |-> turns + 1, asked |-> 0,
             prompt |-> {}, size |-> n]
    BY <2>2 DEF Chat, IdleCall
  <2>4. n \in 1 .. MaxSize /\ n \in 0 .. MaxSize + 1
    BY ConversationAssumption DEF ConversationAssumption
  <2>5. k \in Call
    <3>1. turns + 1 \in Turns /\ {} \in SUBSET Row
      BY <1>1, <1>3 DEF Turns
    <3>2. QED
      BY <2>3, <2>4, <3>1 DEF Call, Steps
  <2>6. \A m \in Items : m.turn # turns + 1
    <3>1. \A m \in Items : m.turn \in admitted
      BY DEF Items, IInv, TurnsAreWhole, AppendsFit
    <3>2. turns + 1 \notin admitted
      BY <1>1
    <3>3. QED
      BY <3>1, <3>2
  <2>7. CallFits(k)
    <3>1. k.turn # 0 /\ k.turn \notin answered
      BY <1>1, <2>3
    <3>2. QED
      BY <2>3, <2>4, <2>6, <3>1 DEF CallFits
  <2>8. CallFits(k)'
    BY <1>1, <2>7, FitKept
  <2>9. PagesAreAPrefix' /\ read' \in [Clients -> Seq(Row)]
    BY <1>1, <1>3 DEF IInv, PagesAreAPrefix
  <2>10. /\ turns' \in turns .. MaxTurns /\ k.turn \in turns + 1 .. turns'
         /\ admitted' \subseteq 1 .. turns'
    BY <1>1, <1>3, <2>3
  <2>11. QED
    BY <1>1, <2>1, <2>2, <2>5, <2>8, <2>9, <2>10, RequestStep
<1>4. QED
  BY <1>2, <1>3 DEF Arrive

-----------------------------------------------------------------------------
(* Steps that write a table.                                               *)

(* A request does not depend on the messages of other turns.               *)
LEMMA FitOther ==
  ASSUME NEW k, CallFits(k), NEW t, k.turn # t,
         UNCHANGED <<conversation, admitted>>,
         answered' \subseteq answered \cup {t},
         \A m : m.turn # t => (m \in messages' <=> m \in messages),
         \A x : x.turn # t => (x \in appends' <=> x \in appends)
  PROVE  CallFits(k)'
<1>1. \A m \in Items' : m.turn # t => m \in Items
  BY DEF Items
<1>2. Question(k.turn) => Question(k.turn)'
  BY DEF Question
<1>3. QED
  BY <1>1, <1>2 DEF CallFits

(* A request at one of these steps begins a transaction.                   *)
LEMMA BeginStep ==
  ASSUME IInv, NEW c \in Clients, CanAppend(call[c].size),
         NEW role \in Roles, NEW s \in Steps,
         \/ call[c].step = "question" /\ role = "user" /\ s = "asking"
         \/ call[c].step = "save" /\ role = "assistant" /\ s = "saving",
         Begin(c, role), Goto(c, s),
         UNCHANGED <<conversation, member, messages, turns, admitted, answered,
                     read>>
  PROVE  IInv'
<1>1. PICK t : t = call[c].turn
  OBVIOUS
<1>2. PICK x : x = [turn |-> t, role |-> role, size |-> call[c].size,
                    order |-> 0]
  OBVIOUS
<1>3. call \in [Clients -> Call] /\ call[c] \in Call /\ CallFits(call[c])
      /\ messages \subseteq Row /\ appends \subseteq Transaction
      /\ admitted \subseteq 1 .. turns /\ turns \in 0 .. MaxTurns
  BY DEF IInv, TypeOK, CallsFit
<1>4. appends' = appends \cup {x}
  BY <1>1, <1>2 DEF Begin
<1>5. t # 0 /\ t \in Turns /\ call[c].size \in 1 .. MaxSize /\ t \in admitted
  <2>1. t # 0 /\ t \in admitted /\ call[c].size >= 1
    BY <1>1, <1>3 DEF CallFits
  <2>2. call[c].turn \in Turns \cup {0} /\ call[c].size \in 0 .. MaxSize + 1
    BY <1>3 DEF Call
  <2>3. call[c].size <= MaxSize
    BY DEF CanAppend
  <2>4. QED
    BY <1>1, <2>1, <2>2, <2>3, ConversationAssumption
       DEF ConversationAssumption
<1>6. x \in Transaction /\ x.order = 0 /\ x.turn = t /\ x.role = role
  BY <1>2, <1>5 DEF Transaction
<1>7. /\ \A y \in appends : ~(y.turn = t /\ y.role = role)
      /\ \A m \in messages : ~(m.turn = t /\ m.role = role)
      /\ role = "assistant" => Question(t)
  BY <1>1, <1>3, <1>5 DEF CallFits, CanAppend, Items
<1>8. Numbered' /\ Distinct' /\ TurnsAreWhole' /\ PagesAreAPrefix'
  BY DEF IInv, Numbered, Distinct, Orders, TurnsAreWhole, EveryTurnOnce,
         AnswersFollowQuestions, AnsweredIsStored, PagesAreAPrefix
<1>9. Locked'
  <2>1. UNCHANGED NextOrder
    BY DEF NextOrder, LastOrder, Orders
  <2>2. QED
    BY <1>4, <1>6, <2>1 DEF IInv, Locked
<1>10. AppendsFit'
  <2>1. \A y \in appends' : y \in appends \/ y = x
    BY <1>4
  <2>2. (\A y, z \in appends : y.turn = z.turn /\ y.role = z.role => y = z)'
    BY <1>6, <1>7, <2>1 DEF IInv, AppendsFit
  <2>3. (\A y \in appends, m \in messages : ~(y.turn = m.turn /\ y.role = m.role))'
    BY <1>6, <1>7, <2>1 DEF IInv, AppendsFit
  <2>4. (\A y \in appends : /\ y.turn \in admitted
                            /\ y.role = "assistant" /\ conversation =>
                                 Question(y.turn))'
    BY <1>5, <1>6, <1>7, <2>1 DEF IInv, AppendsFit, Question
  <2>5. QED
    BY <2>2, <2>3, <2>4 DEF AppendsFit
<1>11. PICK k : k = [call[c] EXCEPT !.step = s]
  OBVIOUS
<1>12. k \in Call /\ k.turn = t /\ k.step = s
  BY <1>1, <1>3, <1>11 DEF Call
<1>13. \A d \in Clients : call'[d] = IF d = c THEN k ELSE call[d]
  BY <1>3, <1>11 DEF Goto
<1>14. CallsFit'
  <2> SUFFICES ASSUME NEW d \in Clients PROVE CallFits(call[d])'
    BY DEF CallsFit
  <2>1. CASE d = c
    <3>1. CallFits(k)'
      <4>1. CASE s = "asking"
        <5>1. \A m \in Items : m.turn # t
          BY <1>1, <1>3, <1>5, <4>1 DEF CallFits
        <5>2. k.kind = "chat" /\ k.turn \notin answered /\ k.size >= 1
              /\ k.size <= MaxSize
          BY <1>1, <1>3, <1>5, <1>11, <4>1 DEF CallFits, Call
        <5>3. QED
          BY <1>4, <1>5, <1>6, <1>12, <4>1, <5>1, <5>2 DEF CallFits, Items
      <4>2. CASE s = "saving"
        <5>1. k.kind = "chat" /\ k.turn \notin answered /\ k.size >= 1
          BY <1>1, <1>3, <1>5, <1>11, <4>2 DEF CallFits, Call
        <5>2. QED
          BY <1>5, <1>7, <1>12, <4>2, <5>1 DEF CallFits, Question
      <4>3. QED
        BY <4>1, <4>2
    <3>2. QED
      BY <1>13, <2>1, <3>1 DEF CallFits
  <2>2. CASE d # c
    <3>1. PICK j : j = call[d] /\ j = call'[d]
      BY <1>13, <2>2
    <3>2. CallFits(j) /\ j.turn # t
      BY <1>1, <1>5, <2>2, <3>1 DEF IInv, CallsFit, OwnTurns
    <3>3. CallFits(j)'
      BY <1>4, <1>6, <3>2, FitOther
    <3>4. QED
      BY <3>1, <3>3 DEF CallFits
  <2>3. QED
    BY <2>1, <2>2
<1>15. OwnTurns'
  BY <1>1, <1>12, <1>13 DEF IInv, OwnTurns
<1>16. TypeOK'
  <2>1. call' \in [Clients -> Call]
    BY <1>3, <1>11, <1>12 DEF Goto
  <2>2. \A d \in Clients : call'[d].turn <= turns
    BY <1>1, <1>12, <1>13 DEF IInv, TypeOK
  <2>3. appends' \subseteq Transaction
    BY <1>3, <1>4, <1>6
  <2>4. QED
    BY <2>1, <2>2, <2>3 DEF IInv, TypeOK
<1>17. QED
  BY <1>8, <1>9, <1>10, <1>14, <1>15, <1>16 DEF IInv

LEMMA AskStep ==
  ASSUME IInv, NEW c \in Clients, Ask(c)
  PROVE  IInv'
<1>1. CASE CanAppend(call[c].size) /\ Begin(c, "user") /\ Goto(c, "asking")
  BY <1>1, BeginStep DEF Ask, Roles, Steps
<1>2. CASE UNCHANGED appends /\ Refuse(c)
  <2>1. Quiet
    BY <1>2 DEF Ask, Quiet, IInv, TypeOK
  <2>2. QED
    BY <1>2, <2>1, QuietRefuse
<1>3. QED
  BY <1>1, <1>2 DEF Ask

LEMMA SaveStep ==
  ASSUME IInv, NEW c \in Clients, Save(c)
  PROVE  IInv'
<1>1. CASE CanAppend(call[c].size) /\ Begin(c, "assistant") /\ Goto(c, "saving")
  BY <1>1, BeginStep DEF Save, Roles, Steps
<1>2. CASE UNCHANGED appends /\ Refuse(c)
  <2>1. Quiet
    BY <1>2 DEF Save, Quiet, IInv, TypeOK
  <2>2. QED
    BY <1>2, <2>1, QuietRefuse
<1>3. QED
  BY <1>1, <1>2 DEF Save

(* A request fits as well when transactions and messages have gone.        *)
LEMMA FitLess ==
  ASSUME NEW k, CallFits(k), UNCHANGED <<admitted, answered>>,
         messages' \subseteq messages,
         \A y \in appends' : \E z \in appends : y.turn = z.turn /\ y.role = z.role,
         conversation' => conversation /\ UNCHANGED messages
  PROVE  CallFits(k)'
<1>1. \A m \in Items' : \E i \in Items : m.turn = i.turn
  BY DEF Items
<1>2. conversation' => conversation /\ (Question(k.turn) => Question(k.turn)')
  BY DEF Question
<1>3. QED
  BY <1>1, <1>2 DEF CallFits

(* Calls that go on as before, or end, when transactions and messages have *)
(* gone.                                                                   *)
LEMMA LessStep ==
  ASSUME IInv, UNCHANGED <<turns, admitted, answered, read>>,
         conversation' \in BOOLEAN, member' \in BOOLEAN,
         messages' \subseteq messages,
         appends' \subseteq Transaction,
         \A y \in appends' : \E z \in appends : y.turn = z.turn /\ y.role = z.role,
         conversation' => conversation /\ UNCHANGED messages,
         NEW E \in SUBSET Clients,
         call' = [c \in Clients |-> IF c \in E THEN IdleCall ELSE call[c]]
  PROVE  TypeOK' /\ CallsFit' /\ OwnTurns' /\ PagesAreAPrefix'
<1>1. /\ call \in [Clients -> Call] /\ turns \in 0 .. MaxTurns
      /\ messages \subseteq Row /\ MaxTurns \in Nat
  BY ConversationAssumption DEF IInv, TypeOK, ConversationAssumption
<1>2. IdleCall.turn = 0
  BY DEF IdleCall
<1>3. TypeOK'
  <2>1. call' \in [Clients -> Call]
    BY <1>1, IdleFits
  <2>2. \A d \in Clients : call'[d].turn <= turns
    BY <1>1, <1>2 DEF IInv, TypeOK
  <2>3. QED
    BY <1>1, <2>1, <2>2 DEF IInv, TypeOK
<1>4. CallsFit'
  <2> SUFFICES ASSUME NEW d \in Clients PROVE CallFits(call[d])'
    BY DEF CallsFit
  <2>1. PICK j : j = call'[d]
    OBVIOUS
  <2>2. j = IdleCall \/ j = call[d]
    BY <2>1
  <2>3. CallFits(j)
    BY <2>2, IdleFits DEF IInv, CallsFit
  <2>4. CallFits(j)'
    BY <2>3, FitLess
  <2>5. QED
    BY <2>1, <2>4 DEF CallFits
<1>5. OwnTurns'
  BY <1>2 DEF IInv, OwnTurns
<1>6. PagesAreAPrefix'
  BY DEF IInv, PagesAreAPrefix
<1>7. QED
  BY <1>3, <1>4, <1>5, <1>6

LEMMA RollBackStep ==
  ASSUME IInv, NEW x \in appends, RollBack(x)
  PROVE  IInv'
<1>1. /\ appends' = appends \ {x} /\ appends \subseteq Transaction
      /\ UNCHANGED <<conversation, member, messages, turns, admitted, answered,
                     read>>
      /\ conversation \in BOOLEAN /\ member \in BOOLEAN
  BY DEF RollBack, IInv, TypeOK
<1>2. call' = [c \in Clients |-> IF c \in Waiting(x) THEN IdleCall ELSE call[c]]
      /\ Waiting(x) \in SUBSET Clients
  BY DEF RollBack, Waiting
<1>3. TypeOK' /\ CallsFit' /\ OwnTurns' /\ PagesAreAPrefix'
  BY <1>1, <1>2, LessStep
<1>4. UNCHANGED <<Orders, NextOrder>>
  BY <1>1 DEF Orders, NextOrder, LastOrder
<1>5. Numbered' /\ Distinct' /\ Locked'
  BY <1>1, <1>4 DEF IInv, Numbered, Distinct, Locked
<1>6. AppendsFit'
  BY <1>1 DEF IInv, AppendsFit, Question
<1>7. TurnsAreWhole'
  BY <1>1 DEF IInv, TurnsAreWhole, AnswersFollowQuestions, EveryTurnOnce,
              AnsweredIsStored
<1>8. QED
  BY <1>3, <1>5, <1>6, <1>7 DEF IInv

(* The one transaction that has the lock gets the order after the last.    *)
LEMMA CountStep ==
  ASSUME IInv, NEW x \in appends, Count(x)
  PROVE  IInv'
<1>1. /\ x.order = 0 /\ \A y \in appends : y.order = 0
      /\ UNCHANGED <<conversation, member, messages, turns, admitted, answered,
                     call, read>>
  BY DEF Count, Unlocked
<1>2. PICK n \in Nat : Orders = 1 .. n
  BY DEF IInv, Numbered
<1>3. NextOrder = n + 1
  BY <1>2, NextFollows
<1>4. PICK z : z = [x EXCEPT !.order = n + 1]
  OBVIOUS
<1>5. appends' = (appends \ {x}) \cup {z}
  BY <1>3, <1>4 DEF Count
<1>6. /\ x \in Transaction /\ appends \subseteq Transaction
      /\ call \in [Clients -> Call]
      /\ conversation \in BOOLEAN /\ member \in BOOLEAN
  BY DEF IInv, TypeOK
<1>7. z \in Transaction /\ z.order = n + 1 /\ z.turn = x.turn /\ z.role = x.role
  BY <1>4, <1>6 DEF Transaction
<1>8. \A y \in appends' : \E w \in appends :
        /\ y.turn = w.turn /\ y.role = w.role
        /\ y = w \/ (y = z /\ w = x)
  BY <1>5, <1>7
<1>9. call' = [c \in Clients |-> IF c \in {} THEN IdleCall ELSE call[c]]
  BY <1>1, <1>6
<1>10. TypeOK' /\ CallsFit' /\ OwnTurns' /\ PagesAreAPrefix'
  <2>1. appends' \subseteq Transaction
    BY <1>5, <1>6, <1>7
  <2>2. {} \in SUBSET Clients
    OBVIOUS
  <2>3. QED
    BY <1>1, <1>6, <1>8, <1>9, <2>1, <2>2, LessStep
<1>11. UNCHANGED <<Orders, NextOrder>>
  BY <1>1 DEF Orders, NextOrder, LastOrder
<1>12. Numbered' /\ Distinct'
  BY <1>1, <1>11 DEF IInv, Numbered, Distinct
<1>13. Locked'
  BY <1>1, <1>3, <1>5, <1>7, <1>11 DEF Locked
<1>14. AppendsFit'
  <2>1. (\A y, w \in appends : y.turn = w.turn /\ y.role = w.role => y = w)'
    BY <1>5, <1>7 DEF IInv, AppendsFit
  <2>2. (\A y \in appends, m \in messages : ~(y.turn = m.turn /\ y.role = m.role))'
    BY <1>1, <1>8 DEF IInv, AppendsFit
  <2>3. (\A y \in appends : /\ y.turn \in admitted
                            /\ y.role = "assistant" /\ conversation =>
                                 Question(y.turn))'
    BY <1>1, <1>8 DEF IInv, AppendsFit, Question
  <2>4. QED
    BY <2>1, <2>2, <2>3 DEF AppendsFit
<1>15. TurnsAreWhole'
  BY <1>1 DEF IInv, TurnsAreWhole, AnswersFollowQuestions, EveryTurnOnce,
              AnsweredIsStored
<1>16. QED
  BY <1>10, <1>12, <1>13, <1>14, <1>15 DEF IInv

(* A request whose turn is stored by a transaction waits for it.           *)
LEMMA StoredTurnsAreAwaited ==
  ASSUME IInv, conversation, NEW x \in appends, NEW c \in Clients,
         call[c].turn = x.turn
  PROVE  c \in Waiting(x)
<1>1. x \in Transaction /\ call[c] \in Call /\ CallFits(call[c])
  BY DEF IInv, TypeOK, CallsFit
<1>2. x.turn # 0 /\ x.role \in Roles
  BY <1>1 DEF Transaction, Turns
<1>3. PICK k : k = call[c]
  OBVIOUS
<1>4. k.step \notin {"idle", "list", "get", "access", "reserve", "question"}
  BY <1>1, <1>2, <1>3 DEF CallFits, Items
<1>5. k.step \notin {"retrieve", "history", "answer", "save"}
  BY <1>1, <1>2, <1>3 DEF CallFits
<1>6. k.step = "asking" => x.role = "user"
  BY <1>1, <1>2, <1>3 DEF CallFits, Roles
<1>7. k.step = "saving" => x.role = "assistant"
  <2> SUFFICES ASSUME k.step = "saving", x.role = "user" PROVE FALSE
    BY <1>2 DEF Roles
  <2>1. Question(x.turn)
    BY <1>1, <1>3 DEF CallFits
  <2>2. QED
    BY <2>1 DEF Question, IInv, AppendsFit
<1>8. k.step \in Steps
  BY <1>1, <1>3 DEF Call
<1>9. QED
  BY <1>3, <1>4, <1>5, <1>6, <1>7, <1>8 DEF Waiting, Steps, Roles

LEMMA CommitStep ==
  ASSUME IInv, NEW x \in appends, Commit(x)
  PROVE  IInv'
<1>1. /\ x.order # 0 /\ conversation
      /\ messages' = messages \cup {x} /\ appends' = appends \ {x}
      /\ UNCHANGED <<conversation, member, turns, admitted, read>>
  BY DEF Commit
<1>2. /\ x \in Transaction /\ messages \subseteq Row
      /\ appends \subseteq Transaction /\ call \in [Clients -> Call]
      /\ admitted \subseteq 1 .. turns /\ answered \subseteq 1 .. turns
      /\ turns \in 0 .. MaxTurns
  BY DEF IInv, TypeOK
<1>3. x \in Row /\ x.turn \in admitted /\ x.turn # 0 /\ x.role \in Roles
  <2>1. x.order \in Nat \ {0}
    BY <1>1, <1>2 DEF Transaction
  <2>2. QED
    BY <1>2, <2>1 DEF Row, Transaction, Turns, IInv, AppendsFit
<1>4. PICK n \in Nat : Orders = 1 .. n
  BY DEF IInv, Numbered
<1>5. x.order = n + 1
  BY <1>1, <1>4, NextFollows DEF IInv, Locked
<1>6. \A m \in messages : m.order \in 1 .. n
  BY <1>4 DEF Orders
<1>7. Numbered' /\ Distinct'
  <2>1. Orders' = Orders \cup {n + 1}
    BY <1>1, <1>5 DEF Orders
  <2>2. Orders' = 1 .. (n + 1)
    BY <1>4, <2>1
  <2>3. Distinct'
    BY <1>1, <1>5, <1>6 DEF IInv, Distinct
  <2>4. QED
    BY <2>2, <2>3 DEF Numbered
<1>8. Locked'
  BY <1>1 DEF IInv, Locked
<1>9. /\ \A y \in appends' : y \in appends /\ ~(y.turn = x.turn /\ y.role = x.role)
      /\ \A m \in messages : ~(m.turn = x.turn /\ m.role = x.role)
      /\ x.role = "assistant" => Question(x.turn)
  BY <1>1 DEF IInv, AppendsFit
<1>10. AppendsFit'
  BY <1>1, <1>9 DEF IInv, AppendsFit, Question
<1>11. ASSUME NEW c \in Clients
       PROVE  \/ call[c].turn # x.turn /\ call'[c] = call[c]
              \/ /\ call[c].turn = x.turn /\ x.role = "assistant"
                 /\ call[c].step = "saving" /\ call'[c] = IdleCall
              \/ /\ call[c].turn = x.turn /\ x.role = "user"
                 /\ call[c].step = "asking"
                 /\ call'[c] = [call[c] EXCEPT !.step = "retrieve",
                                               !.asked = x.order]
  <2>1. call'[c] = IF c \notin Waiting(x) THEN call[c]
                   ELSE IF x.role = "assistant" THEN IdleCall
                   ELSE [call[c] EXCEPT !.step = "retrieve", !.asked = x.order]
    BY DEF Commit
  <2>2. CASE call[c].turn # x.turn
    BY <2>1, <2>2 DEF Waiting
  <2>3. CASE call[c].turn = x.turn
    <3>1. c \in Waiting(x)
      BY <1>1, <2>3, StoredTurnsAreAwaited
    <3>2. QED
      BY <1>3, <2>1, <2>3, <3>1 DEF Waiting, Roles
  <2>4. QED
    BY <2>2, <2>3
<1>12. answered' \subseteq answered \cup {x.turn}
       /\ (x.role = "user" => answered' = answered)
  BY DEF Commit
<1>13. \A t \in answered' \ answered : t = x.turn /\ x.role = "assistant"
  BY DEF Commit
<1>14. ASSUME NEW c \in Clients
       PROVE  call'[c] \in Call /\ CallFits(call[c])'
              /\ call'[c].turn \in {0, call[c].turn}
  <2>1. PICK j : j = call[c]
    OBVIOUS
  <2>2. j \in Call /\ CallFits(j)
    BY <1>2, <2>1 DEF IInv, CallsFit
  <2>3. PICK k : k = call'[c]
    OBVIOUS
  <2>4. k \in Call /\ CallFits(k)' /\ k.turn \in {0, j.turn}
    <3>1. CASE j.turn # x.turn /\ k = j
      <4>1. CallFits(j)'
        BY <1>1, <1>12, <2>2, <3>1, FitOther
      <4>2. QED
        BY <2>2, <3>1, <4>1 DEF CallFits
    <3>2. CASE k = IdleCall
      <4>1. k.turn = 0
        BY <3>2 DEF IdleCall
      <4>2. CallFits(k)' /\ k \in Call
        BY <3>2, IdleFits DEF CallFits
      <4>3. QED
        BY <4>1, <4>2
    <3>3. CASE /\ j.turn = x.turn /\ x.role = "user" /\ j.step = "asking"
               /\ k = [j EXCEPT !.step = "retrieve", !.asked = x.order]
      <4>1. k \in Call /\ k.turn = x.turn /\ k.step = "retrieve"
            /\ k.asked = x.order /\ k.size = j.size /\ k.kind = j.kind
        <5>1. x.order \in Nat
          BY <1>2 DEF Transaction
        <5>2. QED
          BY <2>2, <3>3, <5>1 DEF Call, Steps
      <4>2. k.kind = "chat" /\ k.size >= 1 /\ k.size <= MaxSize
            /\ k.turn \notin answered'
        BY <1>3, <1>12, <2>2, <3>3, <4>1 DEF CallFits
      <4>3. \A y \in appends' : y.turn # x.turn
        BY <1>2, <1>9, <2>2, <3>3 DEF CallFits, Transaction, Roles
      <4>4. \A m \in messages' : ~(m.turn = x.turn /\ m.role = "assistant")
        BY <1>1, <2>2, <3>3 DEF CallFits
      <4>5. Question(x.turn)'
        BY <1>1, <3>3 DEF Question
      <4>6. CallFits(k)'
        BY <1>1, <1>3, <4>1, <4>2, <4>3, <4>4, <4>5 DEF CallFits
      <4>7. QED
        BY <3>3, <4>1, <4>6
    <3>4. QED
      BY <1>11, <2>1, <2>3, <3>1, <3>2, <3>3
  <2>5. QED
    BY <2>1, <2>3, <2>4 DEF CallFits
<1>15. CallsFit' /\ OwnTurns'
  BY <1>14 DEF CallsFit, IInv, OwnTurns
<1>16. TypeOK'
  <2>1. call' \in [Clients -> Call]
    <3>1. call' = [c \in Clients |-> call'[c]]
      BY DEF Commit
    <3>2. QED
      BY <1>14, <3>1
  <2>2. \A d \in Clients : call'[d].turn <= turns
    BY <1>2, <1>14 DEF IInv, TypeOK
  <2>3. answered' \subseteq 1 .. turns
    BY <1>2, <1>3, <1>12
  <2>4. messages' \subseteq Row /\ appends' \subseteq Transaction
    BY <1>1, <1>2, <1>3
  <2>5. QED
    BY <1>1, <2>1, <2>2, <2>3, <2>4 DEF IInv, TypeOK
<1>17. TurnsAreWhole'
  <2>1. \A m \in messages' : m.turn \in admitted'
    BY <1>1, <1>3 DEF IInv, TurnsAreWhole
  <2>2. AnswersFollowQuestions'
    BY <1>1, <1>5, <1>6, <1>9
       DEF IInv, TurnsAreWhole, AnswersFollowQuestions, Question
  <2>3. EveryTurnOnce'
    BY <1>1, <1>9 DEF IInv, TurnsAreWhole, EveryTurnOnce
  <2>4. AnsweredIsStored'
    BY <1>1, <1>9, <1>13
       DEF IInv, TurnsAreWhole, AnsweredIsStored, Question, Roles
  <2>5. QED
    BY <2>1, <2>2, <2>3, <2>4 DEF TurnsAreWhole
<1>18. PagesAreAPrefix'
  BY <1>1 DEF IInv, PagesAreAPrefix
<1>19. QED
  BY <1>7, <1>8, <1>10, <1>15, <1>16, <1>17, <1>18 DEF IInv

LEMMA DeleteNotebookStep ==
  ASSUME IInv, DeleteNotebook
  PROVE  IInv'
<1>1. /\ ~conversation' /\ conversation' = FALSE /\ messages' = {}
      /\ UNCHANGED <<member, appends, turns, admitted, answered, call, read>>
      /\ call \in [Clients -> Call] /\ appends \subseteq Transaction
      /\ member \in BOOLEAN
  BY DEF DeleteNotebook, IInv, TypeOK
<1>2. call' = [c \in Clients |-> IF c \in {} THEN IdleCall ELSE call[c]]
      /\ {} \in SUBSET Clients
  BY <1>1
<1>3. TypeOK' /\ CallsFit' /\ OwnTurns' /\ PagesAreAPrefix'
  BY <1>1, <1>2, LessStep
<1>4. Numbered' /\ Distinct'
  <2>1. Orders' = 1 .. 0
    BY <1>1 DEF Orders
  <2>2. QED
    BY <1>1, <2>1 DEF Numbered, Distinct
<1>5. Locked'
  BY <1>1 DEF IInv, Locked
<1>6. AppendsFit'
  BY <1>1 DEF IInv, AppendsFit
<1>7. TurnsAreWhole'
  BY <1>1 DEF TurnsAreWhole, AnswersFollowQuestions, EveryTurnOnce,
              AnsweredIsStored
<1>8. QED
  BY <1>3, <1>4, <1>5, <1>6, <1>7 DEF IInv

LEMMA SetMemberStep ==
  ASSUME IInv, SetMember
  PROVE  IInv'
<1>1. /\ member' \in BOOLEAN
      /\ UNCHANGED <<conversation, messages, appends, turns, admitted, answered,
                     call, read>>
      /\ call \in [Clients -> Call] /\ appends \subseteq Transaction
      /\ conversation \in BOOLEAN
  BY DEF SetMember, IInv, TypeOK
<1>2. call' = [c \in Clients |-> IF c \in {} THEN IdleCall ELSE call[c]]
      /\ {} \in SUBSET Clients
  BY <1>1
<1>3. TypeOK' /\ CallsFit' /\ OwnTurns' /\ PagesAreAPrefix'
  BY <1>1, <1>2, LessStep
<1>4. QED
  BY <1>1, <1>3, TablesKept DEF IInv

-----------------------------------------------------------------------------
(* The theorems.                                                           *)

LEMMA InitIInv == Init => IInv
<1> SUFFICES ASSUME Init PROVE IInv
  OBVIOUS
<1>1. /\ conversation = TRUE /\ member = TRUE /\ messages = {} /\ appends = {}
      /\ turns = 0 /\ admitted = {} /\ answered = {}
      /\ call = [c \in Clients |-> IdleCall]
      /\ read = [c \in Clients |-> <<>>]
  BY DEF Init
<1>2. IdleCall.turn = 0
  BY DEF IdleCall
<1>3. TypeOK
  <2>1. turns \in 0 .. MaxTurns /\ \A c \in Clients : call[c].turn <= turns
    BY <1>1, <1>2, ConversationAssumption DEF ConversationAssumption
  <2>2. call \in [Clients -> Call] /\ read \in [Clients -> Seq(Row)]
    BY <1>1, IdleFits
  <2>3. QED
    BY <1>1, <2>1, <2>2 DEF TypeOK
<1>4. Numbered /\ Distinct
  <2>1. Orders = 1 .. 0
    BY <1>1 DEF Orders
  <2>2. QED
    BY <1>1, <2>1 DEF Numbered, Distinct
<1>5. Locked /\ AppendsFit
  BY <1>1 DEF Locked, AppendsFit
<1>6. CallsFit /\ OwnTurns
  BY <1>1, <1>2, IdleFits DEF CallsFit, OwnTurns
<1>7. TurnsAreWhole
  BY <1>1 DEF TurnsAreWhole, AnswersFollowQuestions, EveryTurnOnce,
              AnsweredIsStored
<1>8. PagesAreAPrefix
  BY <1>1 DEF PagesAreAPrefix
<1>9. QED
  BY <1>3, <1>4, <1>5, <1>6, <1>7, <1>8 DEF IInv

LEMMA NextIInv == IInv /\ [Next]_vars => IInv'
<1> SUFFICES ASSUME IInv, [Next]_vars PROVE IInv'
  OBVIOUS
<1>1. ASSUME NEW c \in Clients, Arrive(c) \/ CallFails(c) PROVE IInv'
  BY <1>1, ArriveStep, CallFailsStep
<1>2. ASSUME NEW c \in Clients, Serve(c) PROVE IInv'
  BY <1>2, GetStep, AccessStep, ListStep, ReserveStep, AskStep, RetrieveStep,
     HistoryStep, AnswerStep, SaveStep DEF Serve
<1>3. ASSUME NEW x \in appends, Execute(x) \/ RollBack(x) PROVE IInv'
  BY <1>3, CountStep, CommitStep, RollBackStep DEF Execute, Violate
<1>4. CASE SetMember
  BY <1>4, SetMemberStep
<1>5. CASE DeleteNotebook
  BY <1>5, DeleteNotebookStep
<1>6. CASE UNCHANGED vars
  <2>1. /\ UNCHANGED <<conversation, member, messages, appends, turns, admitted,
                       answered, call, read>>
        /\ call \in [Clients -> Call] /\ appends \subseteq Transaction
        /\ conversation \in BOOLEAN /\ member \in BOOLEAN
    BY <1>6 DEF vars, IInv, TypeOK
  <2>2. call' = [c \in Clients |-> IF c \in {} THEN IdleCall ELSE call[c]]
        /\ {} \in SUBSET Clients
    BY <2>1
  <2>3. TypeOK' /\ CallsFit' /\ OwnTurns' /\ PagesAreAPrefix'
    BY <2>1, <2>2, LessStep
  <2>4. QED
    BY <2>1, <2>3, TablesKept DEF IInv
<1>7. QED
  BY <1>1, <1>2, <1>3, <1>4, <1>5, <1>6 DEF Next

(* The invariant holds of every state.                                     *)
THEOREM Invariance == Spec => []IInv
BY InitIInv, NextIInv, PTL DEF Spec

(* The tables and the requests stay of their types: no more chats are      *)
(* admitted or answered than have begun.                                   *)
THEOREM TypeCorrect == Spec => []TypeOK
<1>1. IInv => TypeOK
  BY DEF IInv
<1>2. QED
  BY Invariance, <1>1, PTL

(* append_conversation_message numbers the messages of a conversation 1,   *)
(* 2, 3 and so on, whatever transactions run at once.                      *)
THEOREM OrdersSuccessive == Spec => []OrdersAreSuccessive
<1>1. IInv => OrdersAreSuccessive
  <2> SUFFICES ASSUME IInv PROVE OrdersAreSuccessive
    OBVIOUS
  <2>1. PICK n \in Nat : Orders = 1 .. n
    BY DEF IInv, Numbered
  <2>2. Cardinality(Orders) = n
    BY <2>1, FS_Interval
  <2>3. QED
    BY <2>1, <2>2 DEF OrdersAreSuccessive, IInv, Distinct
<1>2. QED
  BY Invariance, <1>1, PTL

(* Every message belongs to a turn that is admitted, an answer follows its *)
(* question, nothing of a turn is stored twice, and a turn that is         *)
(* answered 201 is stored, also when requests were given up meanwhile.     *)
THEOREM TurnsWhole == Spec => []TurnsAreWhole
<1>1. IInv => TurnsAreWhole
  BY DEF IInv
<1>2. QED
  BY Invariance, <1>1, PTL

(* The pages of list_messages that a client reads in a row neither repeat  *)
(* nor leave out a message, whatever is stored between them.               *)
THEOREM PagesPrefix == Spec => []PagesAreAPrefix
<1>1. IInv => PagesAreAPrefix
  BY DEF IInv
<1>2. QED
  BY Invariance, <1>1, PTL

-----------------------------------------------------------------------------
(* The log.                                                                *)

Entry == [turn : Turns, role : Roles, size : 1 .. MaxSize]

(* Messages with the orders 1 to n are a log of n entries.                 *)
LEMMA LogOfIs ==
  ASSUME NEW M, M \subseteq Row, NEW n \in Nat, {m.order : m \in M} = 1 .. n,
         \A l, m \in M : l.order = m.order => l = m
  PROVE  /\ LogOf(M) \in Seq(Entry) /\ Len(LogOf(M)) = n
         /\ \A m \in M : m.order \in 1 .. n /\ LogOf(M)[m.order] = Content(m)
         /\ \A i \in 1 .. n : \E m \in M : m.order = i
<1> DEFINE f == [m \in M |-> m.order]
<1>1. f \in [M -> 1 .. n]
  OBVIOUS
<1>2. f \in Injection(M, 1 .. n)
  BY <1>1 DEF Injection, IsInjective
<1>3. f \in Surjection(M, 1 .. n)
  BY <1>1 DEF Surjection
<1>4. IsFiniteSet(1 .. n) /\ Cardinality(1 .. n) = n
  BY FS_Interval
<1>5. Cardinality(M) = n
  BY <1>2, <1>3, <1>4, FS_Injection
<1>6. \A i \in 1 .. n : \E m \in M : m.order = i
  OBVIOUS
<1>7. ASSUME NEW m \in M
      PROVE  m.order \in 1 .. n /\ LogOf(M)[m.order] = Content(m)
  <2>1. m.order \in 1 .. n
    OBVIOUS
  <2>2. (CHOOSE l \in M : l.order = m.order) = m
    OBVIOUS
  <2>3. QED
    BY <1>5, <2>1, <2>2 DEF LogOf
<1>8. \A m \in M : Content(m) \in Entry
  BY DEF Content, Entry, Row
<1>9. LogOf(M) = [i \in 1 .. n |-> LogOf(M)[i]]
  BY <1>5 DEF LogOf
<1>10. \A i \in 1 .. n : LogOf(M)[i] \in Entry
  BY <1>6, <1>7, <1>8
<1>11. LogOf(M) \in [1 .. n -> Entry]
  BY <1>9, <1>10
<1>12. QED
  BY <1>6, <1>7, <1>11

(* A copy has an entry for each message.                                   *)
LEMMA CopyOfIs ==
  ASSUME NEW s \in Seq(Row)
  PROVE  /\ CopyOf(s) \in Seq(Entry) /\ Len(CopyOf(s)) = Len(s)
         /\ \A i \in 1 .. Len(s) : CopyOf(s)[i] = Content(s[i])
<1>1. DOMAIN s = 1 .. Len(s) /\ Len(s) \in Nat
      /\ \A i \in 1 .. Len(s) : s[i] \in Row
  OBVIOUS
<1>2. \A i \in 1 .. Len(s) : Content(s[i]) \in Entry
  BY <1>1 DEF Content, Entry, Row
<1>3. CopyOf(s) = [i \in 1 .. Len(s) |-> Content(s[i])]
  BY <1>1 DEF CopyOf
<1>4. CopyOf(s) \in [1 .. Len(s) -> Entry]
  BY <1>2, <1>3
<1>5. QED
  BY <1>1, <1>3, <1>4

(* The log holds what is stored.                                           *)
LEMMA HoldsStored ==
  ASSUME IInv, NEW t, NEW r
  PROVE  Log!Holds(t, r) <=> \E m \in messages : m.turn = t /\ m.role = r
<1>1. PICK n \in Nat : {m.order : m \in messages} = 1 .. n
  BY DEF IInv, Numbered, Orders
<1>2. /\ LogOf(messages) \in Seq(Entry) /\ Len(LogOf(messages)) = n
      /\ \A m \in messages : m.order \in 1 .. n
                             /\ LogOf(messages)[m.order] = Content(m)
      /\ \A i \in 1 .. n : \E m \in messages : m.order = i
  BY <1>1, LogOfIs DEF IInv, TypeOK, Distinct
<1>3. DOMAIN LogOf(messages) = 1 .. n
  BY <1>2
<1>4. \A m \in messages : /\ m.order \in DOMAIN LogOf(messages)
                           /\ LogOf(messages)[m.order].turn = m.turn
                           /\ LogOf(messages)[m.order].role = m.role
  <2>1. \A m : Content(m).turn = m.turn /\ Content(m).role = m.role
    BY DEF Content
  <2>2. QED
    BY <1>2, <1>3, <2>1
<1>5. ASSUME NEW i \in DOMAIN LogOf(messages)
      PROVE  \E m \in messages : /\ LogOf(messages)[i].turn = m.turn
                                  /\ LogOf(messages)[i].role = m.role
  BY <1>2, <1>3, <1>4
<1>6. QED
  BY <1>4, <1>5 DEF Log!Holds

(* A commit adds its message at the end of the log, as the question or the *)
(* answer of its turn.                                                     *)
LEMMA CommitAppends ==
  ASSUME IInv, IInv', NEW x \in appends, Commit(x)
  PROVE  Log!Next
<1>1. /\ x.order # 0 /\ conversation
      /\ messages' = messages \cup {x}
      /\ UNCHANGED <<conversation, admitted, read>>
  BY DEF Commit
<1>2. PICK n \in Nat : {m.order : m \in messages} = 1 .. n
  BY DEF IInv, Numbered, Orders
<1>3. x.order = n + 1
  <2>1. Orders = 1 .. n
    BY <1>2 DEF Orders
  <2>2. QED
    BY <1>1, <2>1, NextFollows DEF IInv, Locked
<1>4. {m.order : m \in messages'} = 1 .. n + 1
  <2>1. {m.order : m \in messages'} = {m.order : m \in messages} \cup {n + 1}
    BY <1>1, <1>3
  <2>2. QED
    BY <1>2, <2>1
<1> DEFINE old == LogOf(messages)
           new == LogOf(messages')
<1>5. /\ old \in Seq(Entry) /\ Len(old) = n
      /\ \A m \in messages : m.order \in 1 .. n /\ old[m.order] = Content(m)
      /\ \A i \in 1 .. n : \E m \in messages : m.order = i
  BY <1>2, LogOfIs DEF IInv, TypeOK, Distinct
<1>6. /\ new \in Seq(Entry) /\ Len(new) = n + 1
      /\ \A m \in messages' : new[m.order] = Content(m)
  <2>1. messages' \subseteq Row /\ n + 1 \in Nat
        /\ \A l, m \in messages' : l.order = m.order => l = m
    BY DEF IInv, TypeOK, Distinct
  <2>2. QED
    BY <1>4, <2>1, LogOfIs
<1> HIDE DEF old, new
<1>7. Content(x) \in Entry
  BY <1>1 DEF IInv, TypeOK, Transaction, Content, Entry
<1>8. new = Append(old, Content(x))
  <2>1. \A i \in 1 .. n : new[i] = old[i]
    BY <1>1, <1>5, <1>6
  <2>2. new[n + 1] = Content(x)
    BY <1>1, <1>3, <1>6
  <2>3. /\ Append(old, Content(x)) \in Seq(Entry)
        /\ Len(Append(old, Content(x))) = n + 1
        /\ \A i \in 1 .. n : Append(old, Content(x))[i] = old[i]
        /\ Append(old, Content(x))[n + 1] = Content(x)
    BY <1>5, <1>7
  <2>4. \A i \in 1 .. n + 1 : new[i] = Append(old, Content(x))[i]
    BY <2>1, <2>2, <2>3
  <2>5. QED
    BY <1>6, <2>3, <2>4, SeqEqual
<1>9. LogOf(messages)' = Append(LogOf(messages), Content(x))
  BY <1>8 DEF old, new, LogOf
<1>10. UNCHANGED [c \in Clients |-> CopyOf(read[c])]
  BY <1>1
<1>11. /\ x.turn \in Turns /\ x.size \in 1 .. MaxSize
       /\ x.role \in {"user", "assistant"} /\ x.turn \in admitted
       /\ ~\E m \in messages : m.turn = x.turn /\ m.role = x.role
       /\ x.role = "assistant" => Question(x.turn)
  BY <1>1 DEF IInv, TypeOK, Transaction, Roles, AppendsFit
<1>12. CASE x.role = "user"
  <2>1. ~\E m \in messages : m.turn = x.turn /\ m.role = "assistant"
    BY <1>11, <1>12 DEF IInv, TurnsAreWhole, AnswersFollowQuestions
  <2>2. ~Log!Holds(x.turn, "user") /\ ~Log!Holds(x.turn, "assistant")
    BY <1>11, <1>12, <2>1, HoldsStored
  <2>3. Content(x) = Log!Message(x.turn, "user", x.size)
    BY <1>12 DEF Content, Log!Message
  <2>4. answered' = answered
    BY <1>12 DEF Commit
  <2>5. Log!Question(x.turn, x.size)
    BY <1>1, <1>9, <1>10, <1>11, <2>2, <2>3, <2>4 DEF Log!Question
  <2>6. QED
    BY <1>11, <2>5 DEF Log!Next
<1>13. CASE x.role = "assistant"
  <2>1. Log!Holds(x.turn, "user") /\ ~Log!Holds(x.turn, "assistant")
    BY <1>11, <1>13, HoldsStored DEF Question
  <2>2. Content(x) = Log!Message(x.turn, "assistant", x.size)
    BY <1>13 DEF Content, Log!Message
  <2>3. answered' \in {answered, answered \cup {x.turn}}
    BY DEF Commit
  <2>4. Log!Answer(x.turn, x.size)
    BY <1>1, <1>9, <1>10, <2>1, <2>2, <2>3 DEF Log!Answer
  <2>5. QED
    BY <1>11, <2>4 DEF Log!Next
<1>14. QED
  BY <1>11, <1>12, <1>13

(* A listing copies the next page of the log.                              *)
LEMMA ListCopies ==
  ASSUME IInv, NEW c \in Clients, List(c)
  PROVE  Log!Next
<1>1. /\ read' = [read EXCEPT ![c] = @ \o Page(Len(@))]
      /\ UNCHANGED <<conversation, messages, admitted, answered>>
      /\ read \in [Clients -> Seq(Row)]
  BY DEF List, IInv, TypeOK
<1>2. PICK n \in Nat : {m.order : m \in messages} = 1 .. n
  BY DEF IInv, Numbered, Orders
<1>3. PICK log : log = LogOf(messages)
  OBVIOUS
<1>4. /\ log \in Seq(Entry) /\ Len(log) = n
      /\ \A m \in messages : m.order \in 1 .. n /\ log[m.order] = Content(m)
  BY <1>2, <1>3, LogOfIs DEF IInv, TypeOK, Distinct
<1>5. PICK r \in Seq(Row) : r = read[c]
  BY <1>1
<1>6. PICK k \in Nat : k = Len(r)
  BY <1>5
<1>7. PICK p : p = Page(k)
  OBVIOUS
<1>8. PICK z : z = PageLength(n, k)
  OBVIOUS
<1>9. /\ z \in Nat /\ p \in Seq(Row) /\ Len(p) = z
      /\ \A i \in 1 .. z : /\ k + i \in 1 .. n
                            /\ p[i] \in messages /\ p[i].order = k + i
  <2>1. Orders = 1 .. n
    BY <1>2 DEF Orders
  <2>2. QED
    BY <1>7, <1>8, <2>1, PageIs
<1>10. CopyOf(p) = Log!PageAfter(k)
  <2> DEFINE last == IF Len(log) - k < PageSize THEN Len(log) ELSE k + PageSize
             part == SubSeq(log, k + 1, last)
  <2>1. last \in Int /\ PageSize \in Nat
        /\ z = IF k + 1 <= last THEN last - (k + 1) + 1 ELSE 0
    BY <1>4, <1>8, ConversationAssumption DEF ConversationAssumption, PageLength
  <2>2. \A i \in k + 1 .. last : i \in 1 .. Len(log) /\ log[i] \in Entry
    BY <1>4, <2>1
  <2>3. /\ part \in Seq(Entry) /\ Len(part) = z
        /\ \A i \in 1 .. last - (k + 1) + 1 : part[i] = log[k + 1 + i - 1]
    BY <2>1, <2>2, SubSeqProperties
  <2>4. \A i \in 1 .. z : part[i] = log[k + i]
    BY <2>1, <2>3
  <2>5. /\ CopyOf(p) \in Seq(Entry) /\ Len(CopyOf(p)) = z
        /\ \A i \in 1 .. z : CopyOf(p)[i] = log[k + i]
    BY <1>4, <1>9, CopyOfIs
  <2>6. CopyOf(p) = part
    BY <2>3, <2>4, <2>5, SeqEqual
  <2>7. QED
    BY <1>3, <2>6 DEF Log!PageAfter
<1>11. CopyOf(r \o p) = CopyOf(r) \o CopyOf(p)
  <2>1. /\ r \o p \in Seq(Row) /\ Len(r \o p) = k + z
        /\ \A i \in 1 .. k + z :
             (r \o p)[i] = IF i <= k THEN r[i] ELSE p[i - k]
    <3>1. /\ r \o p \in Seq(Row) /\ Len(r \o p) = Len(r) + Len(p)
          /\ \A i \in 1 .. Len(r) + Len(p) :
               (r \o p)[i] = IF i <= Len(r) THEN r[i] ELSE p[i - Len(r)]
      BY <1>5, <1>9, ConcatProperties
    <3>2. QED
      BY <1>6, <1>9, <3>1
  <2>2. /\ CopyOf(r) \in Seq(Entry) /\ Len(CopyOf(r)) = k
        /\ \A i \in 1 .. k : CopyOf(r)[i] = Content(r[i])
    BY <1>5, <1>6, CopyOfIs
  <2>3. /\ CopyOf(p) \in Seq(Entry) /\ Len(CopyOf(p)) = z
        /\ \A i \in 1 .. z : CopyOf(p)[i] = Content(p[i])
    BY <1>9, CopyOfIs
  <2>4. /\ CopyOf(r \o p) \in Seq(Entry) /\ Len(CopyOf(r \o p)) = k + z
        /\ \A i \in 1 .. k + z : CopyOf(r \o p)[i] = Content((r \o p)[i])
    BY <2>1, CopyOfIs
  <2>5. /\ CopyOf(r) \o CopyOf(p) \in Seq(Entry)
        /\ Len(CopyOf(r) \o CopyOf(p)) = k + z
        /\ \A i \in 1 .. k + z :
             (CopyOf(r) \o CopyOf(p))[i] =
               IF i <= k THEN CopyOf(r)[i] ELSE CopyOf(p)[i - k]
    BY <2>2, <2>3, ConcatProperties
  <2>6. ASSUME NEW i \in 1 .. k + z
        PROVE  CopyOf(r \o p)[i] = (CopyOf(r) \o CopyOf(p))[i]
    <3>1. CASE i <= k
      <4>1. i \in 1 .. k
        BY <1>6, <3>1
      <4>2. QED
        BY <3>1, <4>1, <2>1, <2>2, <2>4, <2>5
    <3>2. CASE ~(i <= k)
      <4>1. i - k \in 1 .. z
        BY <1>6, <1>9, <3>2
      <4>2. QED
        BY <3>2, <4>1, <2>1, <2>3, <2>4, <2>5
    <3>3. QED
      BY <3>1, <3>2
  <2>7. QED
    BY <2>4, <2>5, <2>6, SeqEqual
<1> DEFINE pages == [d \in Clients |-> CopyOf(read[d])]
<1>12. \A d \in Clients : read'[d] = IF d = c THEN r \o p ELSE read[d]
  BY <1>1, <1>5, <1>6, <1>7
<1>13. Len(pages[c]) = k /\ pages[c] = CopyOf(r)
  BY <1>5, <1>6, CopyOfIs
<1>14. \A d \in Clients : CopyOf(read'[d]) =
         IF d = c THEN pages[c] \o Log!PageAfter(Len(pages[c]))
         ELSE CopyOf(read[d])
  BY <1>10, <1>11, <1>12, <1>13
<1>15. [d \in Clients |-> CopyOf(read'[d])] =
         [pages EXCEPT ![c] = @ \o Log!PageAfter(Len(@))]
  BY <1>14
<1>16. Log!TurnPage(c)
  BY <1>1, <1>15 DEF Log!TurnPage, CopyOf, LogOf
<1>17. QED
  BY <1>16 DEF Log!Next

(* A step of the chats, the listings and the transactions is one of the    *)
(* log, or none.                                                           *)
LEMMA LogStep ==
  ASSUME IInv, IInv', [Next]_vars
  PROVE  [Log!Next]_(Log!vars)
<1> DEFINE pages == [c \in Clients |-> CopyOf(read[c])]
<1>1. ASSUME UNCHANGED <<conversation, messages, admitted, answered, read>>
      PROVE  UNCHANGED Log!vars
  BY <1>1 DEF Log!vars, LogOf
<1>2. ASSUME NEW c \in Clients, Arrive(c)
      PROVE  [Log!Next]_(Log!vars)
  <2>1. UNCHANGED <<conversation, messages, admitted, answered>>
        /\ read \in [Clients -> Seq(Row)]
    BY <1>2 DEF Arrive, IInv, TypeOK
  <2>2. CASE UNCHANGED read
    BY <1>1, <2>1, <2>2
  <2>3. CASE read' = [read EXCEPT ![c] = <<>>]
    <3>1. CopyOf(<<>>) = <<>>
      BY DEF CopyOf
    <3>2. \A d \in Clients :
            CopyOf(read'[d]) = IF d = c THEN <<>> ELSE CopyOf(read[d])
      BY <2>1, <2>3, <3>1
    <3>3. [d \in Clients |-> CopyOf(read'[d])] = [pages EXCEPT ![c] = <<>>]
      BY <3>2
    <3>4. Log!StartOver(c)
      BY <2>1, <3>3 DEF Log!StartOver, CopyOf, LogOf
    <3>5. QED
      BY <3>4 DEF Log!Next
  <2>4. QED
    BY <1>2, <2>2, <2>3 DEF Arrive
<1>3. ASSUME NEW c \in Clients, Serve(c)
      PROVE  [Log!Next]_(Log!vars)
  <2>1. CASE List(c)
    BY <2>1, ListCopies
  <2>2. CASE Reserve(c)
    <3>1. UNCHANGED <<conversation, messages, answered, read>>
          /\ (admitted' = admitted \cup {call[c].turn} \/ UNCHANGED admitted)
      BY <2>2 DEF Reserve
    <3>2. call[c].turn \in Turns
      <4>1. PICK k : k = call[c]
        OBVIOUS
      <4>2. k \in Call /\ CallFits(k) /\ k.step = "reserve"
        BY <2>2, <4>1 DEF Reserve, IInv, TypeOK, CallsFit
      <4>3. QED
        BY <4>1, <4>2 DEF CallFits, Call
    <3>3. CASE admitted' = admitted \cup {call[c].turn}
      <4>1. Log!Admit(call[c].turn)
        BY <3>1, <3>3 DEF Log!Admit, LogOf
      <4>2. QED
        BY <3>2, <4>1 DEF Log!Next
    <3>4. CASE UNCHANGED admitted
      BY <1>1, <3>1, <3>4
    <3>5. QED
      BY <3>1, <3>3, <3>4
  <2>3. CASE GetConversation(c) \/ CheckAccess(c) \/ Ask(c) \/ Retrieve(c)
             \/ ReadHistory(c) \/ Answer(c) \/ Save(c)
    BY <1>1, <2>3 DEF GetConversation, CheckAccess, Ask, Retrieve, ReadHistory,
                      Answer, Save
  <2>4. QED
    BY <1>3, <2>1, <2>2, <2>3 DEF Serve
<1>4. ASSUME NEW c \in Clients, CallFails(c)
      PROVE  UNCHANGED Log!vars
  BY <1>1, <1>4 DEF CallFails
<1>5. ASSUME NEW x \in appends, Execute(x) \/ RollBack(x)
      PROVE  [Log!Next]_(Log!vars)
  <2>1. CASE Commit(x)
    BY <2>1, CommitAppends
  <2>2. CASE Count(x) \/ RollBack(x)
    BY <1>1, <2>2 DEF Count, RollBack
  <2>3. QED
    BY <1>5, <2>1, <2>2 DEF Execute, Violate
<1>6. CASE SetMember
  BY <1>1, <1>6 DEF SetMember
<1>7. CASE DeleteNotebook
  <2>1. /\ conversation /\ conversation' = FALSE /\ messages' = {}
        /\ UNCHANGED <<admitted, answered, read>>
    BY <1>7 DEF DeleteNotebook
  <2>2. LogOf(messages)' = <<>>
    <3>1. Cardinality({}) = 0
      BY FS_EmptySet
    <3>2. QED
      BY <2>1, <3>1 DEF LogOf
  <2>3. Log!Erase
    BY <2>1, <2>2 DEF Log!Erase, CopyOf
  <2>4. QED
    BY <2>3 DEF Log!Next
<1>8. CASE UNCHANGED vars
  BY <1>1, <1>8 DEF vars
<1>9. QED
  BY <1>2, <1>3, <1>4, <1>5, <1>6, <1>7, <1>8 DEF Next

(* Chats that interleave, time out and go on in the database are to their  *)
(* readers a log of the questions and answers of admitted turns, to which  *)
(* one message after the other is added, and which they list without gaps. *)
THEOREM LogImplemented == Spec => ImplementsLog
<1>1. Init => Log!Init
  <2>1. Cardinality({}) = 0 /\ CopyOf(<<>>) = <<>>
    BY FS_EmptySet DEF CopyOf
  <2>2. LogOf({}) = <<>>
    BY <2>1 DEF LogOf
  <2>3. QED
    BY <2>1, <2>2 DEF Init, Log!Init
<1>2. IInv /\ IInv' /\ [Next]_vars => [Log!Next]_(Log!vars)
  BY LogStep
<1>3. QED
  BY <1>1, <1>2, Invariance, PTL DEF Spec, ImplementsLog, Log!Spec

-----------------------------------------------------------------------------
(* The prompt.                                                             *)

(* A finite set of numbers has a least and a greatest element.             *)
LEMMA LeastAndGreatest ==
  ASSUME NEW n \in Nat, NEW T \in SUBSET (1 .. n), T # {}
  PROVE  /\ \E x \in T : \A y \in T : x <= y
         /\ \E x \in T : \A y \in T : y <= x
<1> DEFINE R == StrictSubsetOrdering(1 .. n)
           Up == {{k \in T : x <= k} : x \in T}
           Down == {{k \in T : k <= x} : x \in T}
<1>1. IsWellFoundedOn(R, FiniteSubsetsOf(1 .. n))
  BY FS_StrictSubsetOrderingWellFounded
<1>2. \A S \in SUBSET (1 .. n) : IsFiniteSet(S)
  <2>1. IsFiniteSet(1 .. n)
    BY FS_Interval
  <2> QED
    BY <2>1, FS_Subset
<1>3. \A k \in T : k \in Int
  OBVIOUS
<1>4. Up \subseteq FiniteSubsetsOf(1 .. n) /\ Down \subseteq FiniteSubsetsOf(1 .. n)
  BY <1>2 DEF FiniteSubsetsOf
<1>5. Up # {} /\ Down # {}
  OBVIOUS
<1>6. \E x \in T : \A y \in T : y <= x
  <2>1. PICK A \in Up : \A B \in Up : ~(<<B, A>> \in R)
    BY <1>1, <1>4, <1>5, WFMin
  <2>2. PICK x \in T : A = {k \in T : x <= k}
    BY <2>1
  <2>3. ASSUME NEW y \in T, x < y PROVE FALSE
    <3>1. {k \in T : y <= k} \in Up
      OBVIOUS
    <3>2. x \notin {k \in T : y <= k} /\ x \in A
      BY <2>2, <2>3
    <3>3. {k \in T : y <= k} \subseteq A
      <4>1. \A k \in T : y <= k => x <= k
        BY <1>3, <2>3
      <4> QED
        BY <2>2, <4>1, Zenon
    <3> QED
      BY <2>1, <3>1, <3>2, <3>3, <2>2 DEF StrictSubsetOrdering
  <2> QED
    BY <2>3
<1>7. \E x \in T : \A y \in T : x <= y
  <2>1. PICK A \in Down : \A B \in Down : ~(<<B, A>> \in R)
    BY <1>1, <1>4, <1>5, WFMin
  <2>2. PICK x \in T : A = {k \in T : k <= x}
    OBVIOUS
  <2>3. ASSUME NEW y \in T, y < x PROVE FALSE
    <3>1. {k \in T : k <= y} \in Down
      OBVIOUS
    <3>2. x \notin {k \in T : k <= y} /\ x \in A
      BY <2>2, <2>3
    <3>3. {k \in T : k <= y} \subseteq A
      <4>1. \A k \in T : k <= y => k <= x
        BY <1>3, <2>3
      <4> QED
        BY <2>2, <4>1, Zenon
    <3> QED
      BY <2>1, <3>1, <3>2, <3>3, <2>2 DEF StrictSubsetOrdering
  <2> QED
    BY <2>3
<1> QED
  BY <1>6, <1>7

(* The question of request k is stored, where append_conversation_message  *)
(* said.                                                                   *)
Asked(k) ==
  \E q \in messages : q.turn = k.turn /\ q.role = "user" /\ q.order = k.asked

Later(k) == {m \in k.prompt : m.order > k.asked}

HoldsQuestion(k) ==
  \/ \E m \in k.prompt : m.turn = k.turn /\ m.role = "user"
  \/ Cardinality(Later(k)) = MaxHistory
  \/ Units(Later(k)) >= Budget

GapFree(k) ==
  \A x \in messages, m, n \in k.prompt :
    m.order < x.order /\ x.order < n.order => x \in k.prompt

PromptFits(k) ==
  /\ k.step \in {"retrieve", "history"} /\ conversation => Asked(k)
  /\ k.step = "answer" => /\ HoldsQuestion(k) /\ GapFree(k)
                          /\ conversation => k.prompt \subseteq messages

PromptInv ==
  /\ ~conversation => messages = {}
  /\ \A c \in Clients : PromptFits(call[c])

(* More messages have more characters.                                     *)
LEMMA UnitsMonotonic ==
  ASSUME NEW A, NEW B, A \subseteq B, IsFiniteSet(B)
  PROVE  Units(A) \in Nat /\ Units(A) <= Units(B) /\ Units(B) \in Nat
<1> DEFINE PA == {p \in A \X (1 .. MaxSize) : p[2] <= p[1].size}
           PB == {p \in B \X (1 .. MaxSize) : p[2] <= p[1].size}
<1>1. IsFiniteSet(1 .. MaxSize)
  BY FS_Interval, ConversationAssumption
<1>2. IsFiniteSet(B \X (1 .. MaxSize))
  BY <1>1, FS_Product
<1>3. PB \subseteq B \X (1 .. MaxSize) /\ PA \subseteq PB
  OBVIOUS
<1>4. IsFiniteSet(PB)
  BY <1>2, <1>3, FS_Subset
<1> HIDE DEF PA, PB
<1>5. IsFiniteSet(PA) /\ Cardinality(PA) <= Cardinality(PB)
  BY <1>3, <1>4, FS_Subset
<1>6. Cardinality(PA) \in Nat /\ Cardinality(PB) \in Nat
  BY <1>4, <1>5, FS_CardinalityType
<1> QED
  BY <1>5, <1>6 DEF Units, PA, PB

LEMMA NoUnits == Units({}) = 0
<1>1. {p \in {} \X (1 .. MaxSize) : p[2] <= p[1].size} = {}
  OBVIOUS
<1> QED
  BY <1>1, FS_EmptySet DEF Units

(* The latest messages are the ones with the highest orders.               *)
LEMMA LatestAre ==
  ASSUME NEW n \in Nat, Orders = 1 .. n
  PROVE  Latest(MaxHistory) = {m \in messages : n - m.order < MaxHistory}
<1>1. ASSUME NEW m \in messages
      PROVE  Cardinality({k \in Orders : k > m.order}) = n - m.order
  <2>1. m.order \in 1 .. n
    BY DEF Orders
  <2>2. {k \in Orders : k > m.order} = m.order + 1 .. n
    BY <2>1
  <2>3. Cardinality(m.order + 1 .. n) = n - m.order
    BY <2>1, FS_Interval
  <2> QED
    BY <2>2, <2>3
<1> QED
  BY <1>1 DEF Latest

LEMMA LatestCounted ==
  ASSUME Distinct, NEW n \in Nat, Orders = 1 .. n, MaxHistory <= n
  PROVE  Cardinality(Latest(MaxHistory)) = MaxHistory
<1> DEFINE L == Latest(MaxHistory)
           f == [m \in L |-> m.order]
           R == n - MaxHistory + 1 .. n
<1>0. MaxHistory \in Nat
  BY ConversationAssumption
<1>1. L = {m \in messages : n - m.order < MaxHistory}
  BY LatestAre
<1>2. \A m \in L : m \in messages /\ m.order \in R
  BY <1>0, <1>1 DEF Orders
<1>3. \A i \in R : \E m \in L : m.order = i
  <2> SUFFICES ASSUME NEW i \in R PROVE \E m \in L : m.order = i
    OBVIOUS
  <2>1. i \in 1 .. n /\ n - i < MaxHistory
    BY <1>0
  <2>2. PICK m \in messages : m.order = i
    BY <2>1 DEF Orders
  <2> QED
    BY <1>1, <2>1, <2>2
<1>4. IsFiniteSet(R) /\ Cardinality(R) = MaxHistory
  BY <1>0, FS_Interval
<1> HIDE DEF L, R
<1>5. f \in [L -> R]
  BY <1>2
<1>6. f \in Injection(L, R)
  BY <1>2, <1>5 DEF Distinct, Injection, IsInjective
<1>7. f \in Surjection(L, R)
  BY <1>3, <1>5 DEF Surjection
<1> QED
  BY <1>4, <1>6, <1>7, FS_Injection DEF L

(* What the history holds, when the question with the order a is stored.   *)
LEMMA HistoryFits ==
  ASSUME Distinct, NEW n \in Nat, Orders = 1 .. n, messages \subseteq Row,
         NEW q \in messages
  PROVE  LET M == Bounded(Latest(MaxHistory))
             later == {m \in M : m.order > q.order} IN
         /\ M # {} /\ M \subseteq messages
         /\ \A x \in messages, m \in M : m.order < x.order => x \in M
         /\ q \in M \/ Cardinality(later) = MaxHistory \/ Units(later) >= Budget
<1> DEFINE L == Latest(MaxHistory)
           After(i) == {x \in L : x.order > i}
           M == Bounded(L)
           later == {m \in M : m.order > q.order}
<1>0. MaxHistory \in Nat \ {0} /\ Budget \in Nat \ {0}
  BY ConversationAssumption
<1>1. L = {m \in messages : n - m.order < MaxHistory}
  BY LatestAre
<1>2. \A m \in messages : m.order \in 1 .. n
  BY DEF Orders
<1>3. M = {m \in L : Units(After(m.order)) < Budget}
  BY DEF Bounded
<1>4. IsFiniteSet(L)
  BY <1>1, MessagesCounted, FS_Subset
<1>5. \A i : IsFiniteSet(After(i))
  BY <1>4, FS_Subset
<1> HIDE DEF L, M
<1>6. M # {} /\ M \subseteq messages
  <2>1. n \in 1 .. n
    BY <1>2
  <2>2. PICK m \in messages : m.order = n
    BY <2>1 DEF Orders
  <2>3. m \in L /\ After(m.order) = {}
    BY <1>0, <1>1, <1>2, <2>2
  <2>4. Units(After(m.order)) < Budget
    <3>1. Units(After(m.order)) = 0
      BY <2>3, NoUnits, Zenon
    <3> QED
      BY <1>0, <3>1
  <2> QED
    BY <1>1, <1>3, <2>3, <2>4
<1>7. ASSUME NEW x \in messages, NEW m \in M, m.order < x.order
      PROVE  x \in M
  <2>1. m \in L /\ Units(After(m.order)) < Budget
    BY <1>3
  <2>2. m.order \in 1 .. n /\ x.order \in 1 .. n
    BY <1>1, <1>2, <2>1
  <2>3. x \in L
    BY <1>0, <1>1, <1>7, <2>1, <2>2
  <2>4. After(x.order) \subseteq After(m.order)
    BY <1>1, <1>2, <1>7, <2>2
  <2>5. Units(After(x.order)) < Budget
    BY <1>0, <1>5, <2>1, <2>4, UnitsMonotonic
  <2> QED
    BY <1>3, <2>3, <2>5
<1>8. q \in M \/ Cardinality(later) = MaxHistory \/ Units(later) >= Budget
  <2> SUFFICES ASSUME q \notin M
               PROVE  Cardinality(later) = MaxHistory \/ Units(later) >= Budget
    OBVIOUS
  <2>1. q.order \in 1 .. n
    BY <1>2
  <2>2. CASE L \subseteq M
    <3>1. q \notin L /\ M = L
      BY <1>3, <2>2
    <3>2. n - q.order >= MaxHistory
      BY <1>0, <1>1, <2>1, <3>1
    <3>3. \A m \in L : m.order > q.order
      BY <1>0, <1>1, <1>2, <2>1, <3>2
    <3>4. later = L
      BY <3>1, <3>3
    <3>5. MaxHistory <= n
      BY <1>0, <2>1, <3>2
    <3> QED
      BY <3>4, <3>5, LatestCounted DEF L
  <2>3. CASE ~(L \subseteq M)
    <3> DEFINE T == {i \in 1 .. n : \E m \in L \ M : m.order = i}
    <3>1. T # {} /\ T \in SUBSET (1 .. n)
      BY <1>1, <1>2, <2>3
    <3>2. PICK i \in T : \A j \in T : j <= i
      BY <3>1, LeastAndGreatest
    <3>3. PICK m \in L \ M : m.order = i
      OBVIOUS
    <3>4. Units(After(i)) >= Budget
      <4>1. ~(Units(After(m.order)) < Budget)
        BY <1>3, <3>3
      <4>2. Units(After(m.order)) \in Nat
        BY <1>5, UnitsMonotonic
      <4> QED
        BY <1>0, <3>3, <4>1, <4>2
    <3>5. q.order <= i
      <4>1. CASE q \in L
        BY <2>1, <3>2, <4>1
      <4>2. CASE q \notin L
        <5>1. n - q.order >= MaxHistory
          BY <1>0, <1>1, <2>1, <4>2
        <5>2. i \in 1 .. n /\ n - i < MaxHistory
          BY <1>1, <1>2, <3>3
        <5> QED
          BY <1>0, <2>1, <5>1, <5>2
      <4> QED
        BY <4>1, <4>2
    <3>6. After(i) \subseteq later
      <4> SUFFICES ASSUME NEW x \in L, x.order > i
                   PROVE  x \in M /\ x.order > q.order
        OBVIOUS
      <4>1. x.order \in 1 .. n /\ i \in 1 .. n
        BY <1>1, <1>2
      <4>2. x.order \notin T
        BY <3>2, <4>1
      <4> QED
        BY <2>1, <3>5, <4>1, <4>2
    <3>7. IsFiniteSet(later)
      <4>1. later \subseteq L
        BY <1>3
      <4> QED
        BY <1>4, <4>1, FS_Subset
    <3>8. Units(After(i)) <= Units(later) /\ Units(later) \in Nat
            /\ Units(After(i)) \in Nat
      BY <3>6, <3>7, UnitsMonotonic
    <3> QED
      BY <1>0, <3>4, <3>8
  <2> QED
    BY <2>2, <2>3
<1> QED
  BY <1>6, <1>7, <1>8 DEF L, M

(* What a step does to the messages.                                       *)
LEMMA MessagesStep ==
  ASSUME IInv, PromptInv, [Next]_vars
  PROVE  \/ UNCHANGED <<conversation, messages>>
         \/ ~conversation' /\ messages' = {}
         \/ \E x \in appends : /\ Commit(x) /\ conversation /\ conversation'
                               /\ x.order = NextOrder
                               /\ messages' = messages \cup {x}
<1>1. ASSUME NEW c \in Clients, Arrive(c) \/ Serve(c) \/ CallFails(c)
      PROVE  UNCHANGED <<conversation, messages>>
  BY <1>1 DEF Arrive, Serve, CallFails, GetConversation, CheckAccess, List,
              Reserve, Ask, Retrieve, ReadHistory, Answer, Save
<1>2. ASSUME NEW x \in appends, Count(x) \/ Violate(x) \/ RollBack(x)
      PROVE  UNCHANGED <<conversation, messages>>
  BY <1>2 DEF Count, Violate, RollBack
<1>3. ASSUME NEW x \in appends, Commit(x)
      PROVE  /\ conversation /\ conversation' /\ x.order = NextOrder
             /\ messages' = messages \cup {x}
  BY <1>3 DEF Commit, IInv, Locked
<1>4. CASE SetMember
  BY <1>4 DEF SetMember
<1>5. CASE DeleteNotebook
  BY <1>5 DEF DeleteNotebook
<1>6. CASE UNCHANGED vars
  BY <1>6 DEF vars
<1> QED
  BY <1>1, <1>2, <1>3, <1>4, <1>5, <1>6 DEF Next, Execute

(* What a step does to a request.                                          *)
LEMMA CallStep ==
  ASSUME IInv, [Next]_vars, NEW c \in Clients
  PROVE  \/ call'[c] = call[c]
         \/ call'[c].step \notin {"retrieve", "history", "answer"}
         \/ /\ call[c].step = "retrieve"
            /\ call'[c] = [call[c] EXCEPT !.step = "history"]
         \/ ReadHistory(c)
         \/ \E x \in appends :
              /\ Commit(x) /\ x.turn = call[c].turn /\ x.role = "user"
              /\ call'[c] = [call[c] EXCEPT !.step = "retrieve",
                                            !.asked = x.order]
<1>0. /\ call \in [Clients -> Call] /\ appends \subseteq Transaction
      /\ call[c] \in Call
  BY DEF IInv, TypeOK
<1>1. IdleCall.step = "idle"
  BY DEF IdleCall
<1>2. ASSUME NEW d \in Clients, Arrive(d)
      PROVE  call'[c] = call[c] \/ call'[c].step = "get"
  <2>1. PICK k : call' = [call EXCEPT ![d] = k] /\ k.step = "get"
    <3>1. ASSUME NEW t, NEW n
          PROVE  Chat(t, n).step = "get" /\ Listing.step = "get"
      BY DEF Chat, Listing, IdleCall
    <3> QED
      BY <1>2, <3>1 DEF Arrive
  <2> QED
    BY <1>0, <2>1
<1>3. ASSUME NEW d \in Clients, Refuse(d)
      PROVE  call'[c] = call[c] \/ call'[c].step = "idle"
  BY <1>0, <1>1, <1>3 DEF Refuse
<1>4. ASSUME NEW d \in Clients, NEW s, Goto(d, s)
      PROVE  call'[c] = call[c]
             \/ /\ c = d /\ call'[c] = [call[c] EXCEPT !.step = s]
                /\ call'[c].step = s
  <2>1. CASE c = d
    <3>1. call'[c] = [call[c] EXCEPT !.step = s]
      BY <1>0, <1>4, <2>1 DEF Goto
    <3>2. [call[c] EXCEPT !.step = s].step = s
      BY <1>0 DEF Call
    <3> QED
      BY <2>1, <3>1, <3>2
  <2>2. CASE c # d
    BY <1>0, <1>4, <2>2 DEF Goto
  <2> QED
    BY <2>1, <2>2
<1>5. ASSUME NEW d \in Clients, CallFails(d) \/ List(d)
      PROVE  call'[c] = call[c] \/ call'[c].step = "idle"
  BY <1>3, <1>5 DEF CallFails, List
<1>6. ASSUME NEW d \in Clients,
             \/ GetConversation(d) \/ CheckAccess(d) \/ Reserve(d)
             \/ Ask(d) \/ Save(d)
      PROVE  call'[c] = call[c]
             \/ call'[c].step \notin {"retrieve", "history", "answer"}
  <2>1. \/ Refuse(d)
        \/ \E s \in {"access", "reserve", "list", "question", "asking", "saving"} :
             Goto(d, s)
    <3>1. CASE CheckAccess(d)
      BY <3>1 DEF CheckAccess
    <3> QED
      BY <1>6, <3>1 DEF GetConversation, Reserve, Ask, Save
  <2> QED
    BY <1>3, <1>4, <2>1
<1>7. ASSUME NEW d \in Clients, Retrieve(d)
      PROVE  \/ call'[c] = call[c]
             \/ /\ call[c].step = "retrieve"
                /\ call'[c] = [call[c] EXCEPT !.step = "history"]
  BY <1>4, <1>7 DEF Retrieve
<1>8. ASSUME NEW d \in Clients, ReadHistory(d)
      PROVE  call'[c] = call[c] \/ ReadHistory(c)
  BY <1>0, <1>8 DEF ReadHistory
<1>9. ASSUME NEW d \in Clients, Answer(d)
      PROVE  call'[c] = call[c] \/ call'[c].step = "save"
  BY <1>0, <1>9 DEF Answer, Call
<1>10. ASSUME NEW x \in appends, Violate(x) \/ RollBack(x)
       PROVE  call'[c] = call[c] \/ call'[c].step = "idle"
  BY <1>0, <1>1, <1>10 DEF Violate, RollBack
<1>11. ASSUME NEW x \in appends, Count(x) PROVE call'[c] = call[c]
  BY <1>11 DEF Count
<1>12. ASSUME NEW x \in appends, Commit(x)
       PROVE  \/ call'[c] = call[c] \/ call'[c].step = "idle"
              \/ /\ x.turn = call[c].turn /\ x.role = "user"
                 /\ call'[c] = [call[c] EXCEPT !.step = "retrieve",
                                               !.asked = x.order]
  <2>1. call'[c] = IF c \notin Waiting(x) THEN call[c]
                   ELSE IF x.role = "assistant" THEN IdleCall
                   ELSE [call[c] EXCEPT !.step = "retrieve", !.asked = x.order]
    BY <1>12 DEF Commit
  <2>2. x.role \in {"user", "assistant"}
    BY <1>0 DEF Transaction, Roles
  <2>3. c \in Waiting(x) => call[c].turn = x.turn
    BY DEF Waiting
  <2> QED
    BY <1>1, <2>1, <2>2, <2>3
<1>13. CASE SetMember \/ DeleteNotebook \/ UNCHANGED vars
  BY <1>13 DEF SetMember, DeleteNotebook, vars
<1>14. ASSUME NEW d \in Clients, Serve(d)
       PROVE  \/ call'[c] = call[c]
              \/ call'[c].step \notin {"retrieve", "history", "answer"}
              \/ /\ call[c].step = "retrieve"
                 /\ call'[c] = [call[c] EXCEPT !.step = "history"]
              \/ ReadHistory(c)
  BY <1>5, <1>6, <1>7, <1>8, <1>9, <1>14 DEF Serve
<1>15. ASSUME NEW x \in appends, Execute(x) \/ RollBack(x)
       PROVE  \/ call'[c] = call[c] \/ call'[c].step = "idle"
              \/ /\ Commit(x) /\ x.turn = call[c].turn /\ x.role = "user"
                 /\ call'[c] = [call[c] EXCEPT !.step = "retrieve",
                                               !.asked = x.order]
  BY <1>10, <1>11, <1>12, <1>15 DEF Execute
<1> QED
  BY <1>2, <1>5, <1>13, <1>14, <1>15 DEF Next

(* A request that reads its history finds its question, or enough that     *)
(* came after it.                                                          *)
LEMMA ReadHistoryFits ==
  ASSUME IInv, PromptInv, NEW c \in Clients, ReadHistory(c),
         NEW k, k = [call[c] EXCEPT !.step = "answer", !.prompt = Prompt(c)]
  PROVE  /\ HoldsQuestion(k) /\ GapFree(k)
         /\ conversation => k.prompt \subseteq messages
<1>1. /\ call[c] \in Call /\ messages \subseteq Row /\ Distinct
      /\ call[c].step = "history"
  BY DEF IInv, TypeOK, ReadHistory
<1>2. k.prompt = Prompt(c) /\ k.turn = call[c].turn /\ k.asked = call[c].asked
  BY <1>1 DEF Call
<1>3. PICK n \in Nat : Orders = 1 .. n
  BY DEF IInv, Numbered
<1> DEFINE M == Bounded(Latest(MaxHistory))
<1>4. CASE conversation
  <2>1. PICK q \in messages : q.turn = k.turn /\ q.role = "user" /\ q.order = k.asked
    BY <1>1, <1>2, <1>4 DEF PromptInv, PromptFits, Asked
  <2> DEFINE later == {m \in M : m.order > q.order}
  <2>2. /\ M # {} /\ M \subseteq messages
        /\ \A x \in messages, m \in M : m.order < x.order => x \in M
        /\ q \in M \/ Cardinality(later) = MaxHistory \/ Units(later) >= Budget
    BY <1>1, <1>3, HistoryFits
  <2>3. Prompt(c) = M
    BY <2>2 DEF Prompt
  <2> HIDE DEF M
  <2>4. Later(k) = later
    BY <1>2, <2>1, <2>3 DEF Later
  <2>5. HoldsQuestion(k)
    BY <1>2, <2>1, <2>2, <2>3, <2>4, Zenon DEF HoldsQuestion
  <2>6. GapFree(k)
    BY <1>2, <2>2, <2>3, Zenon DEF GapFree
  <2> QED
    BY <1>2, <2>2, <2>3, <2>5, <2>6
<1>5. CASE ~conversation
  <2>1. messages = {}
    BY <1>5 DEF PromptInv
  <2>2. Bounded(Latest(MaxHistory)) = {}
    BY <2>1 DEF Bounded, Latest
  <2>3. k.prompt = {[turn |-> call[c].turn, role |-> "user",
                     size |-> call[c].size, order |-> call[c].asked]}
    BY <1>2, <2>2 DEF Prompt
  <2>4. \E m \in k.prompt : m.turn = k.turn /\ m.role = "user"
    <3>1. PICK m : m = [turn |-> call[c].turn, role |-> "user",
                        size |-> call[c].size, order |-> call[c].asked]
      OBVIOUS
    <3>2. m.turn = k.turn /\ m.role = "user" /\ m \in k.prompt
      BY <1>2, <2>3, <3>1
    <3> QED
      BY <3>2
  <2> QED
    BY <1>5, <2>1, <2>4 DEF HoldsQuestion, GapFree
<1> QED
  BY <1>4, <1>5

LEMMA NextPromptInv == IInv /\ PromptInv /\ [Next]_vars => PromptInv'
<1> SUFFICES ASSUME IInv, PromptInv, [Next]_vars PROVE PromptInv'
  OBVIOUS
<1>1. /\ conversation' => conversation /\ messages \subseteq messages'
      /\ ~conversation' => messages' = {}
  BY MessagesStep DEF PromptInv
<1>2. ASSUME NEW x \in messages', x \notin messages, NEW m \in messages
      PROVE  ~(x.order < m.order)
  <2>1. x.order = NextOrder
    BY <1>2, MessagesStep
  <2>2. PICK n \in Nat : Orders = 1 .. n
    BY DEF IInv, Numbered
  <2>3. x.order = n + 1
    BY <2>1, <2>2, NextFollows
  <2>4. m.order \in 1 .. n
    BY <2>2 DEF Orders
  <2> QED
    BY <2>2, <2>3, <2>4
<1>3. ASSUME NEW c \in Clients PROVE PromptFits(call[c])'
  <2>0. call[c] \in Call /\ PromptFits(call[c])
    BY DEF IInv, TypeOK, PromptInv
  <2>1. CASE call'[c] = call[c]
    <3> PICK k : k = call[c]
      OBVIOUS
    <3>1. k.step \in {"retrieve", "history"} /\ conversation' => Asked(k)'
      BY <1>1, <2>0 DEF PromptFits, Asked
    <3>2. ASSUME k.step = "answer"
          PROVE  /\ HoldsQuestion(k) /\ GapFree(k)'
                 /\ conversation' => k.prompt \subseteq messages'
      <4>1. /\ HoldsQuestion(k) /\ GapFree(k)
            /\ conversation => k.prompt \subseteq messages
        BY <2>0, <3>2 DEF PromptFits
      <4>2. CASE conversation'
        <5>1. k.prompt \subseteq messages
          BY <1>1, <4>1, <4>2
        <5> QED
          BY <1>1, <1>2, <4>1, <4>2, <5>1 DEF GapFree
      <4>3. CASE ~conversation'
        BY <1>1, <4>1, <4>3 DEF GapFree
      <4> QED
        BY <4>2, <4>3
    <3>3. k = call'[c]
      BY <2>1
    <3> QED
      BY <3>1, <3>2, <3>3
      DEF PromptFits, Asked, HoldsQuestion, GapFree, Later
  <2>2. CASE call'[c].step \notin {"retrieve", "history", "answer"}
    BY <2>2 DEF PromptFits
  <2>3. CASE /\ call[c].step = "retrieve"
             /\ call'[c] = [call[c] EXCEPT !.step = "history"]
    <3>1. /\ call'[c].step = "history" /\ call'[c].turn = call[c].turn
          /\ call'[c].asked = call[c].asked
      BY <2>0, <2>3 DEF Call
    <3>2. conversation' => Asked(call[c])
      BY <1>1, <2>0, <2>3 DEF PromptFits
    <3> QED
      BY <1>1, <3>1, <3>2 DEF PromptFits, Asked
  <2>4. CASE ReadHistory(c)
    <3>1. PICK k : k = [call[c] EXCEPT !.step = "answer", !.prompt = Prompt(c)]
      OBVIOUS
    <3>2. /\ HoldsQuestion(k) /\ GapFree(k)
          /\ conversation => k.prompt \subseteq messages
      BY <2>4, <3>1, ReadHistoryFits
    <3>3. k = call'[c] /\ UNCHANGED <<conversation, messages>>
      BY <2>4, <3>1 DEF ReadHistory, IInv, TypeOK
    <3>4. k.step = "answer"
      BY <2>0, <3>1 DEF Call
    <3> QED
      BY <3>2, <3>3, <3>4
      DEF PromptFits, Asked, HoldsQuestion, GapFree, Later
  <2>5. ASSUME NEW x \in appends,
               Commit(x), x.turn = call[c].turn, x.role = "user",
               call'[c] = [call[c] EXCEPT !.step = "retrieve", !.asked = x.order]
        PROVE  PromptFits(call[c])'
    <3>1. /\ call'[c].step = "retrieve" /\ call'[c].turn = call[c].turn
          /\ call'[c].asked = x.order
      BY <2>0, <2>5 DEF Call
    <3>2. x \in messages'
      BY <2>5 DEF Commit
    <3> QED
      BY <2>5, <3>1, <3>2 DEF PromptFits, Asked
  <2> QED
    BY <2>1, <2>2, <2>3, <2>4, <2>5, CallStep
<1> QED
  BY <1>1, <1>3 DEF PromptInv

(* The provider is asked with the question of the turn, or with a full     *)
(* history of what came after it, and with no message left out between two *)
(* of it, whatever is stored or deleted while requests read.               *)
THEOREM PromptHolds == Spec => []PromptHoldsQuestion
<1>1. Init => PromptInv
  BY DEF Init, PromptInv, PromptFits, IdleCall
<1>2. PromptInv => PromptHoldsQuestion
  <2> SUFFICES ASSUME PromptInv, NEW c \in Clients, call[c].step = "answer"
               PROVE  /\ HoldsQuestion(call[c])
                      /\ GapFree(call[c])
    BY DEF PromptHoldsQuestion, HoldsQuestion, GapFree, Later
  <2> QED
    BY DEF PromptInv, PromptFits
<1> QED
  BY <1>1, <1>2, InitIInv, NextIInv, NextPromptInv, PTL DEF Spec

=============================================================================
