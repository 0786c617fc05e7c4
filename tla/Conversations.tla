---------------------------- MODULE Conversations ----------------------------
(***************************************************************************)
(* One conversation of a notebook, with the chats and the listings of its  *)
(* owner from several clients at once; to anybody else it does not exist.  *)
(*                                                                         *)
(* A chat stores its question, asks the provider about the latest messages *)
(* and stores the answer.  Messages are stored by a function of the        *)
(* database, whose transaction outlives the request when the request gives *)
(* up on it.  A request of client c is the record call[c], whose step is   *)
(* what it does next; requests interleave exactly where the code awaits.   *)
(***************************************************************************)
EXTENDS Naturals, Sequences, FiniteSets

CONSTANTS
  Clients,
  MaxTurns,     \* bound: chats
  MaxQuestion,  \* characters of a question (4000)
  MaxSize,      \* characters of a message (8000)
  MaxHistory,   \* messages that are read before a question is answered (12)
  Budget,       \* characters of them that the provider gets (12000)
  PageSize,     \* messages of a page
  QuotaEnabled  \* ai_usage_quota_enabled

ASSUME ConversationAssumption ==
  /\ MaxTurns \in Nat
  /\ MaxSize \in Nat /\ MaxQuestion \in 1 .. MaxSize
  /\ MaxHistory \in Nat \ {0}
  /\ Budget \in Nat \ {0}
  /\ PageSize \in Nat \ {0}
  /\ QuotaEnabled \in BOOLEAN

VARIABLES
  conversation, \* the row exists, as long as its notebook does
  member,       \* its owner is active and may use the notebook
  messages,
  appends,      \* running transactions of append_conversation_message
  turns,        \* chats begun so far
  admitted,     \* chats that reserve_ai_usage let pass or charged: with a
                \* quota, each of them holds a unit
  answered,     \* chats answered 201
  call,
  read          \* messages on the pages that a client has listed in a row

vars == <<conversation, member, messages, appends, turns, admitted, answered,
          call, read>>

Turns == 1 .. MaxTurns

Roles == {"user", "assistant"}

Row == [turn : Turns, role : Roles, size : 1 .. MaxSize, order : Nat \ {0}]

(* A transaction has no order before it gets the lock.                     *)
Transaction == [turn : Turns, role : Roles, size : 1 .. MaxSize, order : Nat]

Steps == {"idle", "get", "access", "reserve", "question", "asking", "retrieve",
          "history", "answer", "save", "saving", "list"}

(* size: of the question, and then of the answer; asked: the order of the  *)
(* question; prompt: the messages for the provider.                        *)
Call == [kind : {"chat", "list"}, step : Steps, turn : Turns \cup {0},
         asked : Nat, prompt : SUBSET Row, size : 0 .. MaxSize + 1]

IdleCall == [kind |-> "list", step |-> "idle", turn |-> 0, asked |-> 0,
             prompt |-> {}, size |-> 0]

TypeOK ==
  /\ conversation \in BOOLEAN /\ member \in BOOLEAN
  /\ messages \subseteq Row
  /\ appends \subseteq Transaction
  /\ turns \in 0 .. MaxTurns
  /\ admitted \subseteq 1 .. turns /\ answered \subseteq 1 .. turns
  /\ call \in [Clients -> Call]
  /\ \A c \in Clients : call[c].turn <= turns
  /\ read \in [Clients -> Seq(Row)]

-----------------------------------------------------------------------------
(* The messages.                                                           *)

Orders == {m.order : m \in messages}

(* COALESCE(MAX(order_message), 0)                                         *)
LastOrder == CHOOSE n \in Orders \cup {0} : \A k \in Orders : k <= n

NextOrder == LastOrder + 1

(* Mutated form: the oldest messages.                                      *)
Earliest(n) ==
  {m \in messages : Cardinality({k \in Orders : k < m.order}) < n}

Latest(n) ==
  {m \in messages : Cardinality({k \in Orders : k > m.order}) < n}

Units(M) == Cardinality({p \in M \X (1 .. MaxSize) : p[2] <= p[1].size})

(* Messages are taken from the newest on, until the budget is spent; what  *)
(* the last one has too much is cut off.                                   *)
Bounded(M) == {m \in M : Units({x \in M : x.order > m.order}) < Budget}

(* The bounded history, or the question alone when it is empty.            *)
Prompt(c) ==
  IF Bounded(Latest(MaxHistory)) # {} THEN Bounded(Latest(MaxHistory))
  ELSE {[turn |-> call[c].turn, role |-> "user", size |-> call[c].size,
         order |-> call[c].asked]}

Ranked(k) ==
  CHOOSE m \in messages : Cardinality({i \in Orders : i <= m.order}) = k

(* Mutated form: the newest messages come first.                           *)
PageOfNewest(offset) ==
  LET n == Cardinality(messages) IN
  [i \in 1 .. IF n < offset THEN 0
              ELSE IF n - offset < PageSize THEN n - offset ELSE PageSize
     |-> Ranked(n + 1 - offset - i)]

Page(offset) ==
  LET n == Cardinality(messages) IN
  [i \in 1 .. IF n < offset THEN 0
              ELSE IF n - offset < PageSize THEN n - offset ELSE PageSize
     |-> Ranked(offset + i)]

-----------------------------------------------------------------------------
(* Requests.                                                               *)

Goto(c, s) == call' = [call EXCEPT ![c].step = s]

Refuse(c) == call' = [call EXCEPT ![c] = IdleCall]

Chat(t, n) ==
  [IdleCall EXCEPT !.kind = "chat", !.step = "get", !.turn = t, !.size = n]

Listing == [IdleCall EXCEPT !.step = "get"]

(* A chat, or a listing, of the first page or of the next one.             *)
Arrive(c) ==
  /\ call[c].step = "idle"
  /\ \/ /\ turns < MaxTurns
        /\ turns' = turns + 1
        /\ \E n \in 1 .. MaxQuestion :
             call' = [call EXCEPT ![c] = Chat(turns + 1, n)]
        /\ UNCHANGED read
     \/ /\ call' = [call EXCEPT ![c] = Listing]
        /\ read' = [read EXCEPT ![c] = <<>>] \/ UNCHANGED read
        /\ UNCHANGED turns
  /\ UNCHANGED <<conversation, member, messages, appends, admitted, answered>>

GetConversation(c) ==
  /\ call[c].step = "get"
  /\ IF conversation THEN Goto(c, "access") ELSE Refuse(c)
  /\ UNCHANGED <<conversation, member, messages, appends, turns, admitted,
                 answered, read>>

(* require_access, and for a chat resolve_model.                           *)
CheckAccess(c) ==
  /\ call[c].step = "access"
  /\ \/ member /\ Goto(c, IF call[c].kind = "chat" THEN "reserve" ELSE "list")
     \/ ~member /\ Refuse(c)
     \/ call[c].kind = "chat" /\ Refuse(c)
  /\ UNCHANGED <<conversation, member, messages, appends, turns, admitted,
                 answered, read>>

List(c) ==
  /\ call[c].step = "list"
  /\ read' = [read EXCEPT ![c] = @ \o Page(Len(@))]
  /\ Refuse(c)
  /\ UNCHANGED <<conversation, member, messages, appends, turns, admitted,
                 answered>>

(* reserve_ai_usage: without a quota it lets everybody pass; with one, it  *)
(* may refuse, and it may charge and fail, when its reply is lost.         *)
Reserve(c) ==
  /\ call[c].step = "reserve"
  /\ \/ Goto(c, "question") /\ admitted' = admitted \cup {call[c].turn}
     \/ /\ QuotaEnabled /\ Refuse(c)
        /\ admitted' = admitted \cup {call[c].turn}
     \/ QuotaEnabled /\ Refuse(c) /\ UNCHANGED admitted
  /\ UNCHANGED <<conversation, member, messages, appends, turns, answered, read>>

(* Mutated form: no check of the length.                                   *)
CanAppendAny(size) == conversation /\ member

(* append_conversation_message begins, and checks its arguments.           *)
CanAppend(size) == conversation /\ member /\ size <= MaxSize

Begin(c, role) ==
  appends' = appends \cup {[turn |-> call[c].turn, role |-> role,
                            size |-> call[c].size, order |-> 0]}

(* Mutated form: the question is answered although it is not stored.       *)
AskAnyway(c) ==
  /\ call[c].step = "question"
  /\ IF CanAppend(call[c].size)
     THEN Begin(c, "user") /\ Goto(c, "asking")
     ELSE UNCHANGED appends /\ Goto(c, "retrieve")
  /\ UNCHANGED <<conversation, member, messages, turns, admitted, answered, read>>

Ask(c) ==
  /\ call[c].step = "question"
  /\ IF CanAppend(call[c].size)
     THEN Begin(c, "user") /\ Goto(c, "asking")
     ELSE UNCHANGED appends /\ Refuse(c)
  /\ UNCHANGED <<conversation, member, messages, turns, admitted, answered, read>>

(* embed_one and search_chunks                                             *)
Retrieve(c) ==
  /\ call[c].step = "retrieve"
  /\ Goto(c, "history")
  /\ UNCHANGED <<conversation, member, messages, appends, turns, admitted,
                 answered, read>>

ReadHistory(c) ==
  /\ call[c].step = "history"
  /\ call' = [call EXCEPT ![c].step = "answer", ![c].prompt = Prompt(c)]
  /\ UNCHANGED <<conversation, member, messages, appends, turns, admitted,
                 answered, read>>

(* The provider answers, perhaps with more than a message can hold.        *)
Answer(c) ==
  /\ call[c].step = "answer"
  /\ \E n \in 1 .. MaxSize + 1 :
       call' = [call EXCEPT ![c].step = "save", ![c].size = n,
                            ![c].prompt = {}]
  /\ UNCHANGED <<conversation, member, messages, appends, turns, admitted,
                 answered, read>>

Save(c) ==
  /\ call[c].step = "save"
  /\ IF CanAppend(call[c].size)
     THEN Begin(c, "assistant") /\ Goto(c, "saving")
     ELSE UNCHANGED appends /\ Refuse(c)
  /\ UNCHANGED <<conversation, member, messages, turns, admitted, answered, read>>

(* Any call of a request may fail or time out, and any process may end:    *)
(* nothing is caught, and a transaction that has begun goes on.            *)
CallFails(c) ==
  /\ call[c].step # "idle"
  /\ Refuse(c)
  /\ UNCHANGED <<conversation, member, messages, appends, turns, admitted,
                 answered, read>>

-----------------------------------------------------------------------------
(* Transactions.                                                           *)

Waiting(x) ==
  {c \in Clients :
     /\ call[c].turn = x.turn
     /\ call[c].step = IF x.role = "user" THEN "asking" ELSE "saving"}

(* Mutated form: no advisory lock.                                         *)
NoLock == TRUE

(* The advisory lock is held from here to the end of the transaction.      *)
Unlocked == \A x \in appends : x.order = 0

Count(x) ==
  /\ x.order = 0 /\ Unlocked
  /\ appends' = (appends \ {x}) \cup {[x EXCEPT !.order = NextOrder]}
  /\ UNCHANGED <<conversation, member, messages, turns, admitted, answered,
                 call, read>>

(* The message is returned to the request that waits for it.               *)
Commit(x) ==
  /\ x.order # 0 /\ conversation
  /\ messages' = messages \cup {x}
  /\ appends' = appends \ {x}
  /\ call' = [c \in Clients |->
                IF c \notin Waiting(x) THEN call[c]
                ELSE IF x.role = "assistant" THEN IdleCall
                ELSE [call[c] EXCEPT !.step = "retrieve", !.asked = x.order]]
  /\ answered' = IF x.role = "assistant" /\ Waiting(x) # {}
                 THEN answered \cup {x.turn} ELSE answered
  /\ UNCHANGED <<conversation, member, turns, admitted, read>>

RollBack(x) ==
  /\ appends' = appends \ {x}
  /\ call' = [c \in Clients |-> IF c \in Waiting(x) THEN IdleCall ELSE call[c]]
  /\ UNCHANGED <<conversation, member, messages, turns, admitted, answered, read>>

(* FOREIGN KEY to the conversation.                                        *)
Violate(x) == x.order # 0 /\ ~conversation /\ RollBack(x)

-----------------------------------------------------------------------------
(* The owner joins and leaves rooms with the notebook.                     *)
SetMember ==
  /\ member' = ~member
  /\ UNCHANGED <<conversation, messages, appends, turns, admitted, answered,
                 call, read>>

(* The conversation and its messages are deleted with the notebook.        *)
DeleteNotebook ==
  /\ conversation
  /\ conversation' = FALSE
  /\ messages' = {}
  /\ UNCHANGED <<member, appends, turns, admitted, answered, call, read>>

Init ==
  /\ conversation = TRUE
  /\ member = TRUE
  /\ messages = {}
  /\ appends = {}
  /\ turns = 0
  /\ admitted = {}
  /\ answered = {}
  /\ call = [c \in Clients |-> IdleCall]
  /\ read = [c \in Clients |-> <<>>]

Serve(c) ==
  \/ GetConversation(c) \/ CheckAccess(c) \/ List(c) \/ Reserve(c)
  \/ Ask(c) \/ Retrieve(c) \/ ReadHistory(c) \/ Answer(c) \/ Save(c)

Execute(x) == Count(x) \/ Commit(x) \/ Violate(x)

Next ==
  \/ \E c \in Clients : Arrive(c) \/ Serve(c) \/ CallFails(c)
  \/ \E x \in appends : Execute(x) \/ RollBack(x)
  \/ SetMember
  \/ DeleteNotebook

Spec == Init /\ [][Next]_vars

-----------------------------------------------------------------------------
(* Properties.                                                             *)

(* The orders of the messages are 1, 2, 3 and so on, each once, whatever   *)
(* transactions ran at once: UNIQUE is never violated.                     *)
OrdersAreSuccessive ==
  /\ Orders = 1 .. Cardinality(Orders)
  /\ \A m, n \in messages : m.order = n.order => m = n

(* A message without its order, which is its place in the log; a number    *)
(* that is no order is a hole in the log.                                  *)
Content(m) == [turn |-> m.turn, role |-> m.role, size |-> m.size]

Hole == [turn |-> 0, role |-> "none", size |-> 0]

LogOf(M) ==
  [i \in 1 .. Cardinality(M) |->
     IF \E m \in M : m.order = i
     THEN Content(CHOOSE m \in M : m.order = i) ELSE Hole]

CopyOf(s) == [i \in DOMAIN s |-> Content(s[i])]

Log == INSTANCE ConversationLog WITH
  Readers <- Clients,
  Sizes <- 1 .. MaxSize,
  exists <- conversation,
  log <- LogOf(messages),
  pages <- [c \in Clients |-> CopyOf(read[c])]

(* The interleaved chats and listings implement a log to which the         *)
(* questions and answers of admitted turns are added at its end, one at    *)
(* once, and which every client lists without a gap: the function of the   *)
(* database is atomic to its callers, also to those that gave up on it.    *)
ImplementsLog == Log!Spec

AnswersFollowQuestions ==
  \A m \in messages : m.role = "assistant" =>
    \E q \in messages :
      q.role = "user" /\ q.turn = m.turn /\ q.order < m.order

EveryTurnOnce ==
  \A m, n \in messages : m.turn = n.turn /\ m.role = n.role => m = n

AnsweredIsStored ==
  conversation => \A t \in answered, r \in Roles :
    \E m \in messages : m.turn = t /\ m.role = r

(* A turn is admitted, which with a quota costs a unit, before its         *)
(* question is stored; its question is stored once and before its answer;  *)
(* and both are stored when it is answered 201: also when requests were    *)
(* given up while their messages were stored.                              *)
TurnsAreWhole ==
  /\ \A m \in messages : m.turn \in admitted
  /\ AnswersFollowQuestions
  /\ EveryTurnOnce
  /\ AnsweredIsStored

(* What the provider is asked with holds the question of the turn, unless  *)
(* messages of other turns that came after it fill the history alone; and  *)
(* it leaves out no message between two of it.                             *)
PromptHoldsQuestion ==
  \A c \in Clients : call[c].step = "answer" =>
    LET M == call[c].prompt
        later == {m \in M : m.order > call[c].asked} IN
    /\ \/ \E m \in M : m.turn = call[c].turn /\ m.role = "user"
       \/ Cardinality(later) = MaxHistory
       \/ Units(later) >= Budget
    /\ \A x \in messages, m, n \in M :
         m.order < x.order /\ x.order < n.order => x \in M

(* The pages that a client has listed are the first messages in order,     *)
(* none twice and none left out, whatever is stored between two pages.     *)
PagesAreAPrefix ==
  \A c \in Clients : \A i \in DOMAIN read[c] :
    /\ read[c][i].order = i
    /\ conversation => read[c][i] \in messages

=============================================================================
