--------------------------- MODULE ConversationLog ---------------------------
(***************************************************************************)
(* What a conversation promises, without requests, transactions or locks:  *)
(* a log to which questions and answers are added at its end, one at once, *)
(* and which readers copy page after page.  Conversations implements it.   *)
(***************************************************************************)
EXTENDS Naturals, Sequences

CONSTANTS Readers, Turns, Sizes, PageSize

VARIABLES
  exists,
  log,      \* the messages: turn, role and size
  admitted, \* turns that may be asked
  answered,
  pages     \* what each reader has copied in a row

vars == <<exists, log, admitted, answered, pages>>

Holds(t, r) == \E i \in DOMAIN log : log[i].turn = t /\ log[i].role = r

Message(t, r, n) == [turn |-> t, role |-> r, size |-> n]

(* The messages after the first n, of which a page has so many at most.    *)
PageAfter(n) ==
  SubSeq(log, n + 1, IF Len(log) - n < PageSize THEN Len(log) ELSE n + PageSize)

Init ==
  /\ exists = TRUE
  /\ log = <<>>
  /\ admitted = {}
  /\ answered = {}
  /\ pages = [c \in Readers |-> <<>>]

Admit(t) ==
  /\ admitted' = admitted \cup {t}
  /\ UNCHANGED <<exists, log, answered, pages>>

(* The question of an admitted turn, of which nothing is in the log yet.   *)
Question(t, n) ==
  /\ exists /\ t \in admitted
  /\ ~Holds(t, "user") /\ ~Holds(t, "assistant")
  /\ log' = Append(log, Message(t, "user", n))
  /\ UNCHANGED <<exists, admitted, answered, pages>>

(* The answer to a question that is in the log.  The client may learn of   *)
(* it in the same instant, or never.                                       *)
Answer(t, n) ==
  /\ exists
  /\ Holds(t, "user") /\ ~Holds(t, "assistant")
  /\ log' = Append(log, Message(t, "assistant", n))
  /\ answered' \in {answered, answered \cup {t}}
  /\ UNCHANGED <<exists, admitted, pages>>

StartOver(c) ==
  /\ pages' = [pages EXCEPT ![c] = <<>>]
  /\ UNCHANGED <<exists, log, admitted, answered>>

TurnPage(c) ==
  /\ pages' = [pages EXCEPT ![c] = @ \o PageAfter(Len(@))]
  /\ UNCHANGED <<exists, log, admitted, answered>>

Erase ==
  /\ exists
  /\ exists' = FALSE
  /\ log' = <<>>
  /\ UNCHANGED <<admitted, answered, pages>>

Next ==
  \/ \E t \in Turns : Admit(t)
  \/ \E t \in Turns, n \in Sizes : Question(t, n) \/ Answer(t, n)
  \/ \E c \in Readers : StartOver(c) \/ TurnPage(c)
  \/ Erase

Spec == Init /\ [][Next]_vars
=============================================================================
