------------------------------ MODULE Chunking ------------------------------
(***************************************************************************)
(* How RagDocumentProcessor.chunk_text cuts the text of a document into    *)
(* the overlapping chunks that are embedded.  A text is a sequence that    *)
(* says of each character whether it is something else than white space,   *)
(* and a chunk is the set of the positions it holds.                       *)
(***************************************************************************)
EXTENDS Integers, Sequences

CONSTANT MaxText   \* bound: longest text, size and overlap

ASSUME ChunkingAssumption == MaxText \in Nat \ {0}

VARIABLES
  text,      \* empty between two calls
  size,
  overlap,
  start,     \* characters before the window
  chunks

chunkingVars == <<text, size, overlap, start, chunks>>

(* extract_text: not empty, and neither begins nor ends with white space.  *)
Texts == {t \in UNION {[1 .. n -> BOOLEAN] : n \in 1 .. MaxText} :
            t[1] /\ t[Len(t)]}

ChunkingTypeOK ==
  /\ text = <<>> \/ text \in Texts
  /\ size \in 1 .. MaxText /\ overlap \in 0 .. MaxText
  /\ start \in 0 .. Len(text)
  /\ chunks \in Seq(SUBSET (1 .. Len(text)))

(* str.strip of the characters at the positions W.                         *)
Strip(W) == {i \in W : \E j, k \in W : j <= i /\ i <= k /\ text[j] /\ text[k]}

(* Mutated form: the next window begins where this one ends.               *)
NoOverlap(end) == end

NextStart(end) == IF start < end - overlap THEN end - overlap ELSE start + 1

-----------------------------------------------------------------------------
(* Between two calls.                                                      *)
ChunkingInit ==
  /\ text = <<>> /\ size = 1 /\ overlap = 0
  /\ start = 0 /\ chunks = <<>>

ChunkText ==
  /\ text = <<>>
  /\ text' \in Texts /\ size' \in 1 .. MaxText /\ overlap' \in 0 .. MaxText
  /\ UNCHANGED <<start, chunks>>

(* One turn of the loop; the window that reaches the end is the last one.  *)
CutWindow ==
  /\ start < Len(text)
  /\ LET end   == IF start + size < Len(text) THEN start + size ELSE Len(text)
         chunk == Strip(start + 1 .. end)
     IN  /\ chunks' = IF chunk = {} THEN chunks ELSE Append(chunks, chunk)
         /\ start' = IF end = Len(text) THEN end ELSE NextStart(end)
  /\ UNCHANGED <<text, size, overlap>>

Return ==
  /\ text # <<>> /\ start = Len(text)
  /\ text' = <<>> /\ size' = 1 /\ overlap' = 0
  /\ start' = 0 /\ chunks' = <<>>

ChunkingNext == ChunkText \/ CutWindow \/ Return

ChunkingSpec == ChunkingInit /\ [][ChunkingNext]_chunkingVars

-----------------------------------------------------------------------------
(* Properties.                                                             *)

(* A chunk begins and ends with a character, not with white space, leaves  *)
(* out nothing between them, and is no larger than the size.               *)
ChunksFit ==
  \A i \in DOMAIN chunks : \E first, last \in DOMAIN text :
    /\ text[first] /\ text[last]
    /\ first <= last /\ last - first < size
    /\ chunks[i] = first .. last

(* A passage no longer than a window, and than the overlap and one more    *)
(* character, is whole in some chunk: none is cut where two windows meet.  *)
PassagesAreWhole ==
  \A first, last \in DOMAIN text :
    /\ text[first] /\ text[last] /\ first <= start
    /\ first <= last /\ last - first < size /\ last - first <= overlap
    => \E i \in DOMAIN chunks : first .. last \subseteq chunks[i]

(* There are no more chunks than characters, and no more than steps of the *)
(* window when it steps by size - overlap: 79 for the 250000 characters,   *)
(* 3500 and 300 of the service, whose check for more than 80 never refuses *)
(* a document.                                                             *)
ChunksAreFew ==
  /\ Len(chunks) <= start
  /\ Len(chunks) > 1 /\ overlap < size =>
       (Len(chunks) - 1) * (size - overlap) + overlap < Len(text)

(* What retrieval needs of the chunks, at the end and after each window.   *)
ChunksCoverText == ChunksFit /\ PassagesAreWhole /\ ChunksAreFew
=============================================================================
