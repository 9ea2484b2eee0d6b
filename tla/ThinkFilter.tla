----------------------------- MODULE ThinkFilter -----------------------------
(*************************************************************************)
(* The stream filter that hides what a reasoning model thinks: an answer *)
(* arrives in chunks cut anywhere, a tag over several of them, and only  *)
(* what is outside <think>...</think> may be sent on.  The two tags are  *)
(* parameters; what matters is that they begin with the same character.  *)
(*************************************************************************)
EXTENDS Integers, Sequences, SequencesExt

CONSTANTS
  Alphabet,     \* the characters of an answer
  Open, Close,  \* the two tags, sequences over Alphabet
  MaxText,      \* bounds the length of an answer
  MaxChunk      \* bounds the length of a chunk

\* What of "<think>" and "</think>" findPartialOpen relies on: it takes the shortest
\* beginning of a tag the buffer ends with for the only one.
ASSUME TagAssumption ==
  /\ Open \in Seq(Alphabet) /\ Close \in Seq(Alphabet)
  /\ Len(Open) > 0 /\ Len(Close) > 0
  /\ \A k \in 2 .. Len(Open) : Open[k] # Open[1]
  /\ MaxChunk \in Nat

VARIABLES
  received, \* the answer so far, as the model wrote it
  buffer,   \* what was received and neither sent nor dropped
  inThink,  \* whether the buffer starts inside a tag
  sent,     \* what the client got
  closed    \* whether the stream has ended

filterVars == <<received, buffer, inThink, sent, closed>>

FilterInit ==
  received = <<>> /\ buffer = <<>> /\ inThink = FALSE /\ sent = <<>> /\ closed = FALSE

Keep(s, n) == SubSeq(s, 1, n)
Drop(s, n) == SubSeq(s, n + 1, Len(s))

\* Whether a is in s from position i on.
Occurs(a, s, i) == i + Len(a) - 1 <= Len(s) /\ \A k \in 1 .. Len(a) : s[i + k - 1] = a[k]

\* strings.Index plus one; 0 when tag is not in s.
IndexOf(s, tag) ==
  LET at == {i \in 1 .. Len(s) : Occurs(tag, s, i)} IN IF at = {} THEN 0 ELSE Min(at)

UpTo(s, tag) == Keep(s, IndexOf(s, tag) - 1)
Past(s, tag) == Drop(s, IndexOf(s, tag) + Len(tag) - 1)

\* How much of tag, but not all of it, s ends with; the shortest match is found first.
PartialTag(s, tag) ==
  LET fits == {i \in 1 .. Len(tag) - 1 : i <= Len(s) /\ Occurs(Keep(tag, i), s, Len(s) - i + 1)}
  IN IF fits = {} THEN 0 ELSE Min(fits)

Tag(inside) == IF inside THEN Close ELSE Open

\* The loop of Filter over the buffer, <<buffer, inThink>>: what is left in it, and what is
\* put out.
Scan[state \in Seq(Alphabet) \X BOOLEAN] ==
  LET s == state[1]
      inside == state[2]
      partial == PartialTag(s, Tag(inside))
  IN IF IndexOf(s, Tag(inside)) > 0
       THEN [Scan[<<Past(s, Tag(inside)), ~inside>>] EXCEPT
               !.out = (IF inside THEN <<>> ELSE UpTo(s, Open)) \o @]
     ELSE IF inside
       THEN [buffer |-> IF partial > 0 THEN s ELSE <<>>, inThink |-> TRUE, out |-> <<>>]
     ELSE [buffer |-> Drop(s, Len(s) - partial), inThink |-> FALSE,
           out |-> Keep(s, Len(s) - partial)]

\* Mutant: a chunk that ends within a tag is sent as it is.
FilterEach(chunk) ==
  /\ ~closed /\ Len(received) + Len(chunk) <= MaxText
  /\ LET after == Scan[<<buffer \o chunk, inThink>>]
     IN /\ buffer' = <<>> /\ inThink' = after.inThink
        /\ sent' = sent \o after.out \o (IF after.inThink THEN <<>> ELSE after.buffer)
  /\ received' = received \o chunk
  /\ UNCHANGED closed

Filter(chunk) ==
  /\ ~closed /\ Len(received) + Len(chunk) <= MaxText
  /\ LET after == Scan[<<buffer \o chunk, inThink>>]
     IN /\ buffer' = after.buffer /\ inThink' = after.inThink
        /\ sent' = sent \o after.out
  /\ received' = received \o chunk
  /\ UNCHANGED closed

Flush ==
  /\ ~closed
  /\ sent' = IF inThink THEN sent ELSE sent \o buffer
  /\ buffer' = <<>> /\ closed' = TRUE
  /\ UNCHANGED <<received, inThink>>

\* NewThinkTagStreamFilter: the next answer has a filter of its own.
NewFilter ==
  /\ closed
  /\ received' = <<>> /\ buffer' = <<>> /\ inThink' = FALSE /\ sent' = <<>> /\ closed' = FALSE

Pieces == UNION {[1 .. n -> Alphabet] : n \in 1 .. MaxChunk}

FilterNext == (\E chunk \in Pieces : Filter(chunk)) \/ Flush \/ NewFilter

FilterSpec == FilterInit /\ [][FilterNext]_filterVars

---------------------------------------------------------------------------
\* Properties.

\* What StripThinkTags leaves of a whole answer, blanks aside: each opening tag that a
\* closing one follows is cut out up to the first of those.  The stream cannot show what
\* an unclosed one hides.
Visible[s \in Seq(Alphabet)] ==
  LET rest == Past(s, Open)
  IN IF IndexOf(s, Open) = 0 THEN s
     ELSE UpTo(s, Open) \o (IF IndexOf(rest, Close) = 0 THEN <<>> ELSE Visible[Past(rest, Close)])

\* Wherever the answer is cut into chunks, the client gets the visible part of it: while
\* it streams a beginning of that part, at the end all of it (Filter and Flush).
HidesThinking ==
  IF closed THEN sent = Visible[received] ELSE IsPrefix(sent, Visible[received])
=============================================================================
