------------------------------ MODULE Chunkers ------------------------------
(***************************************************************************)
(* How a text is cut into chunks.  A text is a sequence of characters that *)
(* know where in the document they stand; what the code puts in itself,    *)
(* the blank between two sentences say, stands nowhere (at = 0).           *)
(***************************************************************************)
EXTENDS Integers, Sequences, FiniteSetsExt, SequencesExt

CONSTANTS
  NewLine, Space, Hash,   \* three of the characters
  Separators,      \* what to split at, the most important first
  Width,           \* bytes of a separator
  Breaks,          \* characters that end a sentence
  Size, Overlap,   \* rag.chunk_size, rag.chunk_overlap: Overlap < Size
  SentenceOverlap, \* the overlap where the semantic chunker cuts by size
  MinSize,         \* what the semantic chunker merges
  Percentile,      \* share of the similarities, in percent, that are breaks
  MaxLine,         \* what bufio.Scanner takes for a line
  Embeds           \* whether there is an embedder for the semantic chunker

Numbered(s) == [i \in DOMAIN s |-> [at |-> i, is |-> s[i]]]
PutIn(s) == [i \in DOMAIN s |-> [at |-> 0, is |-> s[i]]]
Plain(t) == [i \in DOMAIN t |-> t[i].is]

Blanks == {NewLine, Space}

\* strings.TrimSpace
Trim(t) ==
  LET ink == {i \in DOMAIN t : t[i].is \notin Blanks}
  IN IF ink = {} THEN <<>> ELSE SubSeq(t, Min(ink), Max(ink))

IsBlank(t) == Trim(t) = <<>>
Printed(ts) == SelectSeq(ts, LAMBDA t : ~IsBlank(t))

\* strings.Split
RECURSIVE Split(_, _)
Split(t, s) ==
  LET found == {i \in 1 .. Len(t) - Len(s) + 1 : Plain(SubSeq(t, i, i + Len(s) - 1)) = s}
  IN IF found = {} THEN <<t>>
     ELSE <<SubSeq(t, 1, Min(found) - 1)>> \o Split(SubSeq(t, Min(found) + Len(s), Len(t)), s)

\* A set of numbers from 0 to n, in order
Ascending(S, n) == SelectSeq([i \in 1 .. n + 1 |-> i - 1], LAMBDA i : i \in S)

\* strings.Join
Join(ts, s) ==
  IF ts = <<>> THEN ts
  ELSE FoldLeft(LAMBDA all, t : all \o PutIn(s) \o t, Head(ts), Tail(ts))

\* Mutant: a window that reaches the last character but one is the last.
WindowsShort(t, size, overlap) ==
  LET step == size - overlap
      windows == {k \in 0 .. Len(t) - 1 : k = 0 \/ (k - 1) * step + size < Len(t) - 1}
  IN [i \in 1 .. Cardinality(windows) |->
        SubSeq(t, (i - 1) * step + 1, Min({(i - 1) * step + size, Len(t)}))]

\* Windows of that size, each of which starts with the end of the one before, up to the
\* first that reaches the end of the text.
Windows(t, size, overlap) ==
  LET step == size - overlap
      windows == {k \in 0 .. Len(t) - 1 : k = 0 \/ (k - 1) * step + size < Len(t)}
  IN [i \in 1 .. Cardinality(windows) |->
        SubSeq(t, (i - 1) * step + 1, Min({(i - 1) * step + size, Len(t)}))]

---------------------------------------------------------------------------
(* RecursiveCharacterChunker *)

AddOverlap(ts, n) ==
  [i \in DOMAIN ts |->
     IF i = 1 THEN ts[1]
     ELSE SubSeq(ts[i - 1], Max({1, Len(ts[i - 1]) - n + 1}), Len(ts[i - 1])) \o ts[i]]

\* Small pieces are put together again, large ones split at the next separator; the last
\* one, <<>>, stands for windows.
RECURSIVE SplitText(_, _, _)
SplitText(t, seps, overlap) ==
  LET sep == Head(seps)
      pieces == IF sep = <<>> THEN Windows(t, Size, overlap) ELSE Split(t, sep)
      Saved(a) == IF a.current = <<>> THEN a.chunks ELSE Append(a.chunks, a.current)
      Fits(a, p) == Len(a.current) + Len(p) + Width[sep] <= Size
      Add(a, p) ==
        IF Fits(a, p)
          THEN [a EXCEPT !.current = IF @ = <<>> THEN p ELSE @ \o PutIn(sep) \o p]
        ELSE IF Len(p) > Size /\ Tail(seps) # <<>>
          THEN [chunks |-> Saved(a) \o SplitText(p, Tail(seps), overlap), current |-> <<>>]
        ELSE [chunks |-> Saved(a), current |-> p]
  IN AddOverlap(Saved(FoldLeft(Add, [chunks |-> <<>>, current |-> <<>>], pieces)), overlap)

RecursiveChunks(t, overlap) == Printed(SplitText(t, Separators, overlap))

---------------------------------------------------------------------------
(* MarkdownChunker *)

\* The lines a bufio.Scanner delivers: none from the first that is too long on.
Lines(t) ==
  LET all == Split(t, <<NewLine>>)
      ended == IF Last(all) = <<>> THEN Front(all) ELSE all
      long == {i \in DOMAIN ended : Len(ended[i]) > MaxLine}
  IN IF long = {} THEN ended ELSE SubSeq(ended, 1, Min(long) - 1)

IsHeading(t) == t # <<>> /\ t[1].is = Hash

Level(heading) ==
  Max({n \in DOMAIN heading : \A i \in 1 .. n : heading[i].is = Hash})

\* Mutant: a heading of the same level stays.
OpenBeside(headers, heading) ==
  Append(SubSeq(headers, 1, Min({Level(heading), Len(headers)})),
         Trim(SubSeq(heading, Level(heading) + 1, Len(heading))))

\* The headings in force after heading: as many of headers as have a smaller level, if no
\* level is left out.
OpenHeadings(headers, heading) ==
  Append(SubSeq(headers, 1, Min({Level(heading) - 1, Len(headers)})),
         Trim(SubSeq(heading, Level(heading) + 1, Len(heading))))

\* A chunk that does not begin with a heading is put under those in force.
Save(a) ==
  LET text == Trim(a.current)
      under == IF IsHeading(text) THEN <<>> ELSE a.headers
  IN IF text = <<>> THEN a
     ELSE [a EXCEPT !.current = <<>>,
                    !.chunks = Append(@, [under |-> under, text |-> text])]

MarkdownChunks(t) ==
  LET Read(a, line) ==
        LET before == IF IsHeading(line)
                        THEN [Save(a) EXCEPT !.headers = OpenHeadings(@, line)] ELSE a
            read == [before EXCEPT !.current = @ \o line \o PutIn(<<NewLine>>)]
        IN IF Len(read.current) > Size THEN Save(read) ELSE read
  IN Save(FoldLeft(Read, [chunks |-> <<>>, current |-> <<>>, headers |-> <<>>], Lines(t))).chunks

\* The text of such a chunk: its headings in a line of their own, then what it says.
Content(chunk) ==
  IF chunk.under = <<>> THEN chunk.text
  ELSE Join(chunk.under, <<Space>>) \o PutIn(<<NewLine>>) \o chunk.text

---------------------------------------------------------------------------
(* SemanticChunker *)

Sentences(t) ==
  LET ends == {0, Len(t)} \cup {i \in DOMAIN t : t[i].is \in Breaks}
      cuts == Ascending(ends, Len(t))
  IN SelectSeq([i \in 1 .. Len(cuts) - 1 |-> Trim(SubSeq(t, cuts[i] + 1, cuts[i + 1]))],
               LAMBDA s : s # <<>>)

\* findBreakpoints: the sentences after which similarities between neighbours are lowest.
Breakpoints(similar) ==
  LET rank == (Len(similar) * Percentile) \div 100
      AtMost(x) == {i \in DOMAIN similar : similar[i] <= x}
      threshold == Min({similar[i] : i \in {j \in DOMAIN similar :
                                              Cardinality(AtMost(similar[j])) > rank}})
  IN AtMost(threshold)

Groups(sentences, breakpoints) ==
  LET cuts == Ascending({0, Len(sentences)} \cup breakpoints, Len(sentences))
  IN [i \in 1 .. Len(cuts) - 1 |->
        Join(SubSeq(sentences, cuts[i] + 1, cuts[i + 1]), <<Space>>)]

\* balanceChunks: what is too small takes in the next group, what is too large is split.
Balance(groups) ==
  LET Add(a, g) == IF Len(Last(a)) < MinSize
                     THEN Append(Front(a), Last(a) \o PutIn(<<Space>>) \o g)
                     ELSE Append(a, g)
      merged == FoldLeft(Add, <<Head(groups)>>, Tail(groups))
  IN FlattenSeq([i \in DOMAIN merged |->
                   IF Len(merged[i]) <= Size THEN <<merged[i]>>
                   ELSE RecursiveChunks(merged[i], SentenceOverlap)])

\* With fewer than three sentences there is nothing to compare.
Compared(t) == Len(Sentences(t)) >= 3

SemanticChunks(t, similar) ==
  LET chunks == Balance(Groups(Sentences(t), Breakpoints(similar)))
  IN IF Compared(t) THEN Printed([i \in DOMAIN chunks |-> Trim(chunks[i])])
     ELSE RecursiveChunks(t, SentenceOverlap)

---------------------------------------------------------------------------
\* NewChunker: without an embedder a semantic chunker is not made; its substitute goes by
\* the extension of the file.
Chunker(strategy, extension) ==
  CASE strategy = "markdown" -> "markdown"
    [] strategy = "semantic" /\ Embeds -> "semantic"
    [] strategy \in {"semantic", "auto"} /\ extension = "md" -> "markdown"
    [] OTHER -> "recursive"

ChunksBy(chunker, t, similar) ==
  CASE chunker = "markdown" -> LET made == MarkdownChunks(t)
                               IN [i \in DOMAIN made |-> Content(made[i])]
    [] chunker = "semantic" -> SemanticChunks(t, similar)
    [] chunker = "recursive" -> RecursiveChunks(t, Overlap)
=============================================================================
