--------------------------- MODULE DocumentReading ---------------------------
(***************************************************************************)
(* What becomes of the text of a document on its way into the index: a     *)
(* request uploads a file or names a page (or the server loads a file of   *)
(* its directory when it starts), an engine of the DocReader or, when it   *)
(* fails, the one behind it reads it, a chunker cuts it, and the document  *)
(* is marked.  Who else writes the document meanwhile is KnowledgeImport's *)
(* concern.                                                                *)
(***************************************************************************)
EXTENDS Chunkers

CONSTANTS
  Documents,     \* [kind: "file" or "page", ext, text, rendered]: a page's text is what a
                 \* download gets, rendered what a browser shows of it
  Setups,        \* [mode, grpc, mineru, render, strategy]: the configuration
  Blocked,       \* documents that the URL policy blocks
  ReadSize, ReadOverlap,   \* docreader.DefaultParseOptions
  MaxFileSize, MaxDownload, Short,   \* limits: of a file, a download, a page to render
  MaxFaults      \* bounds the calls that fail for a document

VARIABLES
  pc,        \* "idle", "reading", "parsed", "chunked", "completed" or "failed"
  job,       \* [doc, setup, way]: what is read and how it came in
  engines,   \* the engines not asked yet
  expired,   \* whether the time for all of them is over
  source,    \* the content an engine or a chunker got to read
  chunks,    \* the texts of the chunks
  reported,  \* whether the service put an error into its answer
  faults

vars == <<pc, job, engines, expired, source, chunks, reported, faults>>

\* A queued import of a new document reads it as an upload does; "replace" is an upload in
\* the place of an older one, "queued" the same by the import worker, which goes by the
\* bytes of the file; "load" is the directory of documents.
Ways == {"upload", "replace", "queued", "load"}

None == [doc |-> CHOOSE d \in Documents : TRUE, setup |-> CHOOSE s \in Setups : TRUE,
         way |-> "upload"]

Init == /\ pc = "idle" /\ job = None /\ engines = <<>> /\ expired = FALSE
        /\ source = <<>> /\ chunks = <<>> /\ reported = FALSE /\ faults = 0

\* NewClient; <<>> is no client.
Reader(s) ==
  CASE ~s.grpc /\ ~s.mineru -> <<>>
    [] s.mode = "local" -> <<"local">>
    [] s.mode = "grpc" -> IF s.grpc THEN <<"grpc">> ELSE <<>>
    [] s.mode = "auto" -> IF s.grpc THEN <<"grpc", "local">> ELSE <<"local">>
    [] s.mode = "mineru" -> IF s.mineru THEN <<"mineru">> ELSE <<>>
    [] s.mode = "mineru_with_fallback" ->
         IF s.mineru THEN <<"mineru", "local">> ELSE <<"local">>
    [] OTHER -> <<>>

doc == job.doc
Call == faults < MaxFaults /\ faults' = faults + 1

\* A document is accepted (or found in the directory, where only the text types are).  A
\* file is read as it is where no client reads it; a page needs one.
Accept ==
  /\ pc = "idle"
  /\ \E d \in Documents, s \in Setups, way \in Ways :
       /\ way \in {"load", "queued"} => d.kind = "file"
       /\ way = "load" => d.ext # "html"
       /\ LET reader == IF way \in {"load", "queued"} THEN <<>> ELSE Reader(s)
              refused == \/ d.kind = "page" /\ (d \in Blocked \/ reader = <<>>)
                         \/ d.kind = "file" /\ reader # <<>> /\ Len(d.text) > MaxFileSize
          IN /\ job' = [doc |-> d, setup |-> s, way |-> way] /\ engines' = reader
             /\ source' = IF reader = <<>> THEN Numbered(d.text) ELSE <<>>
             /\ pc' = CASE refused -> "failed"
                        [] ~refused /\ reader = <<>> -> "parsed"
                        [] OTHER -> "reading"
  /\ UNCHANGED <<expired, chunks, reported, faults>>

Parsed(text, parts) ==
  /\ source' = text /\ chunks' = parts
  /\ pc' = IF job.way = "replace" THEN "parsed" ELSE "chunked"
  /\ UNCHANGED <<job, engines, expired, faults>>

\* fallbackEngine: the next engine, if there is one, is asked.
GiveUp ==
  /\ engines' = Tail(engines)
  /\ pc' = IF Tail(engines) = <<>> THEN "failed" ELSE "reading"
  /\ UNCHANGED <<job, source, chunks, reported>>

Download(text, limit) == SubSeq(text, 1, Min({Len(text), limit}))

\* The services answer; how they cut the text is their concern.  One downloads pages itself
\* and drops blank chunks that come back.
Answer ==
  /\ pc = "reading" /\ Head(engines) \in {"grpc", "mineru"} /\ ~expired
  /\ LET text == Numbered(IF Head(engines) = "grpc" /\ doc.kind = "page" THEN doc.rendered
                          ELSE IF doc.kind = "page" THEN Download(doc.text, MaxDownload)
                          ELSE doc.text)
         parts == Windows(text, ReadSize, 0)
     IN Parsed(text, IF Head(engines) = "mineru" THEN Printed(parts) ELSE parts)
  /\ UNCHANGED reported

\* convertResponse: an error in the answer is an answer.
AnswerError ==
  /\ pc = "reading" /\ Head(engines) = "grpc" /\ ~expired
  /\ reported' = TRUE
  /\ Parsed(<<>>, <<>>)

\* The one time limit of ParseBytes and ParseURL passes while an engine is asked.
Expire ==
  /\ pc = "reading" /\ Head(engines) # "local" /\ ~expired
  /\ Call
  /\ expired' = TRUE
  /\ GiveUp

\* A service does not answer, a page cannot be fetched (nothing can when the time is over)
\* or a file is broken.
Fail ==
  /\ pc = "reading"
  /\ Head(engines) = "local" => doc.kind = "page" \/ doc.ext = "pdf"
  /\ IF expired /\ doc.kind = "page" THEN UNCHANGED faults ELSE Call
  /\ GiveUp
  /\ UNCHANGED expired

\* fetchURL: "always" takes what the browser shows; "auto" starts the browser for a page
\* that seems empty without, and does without if that fails.
Fetched ==
  LET static == Download(doc.text, MaxDownload)
  IN CASE job.setup.render = "always" -> {doc.rendered}
       [] job.setup.render = "auto" /\ Len(doc.text) < Short -> {doc.rendered, static}
       [] OTHER -> {static}

\* What is read from HTML has one blank for any white space.
Flowing(t) ==
  LET words == Printed(Split([i \in DOMAIN t |->
                 [t[i] EXCEPT !.is = IF @ = NewLine THEN Space ELSE @]], <<Space>>))
  IN Join(words, <<Space>>)

ReadLocal ==
  /\ pc = "reading" /\ Head(engines) = "local"
  /\ doc.kind = "page" => ~expired
  /\ \E content \in IF doc.kind = "file" THEN {doc.text} ELSE Fetched :
       LET text == Numbered(content)
           html == doc.kind = "page" \/ doc.ext = "html"
           read == IF html THEN Flowing(text) ELSE Trim(text)
       IN IF read = <<>> /\ (html \/ doc.ext = "pdf")
            THEN GiveUp /\ UNCHANGED <<expired, faults>>
            ELSE /\ Parsed(text, Printed(Windows(read, ReadSize, ReadOverlap)))
                 /\ UNCHANGED reported

\* incrementalSync, processPlainTextDocument and loadDocuments: what is read is chunked
\* (again).  The semantic chunker asks the embedder.
Input == IF job.way = "replace" /\ Reader(job.setup) # <<>>
           THEN Join(Printed(chunks), <<NewLine, NewLine>>) ELSE source

ChunkerOf ==
  IF job.way = "load"
    THEN IF job.setup.strategy = "markdown" THEN "markdown" ELSE "recursive"
    ELSE Chunker(job.setup.strategy, doc.ext)

Chunk ==
  /\ pc = "parsed"
  /\ LET pairs == IF ChunkerOf = "semantic" /\ Compared(Input)
                    THEN Len(Sentences(Input)) - 1 ELSE 0
     IN \E similar \in [1 .. pairs -> 0 .. 1] : chunks' = ChunksBy(ChunkerOf, Input, similar)
  /\ pc' = "chunked"
  /\ UNCHANGED <<job, engines, expired, source, reported, faults>>

EmbedFails ==
  /\ pc = "parsed" /\ ChunkerOf = "semantic" /\ Compared(Input)
  /\ Call
  /\ pc' = "failed"
  /\ UNCHANGED <<job, engines, expired, source, chunks, reported>>

\* Embedded and stored, and the document marked; nothing is to do for no chunks.
Store ==
  /\ pc = "chunked"
  /\ \/ pc' = "completed" /\ UNCHANGED <<chunks, faults>>
     \/ chunks # <<>> /\ Call /\ pc' = "failed" /\ chunks' = <<>>
  /\ UNCHANGED <<job, engines, expired, source, reported>>

\* The next document.
Answered ==
  /\ pc \in {"completed", "failed"}
  /\ pc' = "idle" /\ job' = None /\ engines' = <<>> /\ expired' = FALSE
  /\ source' = <<>> /\ chunks' = <<>> /\ reported' = FALSE /\ faults' = 0

Next == Accept \/ Answer \/ AnswerError \/ Expire \/ Fail \/ ReadLocal
        \/ Chunk \/ EmbedFails \/ Store \/ Answered

Spec == Init /\ [][Next]_vars

---------------------------------------------------------------------------
\* Properties.

Letters(t) == SelectSeq(t, LAMBDA c : /\ c.at # 0 /\ c.is \notin Blanks
                                      /\ \A i \in DOMAIN Separators : <<c.is>> # Separators[i])

\* What there is to read in the chunks for one who skips what was read before.
ReadOnce(ts) ==
  FoldLeft(LAMBDA seen, c : IF Contains(seen, c) THEN seen ELSE Append(seen, c),
           <<>>, Letters(FlattenSeq(ts)))

\* A line that the Markdown chunker does not get past.
LineTooLong ==
  LET lines == Split(source, <<NewLine>>)
  IN ChunkerOf = "markdown" /\ \E i \in DOMAIN lines : Len(lines[i]) > MaxLine

\* A document that is marked as completed can be read in its chunks, one after the other,
\* without a gap: whichever engine read it after whichever failed, and whichever chunker cut
\* it.  What the engine did not get, the service reported as an error or a line too long for
\* the Markdown chunker hides is not in them (UploadDocument, ParseBytes, NewChunker).
TextKept ==
  pc = "completed" /\ ~reported /\ ~LineTooLong => ReadOnce(chunks) = Letters(source)

\* Where the headings of a text are, and which of them a place in it is under.
HeadingsOf(t) == {i \in DOMAIN t : t[i].is = Hash /\ (i = 1 \/ t[i - 1].is = NewLine)}
LineAt(t, i) == Head(Split(SubSeq(t, i, Len(t)), <<NewLine>>))
LevelAt(t, h) == Level(LineAt(t, h))
Over(t, p) ==
  {h \in HeadingsOf(t) : h < p /\ \A i \in HeadingsOf(t) : h < i /\ i < p => LevelAt(t, i) > LevelAt(t, h)}

\* No heading leaves out a level.
Nested(t) ==
  \A h \in HeadingsOf(t) :
    LevelAt(t, h) = 1 + Cardinality({i \in Over(t, h) : LevelAt(t, i) < LevelAt(t, h)})

\* A chunk of a Markdown text that does not begin with a heading is put under exactly the
\* headings its text is under, though their lines are in other chunks (MarkdownChunker:
\* each chunk carries the prefix of its heading levels).
HeadingsKept ==
  pc = "chunked" /\ ChunkerOf = "markdown" /\ chunks # <<>> /\ Nested(source)
    => LET made == MarkdownChunks(source)
       IN \A k \in DOMAIN made :
            LET over == Ascending(Over(source, made[k].text[1].at), Len(source))
            IN ~IsHeading(made[k].text)
                 => made[k].under =
                      [i \in DOMAIN over |->
                         Trim(SubSeq(LineAt(source, over[i]), LevelAt(source, over[i]) + 1,
                                     Len(LineAt(source, over[i]))))]
=============================================================================
