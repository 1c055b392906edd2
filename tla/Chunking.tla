------------------------------ MODULE Chunking ------------------------------
(***************************************************************************)
(* The four chunkers (src/src/chunk), as the loops they are: one step per  *)
(* paragraph, slide, section or table of a text.                           *)
(*                                                                         *)
(* A text is a sequence of blocks, a block a number of units: words, or in *)
(* a table rows.  head of them are its heading or its header row.  Units   *)
(* are numbered through the text; a chunk is the units from first to last, *)
(* behind a copy of the heading that begins at unit context, if any.  The  *)
(* title of a deck and the name of a sheet, which are put before every     *)
(* chunk whatever its size, are left out.                                  *)
(***************************************************************************)
EXTENDS Integers, Sequences, FiniteSets, FiniteSetsExt

CONSTANTS Blocks,     \* the blocks a text may have: [head, body]
          MaxBlocks,  \* bound on their number
          MaxWords    \* bound on chunking.words, or sheet_rows

ASSUME ChunkingAssumption ==
    /\ Blocks \subseteq [head : Nat, body : Nat]
    /\ MaxBlocks \in Nat /\ MaxWords \in Nat

Strategies == {"paragraph", "slide", "markdown", "sheet_rows"}

VARIABLES strategy,  \* the chunker, of Strategies
          words,     \* chunking.words
          overlap,   \* chunking.overlap
          text,      \* the blocks
          block,     \* the next of them
          packed,    \* units of the blocks in "current", the last before it
          chunks,    \* what has been emitted
          done       \* the chunker has returned

chVars == <<strategy, words, overlap, text, block, packed, chunks, done>>

Length(b) == b.head + b.body
UnitsUpTo[i \in Nat] == IF i = 0 THEN 0 ELSE UnitsUpTo[i - 1] + Length(text[i])
FirstUnit(i) == UnitsUpTo[i - 1] + 1
LastUnit(i) == UnitsUpTo[i]
Chunk(first, last, context) == [first |-> first, last |-> last, context |-> context]

(* range(first, last + 1, step), a slice of size units at each of them;    *)
(* nothing when the step is not positive.                                  *)
Windowed(first, last, size, step, context) ==
    [k \in 1..(IF step > 0 THEN (last - first + step) \div step ELSE 0) |->
        LET from == first + (k - 1) * step
        IN Chunk(from, Min({from + size - 1, last}), context)]

Flushed == IF packed = 0 THEN chunks
           ELSE Append(chunks, Chunk(LastUnit(block - 1) - packed + 1, LastUnit(block - 1), 0))

-----------------------------------------------------------------------------
\* Texts as the splitting leaves them: no block is empty, headings are told
\* apart in markdown, where only what precedes the first has none, and every
\* table has a header row.
TextOf(s) ==
    {t \in UNION {[1..n -> Blocks] : n \in 1..MaxBlocks} :
        \A i \in DOMAIN t :
            /\ Length(t[i]) > 0
            /\ CASE s = "markdown" -> i > 1 => t[i].head > 0
                 [] s = "sheet_rows" -> t[i].head = 1
                 [] OTHER -> t[i].head = 0}

CHInit ==
    /\ strategy \in Strategies /\ text \in TextOf(strategy)
    /\ words \in 1..MaxWords /\ overlap \in 0..words - 1
    /\ block = 1 /\ packed = 0 /\ chunks = <<>> /\ done = FALSE

Working(s) == strategy = s /\ block <= Len(text)
NextBlock == block' = block + 1 /\ UNCHANGED <<strategy, words, overlap, text, done>>

(* Whole paragraphs and slides are packed together while they fit.         *)
\* Slip: the budget is looked at after the block was added.
PackLate ==
    /\ chunks' = IF packed > words THEN Flushed ELSE chunks
    /\ packed' = (IF packed > words THEN 0 ELSE packed) + Length(text[block])

Pack ==
    LET full == packed + Length(text[block]) > words
    IN /\ chunks' = IF full THEN Flushed ELSE chunks
       /\ packed' = (IF full THEN 0 ELSE packed) + Length(text[block])

PackParagraph ==
    /\ Working("paragraph") /\ Length(text[block]) <= words
    /\ Pack /\ NextBlock

PackSlide == Working("slide") /\ Pack /\ NextBlock

WindowParagraph ==
    /\ Working("paragraph") /\ Length(text[block]) > words
    /\ chunks' = Flushed \o Windowed(FirstUnit(block), LastUnit(block), words,
                                   Max({1, words - overlap}), 0)
    /\ packed' = 0 /\ NextBlock

(* A section is kept whole, or its body windowed under the heading.        *)
KeepSection ==
    /\ Working("markdown") /\ Length(text[block]) <= words
    /\ chunks' = Append(chunks, Chunk(FirstUnit(block), LastUnit(block), 0))
    /\ UNCHANGED packed /\ NextBlock

\* Slip: the step is that of a section without a heading.
HeadlessStep(head) == words - overlap
SectionStep(head) == Max({1, Max({1, words - head}) - overlap})

WindowSection ==
    LET head == text[block].head
    IN /\ Working("markdown") /\ Length(text[block]) > words
       /\ chunks' = chunks \o Windowed(FirstUnit(block) + head, LastUnit(block), Max({1, words - head}),
                                     SectionStep(head), IF head = 0 THEN 0 ELSE FirstUnit(block))
       /\ UNCHANGED packed /\ NextBlock

(* Rows in groups, each behind the header row, which stands alone when it  *)
(* is all there is.                                                        *)
GroupRows ==
    /\ Working("sheet_rows")
    /\ chunks' = chunks \o
         IF text[block].body = 0 THEN <<Chunk(FirstUnit(block), LastUnit(block), 0)>>
         ELSE Windowed(FirstUnit(block) + 1, LastUnit(block), words, words, FirstUnit(block))
    /\ UNCHANGED packed /\ NextBlock

(* The last flush; a markdown text nothing came of is windowed as a whole. *)
Return ==
    /\ block = Len(text) + 1 /\ ~done
    /\ done' = TRUE
    /\ chunks' = IF strategy = "markdown" /\ chunks = <<>>
                 THEN Windowed(1, LastUnit(block - 1), words, Max({1, words - overlap}), 0)
                 ELSE Flushed
    /\ packed' = 0
    /\ UNCHANGED <<strategy, words, overlap, text, block>>

CHNext ==
    \/ PackParagraph \/ WindowParagraph \/ PackSlide
    \/ KeepSection \/ WindowSection \/ GroupRows \/ Return
CHSpec == CHInit /\ [][CHNext]_chVars

-----------------------------------------------------------------------------
Units(c) == c.first..c.last
Through == {i \in DOMAIN text : i < block}
BlockOf(u) == CHOOSE i \in DOMAIN text : FirstUnit(i) <= u /\ u <= LastUnit(i)
\* A section that is too long and all heading, on one line: its window is
\* empty, and when other sections have chunks the heading is in none.
Swallowed(i) == strategy = "markdown" /\ text[i].body = 0 /\ text[i].head > words

(* Every word and row of the blocks that are through is in a chunk or      *)
(* waits to be packed, in reading order and in no gap, whatever the sizes  *)
(* of blocks, headings, budget and overlap; but for oversized headings     *)
(* (markdown.py:47-54, paragraph.py:10-14, sheet.py:41-48).                *)
NothingLost ==
    /\ \A i \in Through : ~Swallowed(i) =>
         \A u \in FirstUnit(i)..LastUnit(i) :
            \/ u > LastUnit(block - 1) - packed
            \/ \E n \in DOMAIN chunks :
                  \/ u \in Units(chunks[n])
                  \/ chunks[n].context = FirstUnit(i) /\ u < FirstUnit(i) + text[i].head
    /\ \A n \in DOMAIN chunks : n > 1 => chunks[n - 1].first < chunks[n].first

ChunkSize(c) == Cardinality(Units(c)) + IF c.context = 0 THEN 0
                                        ELSE text[BlockOf(c.first)].head
Budget(c) == CASE strategy = "markdown" -> Max({words, text[BlockOf(c.first)].head + 1})
               [] strategy = "sheet_rows" -> words + 1
               [] OTHER -> words
OneBlock(c) == BlockOf(c.first) = BlockOf(c.last)
Whole(c) == FirstUnit(BlockOf(c.first)) = c.first /\ LastUnit(BlockOf(c.last)) = c.last

\* A chunk keeps to the budget, unless it is one slide; of two neighbours made
\* of whole paragraphs or slides the first had no room for more.
BudgetIsKept ==
    /\ \A n \in DOMAIN chunks :
         ChunkSize(chunks[n]) <= Budget(chunks[n])
         \/ (strategy = "slide" /\ OneBlock(chunks[n]))
    /\ strategy \in {"paragraph", "slide"} =>
         \A n \in DOMAIN chunks : n > 1 /\ Whole(chunks[n - 1]) /\ Whole(chunks[n]) =>
             ChunkSize(chunks[n - 1]) + Length(text[BlockOf(chunks[n].first)]) > words

\* A chunk that begins inside a block carries the heading of the block, and of
\* the words before the cut as many as the overlap asks for and the heading
\* leaves room for.
CutsKeepContext ==
    \A n \in DOMAIN chunks :
        LET c == chunks[n]
            b == BlockOf(c.first)
            cut == FirstUnit(b) + text[b].head
            room == Max({1, words - text[b].head})
        IN c.first > FirstUnit(b) /\ ~(done /\ \A i \in Through : Swallowed(i)) =>
            /\ text[b].head > 0 => c.context = FirstUnit(b)
            /\ c.first > cut /\ strategy # "sheet_rows" =>
                 /\ n > 1 /\ BlockOf(chunks[n - 1].first) = b
                 /\ chunks[n - 1].last < LastUnit(b) =>
                      chunks[n - 1].last - c.first + 1 = Min({overlap, room - 1})

(* The chunks of every text use the configured budget and no more, and     *)
(* where one begins in the middle of a paragraph, section or table it      *)
(* carries heading and overlap, even when the heading leaves no room for   *)
(* the overlap (markdown.py:3-6, paragraph.py:18, slide.py:1-3,            *)
(* sheet.py:3-5).                                                          *)
ChunksFit == BudgetIsKept /\ CutsKeepContext
=============================================================================
