------------------------------- MODULE Chunker -------------------------------
(***************************************************************************)
(* chunk_markdown of document_processor.py: a markdown text is cut into    *)
(* sections at its headers (_split_by_headers), and a section larger than  *)
(* CHUNK_SIZE into parts at blank lines outside code blocks and tables,    *)
(* each part starting with the last CHUNK_OVERLAP lines of the one before  *)
(* (_chunk_section).                                                       *)
(*                                                                         *)
(* A line is what the code looks at: what it matches once stripped, and    *)
(* its width, the characters it adds to a size (its newline included).     *)
(* Sections and chunks are runs of consecutive lines, [from..to]: the code *)
(* only ever appends the next line to one, or keeps the end of one.  One   *)
(* step is one iteration of one of the two loops.                          *)
(***************************************************************************)
EXTENDS FiniteSetsExt, Sequences

CONSTANTS
    Line,           \* the lines a text may be made of, [kind, width]
    MaxLines,       \* bound: how many lines it has
    ChunkSize,      \* CHUNK_SIZE, in characters
    ChunkOverlap    \* CHUNK_OVERLAP, in lines

Kind == {"text", "blank", "header", "fence", "table"}

ASSUME ChunkerAssumption ==
    /\ Line \subseteq [kind : Kind, width : Nat \ {0}]
    /\ MaxLines \in Nat \ {0}
    /\ ChunkSize \in Nat
    /\ ChunkOverlap \in Nat

VARIABLES
    lines,      \* the text
    phase,      \* "split", "sections", "parts", "done"
    line,       \* the next line the loop looks at
    from,       \* the first line of current_section, or of current_chunk
    sections,   \* the sections found, and those not yet chunked in the second phase
    size,       \* current_size
    inCode,     \* in_code_block
    inTable,    \* in_table
    chunks      \* the chunks made, in order

vars == <<lines, phase, line, from, sections, size, inCode, inTable, chunks>>

-----------------------------------------------------------------------------

Last == Len(lines)

\* The characters of line n, by their places.
Characters(n) == {n} \X (1..lines[n].width)

\* sum(len(l) + 1 for l in ...): how many characters lines a..b have.
Width(a, b) == Cardinality(UNION {Characters(n) : n \in a..b})

Run == [from : 1..MaxLines, to : 1..MaxLines]

\* A chunk: its lines, the size its metadata records, and whether it is one of
\* several parts of a section.
Chunk == [from : 1..MaxLines, to : 1..MaxLines, size : Nat, part : BOOLEAN]

Init ==
    /\ lines \in UNION {[1..n -> Line] : n \in 1..MaxLines}
    /\ phase = "split"
    /\ line = 1
    /\ from = 1
    /\ sections = <<>>
    /\ size = 0
    /\ inCode = FALSE
    /\ inTable = FALSE
    /\ chunks = <<>>

\* Mutant of SplitLine: a header on the first line closes an empty section.
SplitLineUnguarded ==
    /\ phase = "split"
    /\ line <= Last
    /\ IF lines[line].kind = "header"
       THEN /\ sections' = Append(sections, [from |-> from, to |-> line - 1])
            /\ from' = line
       ELSE UNCHANGED <<sections, from>>
    /\ line' = line + 1
    /\ UNCHANGED <<lines, phase, size, inCode, inTable, chunks>>

\* _split_by_headers: a header closes the section before it, wherever it is.
SplitLine ==
    /\ phase = "split"
    /\ line <= Last
    /\ IF lines[line].kind = "header" /\ from < line
       THEN /\ sections' = Append(sections, [from |-> from, to |-> line - 1])
            /\ from' = line
       ELSE UNCHANGED <<sections, from>>
    /\ line' = line + 1
    /\ UNCHANGED <<lines, phase, size, inCode, inTable, chunks>>

\* The last section, which is never empty.
SplitEnd ==
    /\ phase = "split"
    /\ line > Last
    /\ sections' = Append(sections, [from |-> from, to |-> Last])
    /\ phase' = "sections"
    /\ UNCHANGED <<lines, line, from, size, inCode, inTable, chunks>>

\* _chunk_section: a small section is one chunk.
WholeSection ==
    /\ phase = "sections"
    /\ sections # <<>>
    /\ LET s == Head(sections) IN
       /\ Width(s.from, s.to) <= ChunkSize
       /\ chunks' = Append(chunks, [from |-> s.from, to |-> s.to,
                                    size |-> Width(s.from, s.to), part |-> FALSE])
    /\ sections' = Tail(sections)
    /\ UNCHANGED <<lines, phase, line, from, size, inCode, inTable>>

\* ... and a larger one is read line by line.
OpenSection ==
    /\ phase = "sections"
    /\ sections # <<>>
    /\ LET s == Head(sections) IN
       /\ Width(s.from, s.to) > ChunkSize
       /\ line' = s.from
       /\ from' = s.from
    /\ phase' = "parts"
    /\ size' = 0
    /\ inCode' = FALSE
    /\ inTable' = FALSE
    /\ UNCHANGED <<lines, sections, chunks>>

\* Mutant of OverlapFrom: >= for >.
OverlapAtLeast ==
    IF line - from + 1 >= ChunkOverlap
    THEN IF ChunkOverlap = 0 THEN from ELSE line - ChunkOverlap + 1
    ELSE line + 1

\* current_chunk[-chunk_overlap:] if len(current_chunk) > chunk_overlap else []:
\* the line the next chunk starts with.  A slice that starts at -0 is the whole list.
OverlapFrom ==
    IF line - from + 1 > ChunkOverlap
    THEN IF ChunkOverlap = 0 THEN from ELSE line - ChunkOverlap + 1
    ELSE line + 1

\* Mutant of OverlapSize: current_size is reset.
OverlapForgotten == 0

\* sum(len(l) + 1 for l in overlap_lines)
OverlapSize == Width(OverlapFrom, line)

\* Mutant of MaySplit: the code block is not looked at.
MaySplitInCode(code, table) == ~ table /\ lines[line].kind = "blank"

\* The place is one to split at: a blank line, in no code block and no table.
MaySplit(code, table) == ~ code /\ ~ table /\ lines[line].kind = "blank"

\* The next line of a large section joins current_chunk, which may end there.
PartLine ==
    /\ phase = "parts"
    /\ line <= Head(sections).to
    /\ LET kind == lines[line].kind
           grown == size + lines[line].width
       IN
       /\ inCode' = IF kind = "fence" THEN ~ inCode ELSE inCode
       /\ inTable' = (kind = "table" \/ (inTable /\ kind # "blank"))
       /\ IF grown > ChunkSize /\ MaySplit(inCode', inTable')
          THEN /\ chunks' = Append(chunks, [from |-> from, to |-> line,
                                            size |-> grown, part |-> TRUE])
               /\ from' = OverlapFrom
               /\ size' = OverlapSize
          ELSE /\ size' = grown
               /\ UNCHANGED <<chunks, from>>
    /\ line' = line + 1
    /\ UNCHANGED <<lines, phase, sections>>

\* Mutant of LinesLeft: what is no longer than the overlap is taken for it.
LinesLeftBeyondOverlap == line - from > ChunkOverlap

\* `if current_chunk:`
LinesLeft == from < line

\* The final chunk of the section: what is left, if anything is.
CloseSection ==
    /\ phase = "parts"
    /\ line > Head(sections).to
    /\ chunks' = IF LinesLeft
                 THEN Append(chunks, [from |-> from, to |-> line - 1,
                                      size |-> size, part |-> TRUE])
                 ELSE chunks
    /\ sections' = Tail(sections)
    /\ phase' = "sections"
    /\ UNCHANGED <<lines, line, from, size, inCode, inTable>>

\* The loop over the sections ends.
Finish ==
    /\ phase = "sections"
    /\ sections = <<>>
    /\ phase' = "done"
    /\ UNCHANGED <<lines, line, from, sections, size, inCode, inTable, chunks>>

Next ==
    \/ SplitLine \/ SplitEnd
    \/ WholeSection \/ OpenSection \/ PartLine \/ CloseSection
    \/ Finish

Spec == Init /\ [][Next]_vars

-----------------------------------------------------------------------------
(* Properties. *)

\* Every variable has the type the code gives it.
TypeOK ==
    /\ lines \in Seq(Line) /\ Len(lines) \in 1..MaxLines
    /\ phase \in {"split", "sections", "parts", "done"}
    /\ line \in 1..(MaxLines + 1)
    /\ from \in 1..(MaxLines + 1)
    /\ sections \in Seq(Run)
    /\ size \in Nat
    /\ inCode \in BOOLEAN
    /\ inTable \in BOOLEAN
    /\ chunks \in Seq(Chunk)

\* The chunks so far cover the text from its first line up to line n, in order
\* and without a gap.
CoverUpTo(n) ==
    /\ IF chunks = <<>> THEN n = 0 ELSE chunks[1].from = 1 /\ chunks[Len(chunks)].to = n
    /\ \A k \in 1..(Len(chunks) - 1) :
         /\ chunks[k + 1].from <= chunks[k].to + 1
         /\ chunks[k].to <= chunks[k + 1].to

\* No line of a text is lost between two sections or two parts, at any chunk
\* size and overlap, and a text is never left without a chunk.
NothingLost ==
    phase = "done" => CoverUpTo(Last) /\ chunks # <<>>

\* The size recorded for a chunk is the size of its lines: what is carried over
\* from the previous part is counted once.
SizesTrue == \A k \in DOMAIN chunks : chunks[k].size = Width(chunks[k].from, chunks[k].to)

\* Chunk k is a part and the next chunk continues its section.
Continued(k) ==
    /\ k + 1 \in DOMAIN chunks
    /\ chunks[k].part /\ chunks[k + 1].part
    /\ \/ chunks[k + 1].from <= chunks[k].to
       \/ lines[chunks[k + 1].from].kind # "header"

\* The lines chunk k hands to the next part: CHUNK_OVERLAP of them, if it has more.
Carried(k) ==
    IF chunks[k].to - chunks[k].from + 1 > ChunkOverlap THEN ChunkOverlap ELSE 0

\* Two parts of a section share exactly the CHUNK_OVERLAP lines asked for if the
\* first has more than those, and none if it has not; only the last part of a
\* section can fail to bring a line of its own.
PartsOverlap ==
    \A k \in DOMAIN chunks :
        Continued(k) =>
            /\ chunks[k].to - chunks[k + 1].from + 1 = Carried(k)
            /\ k + 2 \in DOMAIN chunks /\ Continued(k + 1) => chunks[k].to < chunks[k + 1].to

\* How many fences the lines a..b hold.
Fences(a, b) == Cardinality({n \in a..b : lines[n].kind = "fence"})

\* A code block of the text, not of a section, is open after line n.
InBlock(n) == Fences(1, n) % 2 = 1

\* No line of a code block, such as a comment that starts with a hash, looks like a header.
HeadersOutside == \A n \in DOMAIN lines : lines[n].kind = "header" => ~ InBlock(n)

\* A chunk ends after a blank line or before a header, so never between two lines
\* of a table; and outside the code blocks of the text, although in_code_block
\* starts over with each section, if none of them holds a line like a header.
CutsBetweenBlocks ==
    \A k \in DOMAIN chunks :
        k + 1 \in DOMAIN chunks =>
            /\ \/ lines[chunks[k].to].kind = "blank"
               \/ lines[chunks[k].to + 1].kind = "header"
            /\ HeadersOutside => ~ InBlock(chunks[k].to)
=============================================================================
