---------------------------- MODULE ChunkerProofs ----------------------------
(***************************************************************************)
(* What is proved of the chunker, for every text, chunk size and overlap:  *)
(* no line is lost, parts share the lines asked for, no code block is cut  *)
(* if none holds a line like a header, and the sizes recorded are true.    *)
(*                                                                         *)
(* ChunkInv does not depend on a size: whether a chunk is too large only   *)
(* says when one is cut.  That the sizes are right comes last.             *)
(***************************************************************************)
EXTENDS Chunker, SequenceTheorems, FunctionTheorems, FiniteSetTheorems, TLAPS

\* The last line that is in a chunk.
Reached == IF chunks = <<>> THEN 0 ELSE chunks[Len(chunks)].to

\* The place after line n is one where a section is cut.
CutAfter(n) ==
    /\ lines[n].kind = "blank"
    /\ \E m \in 1..n : (m = 1 \/ lines[m].kind = "header") /\ Fences(m, n) % 2 = 0

\* Chunk k + 1 starts a section after chunk k.
NextSection(k) ==
    /\ chunks[k + 1].from = chunks[k].to + 1
    /\ lines[chunks[k + 1].from].kind = "header"

\* Chunks k and k + 1 fit, and chunk k brought a line of its own if it could.
Joint(k) ==
    /\ chunks[k + 1].from <= chunks[k].to + 1
    /\ chunks[k].to <= chunks[k + 1].to
    /\ ChunkOverlap # 0 => chunks[k].to - chunks[k + 1].from + 1 = Carried(k) \/ NextSection(k)
    /\ CutAfter(chunks[k].to) \/ NextSection(k)
    /\ k > 1 => chunks[k - 1].to < chunks[k].to \/ NextSection(k)

\* The chunks so far cover the text up to Reached.
Joined ==
    /\ chunks # <<>> => chunks[1].from = 1
    /\ \A k \in 1..(Len(chunks) - 1) : Joint(k)

\* The next chunk may start at line f.
Follows(f) ==
    /\ chunks = <<>> => f = 1
    /\ chunks # <<>> =>
         /\ f <= Reached + 1
         /\ LET next == f = Reached + 1 /\ lines[f].kind = "header" IN
            /\ ChunkOverlap # 0 => Reached - f + 1 = Carried(Len(chunks)) \/ next
            /\ CutAfter(Reached) \/ next
            /\ Len(chunks) > 1 => chunks[Len(chunks) - 1].to < Reached \/ next

\* Lines a..b of a text are one section.
IsSection(text, a, b) ==
    /\ a \in 1..Len(text)
    /\ b \in a..Len(text)
    /\ a = 1 \/ text[a].kind = "header"
    /\ \A m \in (a + 1)..b : text[m].kind # "header"

\* The sections ss are lines a..b of the text, in order and without a gap.
Tiles(text, ss, a, b) ==
    /\ IF ss = <<>> THEN a = b + 1 ELSE ss[1].from = a /\ ss[Len(ss)].to = b
    /\ \A k \in 1..Len(ss) : IsSection(text, ss[k].from, ss[k].to)
    /\ \A k \in 1..(Len(ss) - 1) : ss[k + 1].from = ss[k].to + 1

Splitting ==
    /\ chunks = <<>>
    /\ line \in 1..(Last + 1) /\ from \in 1..(Last + 1)
    /\ from < line \/ (line = 1 /\ from = 1)
    /\ from = 1 \/ lines[from].kind = "header"
    /\ \A m \in (from + 1)..(line - 1) : lines[m].kind # "header"
    /\ Tiles(lines, sections, 1, from - 1)

Cutting ==
    /\ sections # <<>>
    /\ Tiles(lines, sections, sections[1].from, Last)
    /\ line \in 1..(Last + 1) /\ from \in 1..(Last + 1)
    /\ sections[1].from <= from /\ from <= line /\ line <= sections[1].to + 1
    /\ sections[1].from <= Reached + 1 /\ Reached < line
    /\ Follows(from)
    /\ inCode <=> Fences(sections[1].from, line - 1) % 2 = 1

Progress ==
    /\ Joined
    /\ phase \in {"split", "sections", "parts", "done"}
    /\ inCode \in BOOLEAN
    /\ phase = "split" => Splitting
    /\ phase = "sections" => Tiles(lines, sections, Reached + 1, Last)
    /\ phase = "parts" => Cutting
    /\ phase = "done" => Reached = Last

IsSequence(s) == \E S : s \in Seq(S)

Shape ==
    /\ lines \in Seq(Line) /\ Last \in Nat \ {0}
    /\ IsSequence(sections)
    /\ IsSequence(chunks)
    /\ \A k \in 1..Len(chunks) : chunks[k].from \in 1..Last /\ chunks[k].to \in 1..Last

ChunkInv == Shape /\ Progress

-----------------------------------------------------------------------------
(* Sequences, sections and fences. *)

LEMMA AppendAny ==
    ASSUME NEW s, IsSequence(s), NEW e
    PROVE  /\ IsSequence(Append(s, e))
           /\ Len(s) \in Nat
           /\ Append(s, e) # <<>>
           /\ Len(Append(s, e)) = Len(s) + 1
           /\ Append(s, e)[Len(s) + 1] = e
           /\ \A k \in 1..Len(s) : Append(s, e)[k] = s[k]
           /\ s = <<>> <=> Len(s) = 0
<1>1. PICK S : s \in Seq(S)
  BY DEF IsSequence
<1>2. s \in Seq(S \cup {e})
  BY <1>1
<1>3. Append(s, e) \in Seq(S \cup {e})
  BY <1>2, AppendProperties
<1>4. IsSequence(Append(s, e))
  BY <1>3 DEF IsSequence
<1> QED
  BY <1>2, <1>4, AppendProperties, EmptySeq, LenProperties

LEMMA TailAny ==
    ASSUME NEW s, IsSequence(s), s # <<>>
    PROVE  /\ IsSequence(Tail(s))
           /\ Head(s) = s[1]
           /\ Len(s) \in Nat \ {0}
           /\ Len(Tail(s)) = Len(s) - 1
           /\ \A k \in 1..(Len(s) - 1) : Tail(s)[k] = s[k + 1]
           /\ Tail(s) = <<>> <=> Len(s) = 1
<1>1. PICK S : s \in Seq(S)
  BY DEF IsSequence
<1>2. /\ Tail(s) \in Seq(S)
      /\ Len(Tail(s)) = Len(s) - 1
      /\ \A k \in 1..Len(Tail(s)) : Tail(s)[k] = s[k + 1]
  BY <1>1, HeadTailProperties
<1>3. Len(s) \in Nat \ {0}
  BY <1>1
<1>4. Tail(s) = <<>> <=> Len(Tail(s)) = 0
  BY <1>2
<1>5. IsSequence(Tail(s))
  BY <1>2 DEF IsSequence
<1>6. Head(s) = s[1]
  BY <1>1
<1> QED
  BY <1>2, <1>3, <1>4, <1>5, <1>6

LEMMA TilesAppend ==
    ASSUME NEW text, Len(text) \in Nat, NEW ss, IsSequence(ss),
           NEW first, NEW a, NEW b, IsSection(text, a, b), Tiles(text, ss, first, a - 1)
    PROVE  Tiles(text, Append(ss, [from |-> a, to |-> b]), first, b)
<1> DEFINE s == [from |-> a, to |-> b]
           tt == Append(ss, s)
<1>1. s.from = a /\ s.to = b /\ a \in Nat /\ a - 1 + 1 = a
  BY DEF IsSection
<1>2. /\ Len(ss) \in Nat /\ tt # <<>> /\ Len(tt) = Len(ss) + 1 /\ tt[Len(ss) + 1] = s
      /\ \A k \in 1..Len(ss) : tt[k] = ss[k]
      /\ ss = <<>> <=> Len(ss) = 0
  BY AppendAny
<1> HIDE DEF s, tt
<1>3. tt[1].from = first /\ tt[Len(tt)].to = b
  BY <1>1, <1>2 DEF Tiles
<1>4. \A k \in 1..Len(tt) : IsSection(text, tt[k].from, tt[k].to)
  BY <1>1, <1>2 DEF Tiles
<1>5. ASSUME NEW k \in 1..(Len(tt) - 1) PROVE tt[k + 1].from = tt[k].to + 1
  <2>1. CASE k < Len(ss)
    BY <1>2, <2>1 DEF Tiles
  <2>2. CASE k = Len(ss)
    <3>1. ss # <<>>
      BY <1>2, <2>2
    <3>2. tt[k].to = a - 1
      BY <1>2, <2>2, <3>1 DEF Tiles
    <3>3. tt[k + 1].from = a
      BY <1>1, <1>2, <2>2
    <3> QED
      BY <1>1, <3>2, <3>3
  <2> QED
    BY <1>2, <2>1, <2>2
<1> QED
  BY <1>2, <1>3, <1>4, <1>5 DEF Tiles, tt, s

LEMMA TilesTail ==
    ASSUME NEW text, NEW ss, IsSequence(ss), ss # <<>>, NEW a, NEW b, Tiles(text, ss, a, b)
    PROVE  Tiles(text, Tail(ss), ss[1].to + 1, b)
<1> DEFINE tt == Tail(ss)
<1>1. /\ Len(ss) \in Nat \ {0} /\ Len(tt) = Len(ss) - 1
      /\ \A k \in 1..(Len(ss) - 1) : tt[k] = ss[k + 1]
      /\ tt = <<>> <=> Len(ss) = 1
  BY TailAny
<1> HIDE DEF tt
<1>2. tt # <<>> => tt[1].from = ss[1].to + 1 /\ tt[Len(tt)].to = b
  BY <1>1 DEF Tiles
<1>3. \A k \in 1..Len(tt) : IsSection(text, tt[k].from, tt[k].to)
  BY <1>1 DEF Tiles
<1>4. \A k \in 1..(Len(tt) - 1) : tt[k + 1].from = tt[k].to + 1
  BY <1>1 DEF Tiles
<1>5. tt = <<>> => ss[1].to = b
  BY <1>1 DEF Tiles
<1>6. ss[1].to \in Int
  BY <1>1 DEF Tiles, IsSection
<1>7. IF tt = <<>> THEN ss[1].to + 1 = b + 1
                   ELSE tt[1].from = ss[1].to + 1 /\ tt[Len(tt)].to = b
  BY <1>2, <1>5, <1>6
<1> QED
  BY <1>3, <1>4, <1>7 DEF Tiles, tt

LEMMA NoFences ==
    ASSUME NEW a \in Nat
    PROVE  Fences(a, a - 1) = 0
<1>1. {n \in a..(a - 1) : lines[n].kind = "fence"} = {}
  OBVIOUS
<1> QED
  BY <1>1, FS_EmptySet DEF Fences

LEMMA FenceStep ==
    ASSUME NEW a \in Nat, NEW b \in Nat, a <= b
    PROVE  /\ Fences(a, b - 1) \in Nat
           /\ Fences(a, b) = IF lines[b].kind = "fence" THEN Fences(a, b - 1) + 1
                                                        ELSE Fences(a, b - 1)
<1> DEFINE F == {n \in a..(b - 1) : lines[n].kind = "fence"}
           G == {n \in a..b : lines[n].kind = "fence"}
<1>1. IsFiniteSet(F)
  <2>1. IsFiniteSet(a..(b - 1))
    BY FS_Interval
  <2> QED
    BY <2>1, FS_Subset
<1>2. G = IF lines[b].kind = "fence" THEN F \cup {b} ELSE F
  OBVIOUS
<1>3. b \notin F
  OBVIOUS
<1>4. Cardinality(F) \in Nat
  BY <1>1, FS_CardinalityType
<1>5. Cardinality(F \cup {b}) = Cardinality(F) + 1
  BY <1>1, <1>3, FS_AddElement
<1> QED
  BY <1>2, <1>4, <1>5 DEF Fences

-----------------------------------------------------------------------------
(* A chunk that follows those made so far. *)

\* What Follows says of the text is the same while the text is.
LEMMA SameCuts ==
    ASSUME lines' = lines, NEW n
    PROVE  CutAfter(n)' <=> CutAfter(n)
  BY DEF CutAfter, Fences

LEMMA JoinedStays ==
    ASSUME Joined, UNCHANGED <<lines, chunks>>
    PROVE  Joined' /\ Reached' = Reached /\ \A f : Follows(f)' <=> Follows(f)
<1>1. \A n : CutAfter(n)' <=> CutAfter(n)
  BY SameCuts
<1>2. Reached' = Reached
  BY DEF Reached
<1>3. \A k : Joint(k)' <=> Joint(k)
  BY <1>1 DEF Joint, NextSection, Carried
<1>4. \A f : Follows(f)' <=> Follows(f)
  BY <1>1, <1>2 DEF Follows, Carried
<1> QED
  BY <1>2, <1>3, <1>4 DEF Joined

LEMMA ChunkJoins ==
    ASSUME Shape, Joined, lines' = lines,
           NEW f \in Nat \ {0}, Follows(f), NEW t \in 1..Last, Reached <= t, f <= t,
           NEW c, c.from = f, c.to = t, chunks' = Append(chunks, c)
    PROVE  /\ Joined'
           /\ Reached' = t
           /\ IsSequence(chunks')
           /\ \A k \in 1..Len(chunks') : /\ chunks'[k].from \in 1..Last'
                                         /\ chunks'[k].to \in 1..Last'
           /\ chunks' # <<>> /\ chunks'[Len(chunks')] = c
           /\ Len(chunks') > 1 => chunks'[Len(chunks') - 1].to = Reached
<1>1. /\ IsSequence(chunks') /\ Len(chunks) \in Nat
      /\ chunks' # <<>> /\ Len(chunks') = Len(chunks) + 1 /\ chunks'[Len(chunks) + 1] = c
      /\ \A k \in 1..Len(chunks) : chunks'[k] = chunks[k]
      /\ chunks = <<>> <=> Len(chunks) = 0
  BY AppendAny DEF Shape
<1>2. \A k \in 1..Len(chunks') : /\ chunks'[k].from \in 1..Last'
                                 /\ chunks'[k].to \in 1..Last'
  BY <1>1 DEF Shape, Last
<1>3. Reached' = t
  BY <1>1 DEF Reached
<1>4. Len(chunks') > 1 => chunks'[Len(chunks') - 1].to = Reached
  BY <1>1 DEF Reached
<1>5. chunks'[1].from = 1
  BY <1>1 DEF Joined, Follows
<1>6. ASSUME NEW k \in 1..(Len(chunks') - 1) PROVE Joint(k)'
  <2>0. k \in 1..Len(chunks) /\ chunks'[k] = chunks[k]
        /\ (k > 1 => chunks'[k - 1] = chunks[k - 1])
    BY <1>1
  <2>1. PICK n : n = chunks[k].to
    OBVIOUS
  <2>2. \A m : CutAfter(m)' <=> CutAfter(m)
    BY SameCuts
  <2>3. chunks'[k].to = n
    BY <2>0, <2>1
  <2>4. CASE k < Len(chunks)
    <3>1. Joint(k) /\ chunks'[k + 1] = chunks[k + 1]
      BY <1>1, <2>4 DEF Joined
    <3>2. (NextSection(k)' <=> NextSection(k)) /\ Carried(k)' = Carried(k)
      BY <2>0, <3>1 DEF NextSection, Carried
    <3> QED
      BY <2>0, <2>2, <3>1, <3>2 DEF Joint
  <2>5. CASE k = Len(chunks)
    <3>1. chunks # <<>> /\ n = Reached /\ chunks'[k + 1].from = f /\ chunks'[k + 1].to = t
      BY <1>1, <2>1, <2>5 DEF Reached
    <3>2. n \in Nat /\ Carried(k)' = Carried(Len(chunks))
      BY <2>0, <2>1, <2>5 DEF Shape, Carried
    <3> QED
      BY <2>0, <2>2, <2>3, <2>5, <3>1, <3>2 DEF Follows, Joint, NextSection
  <2> QED
    BY <2>0, <2>4, <2>5
<1> QED
  BY <1>1, <1>2, <1>3, <1>4, <1>5, <1>6 DEF Joined

-----------------------------------------------------------------------------
(* The steps. *)

LEMMA ChunkInit ==
    ASSUME Init
    PROVE  ChunkInv
<1> USE DEF Last
<1>1. lines \in Seq(Line) /\ Last \in Nat \ {0}
  BY ChunkerAssumption DEF Init
<1>2. IsSequence(<<>>)
  <2>1. <<>> \in Seq({})
    BY EmptySeq
  <2> QED
    BY <2>1 DEF IsSequence
<1>3. sections = <<>> /\ chunks = <<>> /\ line = 1 /\ from = 1 /\ phase = "split" /\ inCode = FALSE
  BY DEF Init
<1>4. Shape
  BY <1>1, <1>2, <1>3 DEF Shape
<1>5. Tiles(lines, sections, 1, from - 1)
  BY <1>3 DEF Tiles
<1>6. Splitting
  BY <1>1, <1>3, <1>5 DEF Splitting
<1>7. Joined
  BY <1>3 DEF Joined
<1> QED
  BY <1>3, <1>4, <1>6, <1>7 DEF ChunkInv, Progress

\* A step of the first loop makes no chunk.
LEMMA SplitSteps ==
    ASSUME ChunkInv, SplitLine \/ SplitEnd
    PROVE  ChunkInv'
<1> USE DEF Last
<1>1. /\ Splitting /\ Shape /\ Joined /\ phase = "split"
      /\ UNCHANGED <<lines, chunks, inCode>> /\ inCode \in BOOLEAN
      /\ chunks = <<>> /\ Last \in Nat \ {0} /\ Len(lines) = Last
  BY DEF ChunkInv, Progress, Splitting, Shape, SplitLine, SplitEnd
<1>2. Joined'
  BY <1>1 DEF Joined
<1>3. /\ line \in 1..(Last + 1) /\ from \in 1..(Last + 1)
      /\ from < line \/ (line = 1 /\ from = 1)
      /\ from = 1 \/ lines[from].kind = "header"
      /\ \A m \in (from + 1)..(line - 1) : lines[m].kind # "header"
      /\ Tiles(lines, sections, 1, from - 1)
  BY <1>1 DEF Splitting
<1>4. ASSUME NEW b \in Nat, from <= b, b < line,
             sections' = Append(sections, [from |-> from, to |-> b])
      PROVE  IsSequence(sections') /\ Tiles(lines', sections', 1, b)
  <2>1. IsSection(lines, from, b)
    BY <1>1, <1>3, <1>4 DEF IsSection
  <2>2. IsSequence(sections')
    BY <1>1, <1>4, AppendAny DEF Shape
  <2> QED
    BY <1>1, <1>3, <1>4, <2>1, <2>2, TilesAppend DEF Shape
<1>5. CASE SplitLine /\ lines[line].kind = "header" /\ from < line
  <2>1. /\ sections' = Append(sections, [from |-> from, to |-> line - 1])
        /\ from' = line /\ line' = line + 1 /\ line <= Last /\ phase' = "split"
    BY <1>1, <1>5 DEF SplitLine
  <2>2. IsSequence(sections') /\ Tiles(lines', sections', 1, from' - 1)
    BY <1>1, <1>3, <1>4, <1>5, <2>1
  <2>3. Splitting'
    BY <1>1, <1>3, <1>5, <2>1, <2>2 DEF Splitting
  <2>4. Shape'
    BY <1>1, <2>2 DEF Shape
  <2> QED
    BY <1>1, <1>2, <2>1, <2>3, <2>4 DEF ChunkInv, Progress
<1>6. CASE SplitLine /\ ~ (lines[line].kind = "header" /\ from < line)
  <2>1. UNCHANGED <<sections, from>> /\ line' = line + 1 /\ line <= Last /\ phase' = "split"
    BY <1>1, <1>6 DEF SplitLine
  <2>2. Splitting'
    BY <1>1, <1>3, <1>6, <2>1 DEF Splitting
  <2>3. Shape'
    BY <1>1, <2>1 DEF Shape
  <2> QED
    BY <1>1, <1>2, <2>1, <2>2, <2>3 DEF ChunkInv, Progress
<1>7. CASE SplitEnd
  <2>1. /\ sections' = Append(sections, [from |-> from, to |-> Last])
        /\ phase' = "sections" /\ line = Last + 1 /\ from <= Last
    BY <1>1, <1>3, <1>7 DEF SplitEnd
  <2>2. IsSequence(sections') /\ Tiles(lines', sections', 1, Last)
    BY <1>1, <1>3, <1>4, <2>1
  <2>3. Reached' = 0
    BY <1>1 DEF Reached
  <2>4. Tiles(lines', sections', Reached' + 1, Last')
    BY <1>1, <2>2, <2>3
  <2>5. Shape'
    BY <1>1, <2>2 DEF Shape
  <2> QED
    BY <1>1, <1>2, <2>1, <2>4, <2>5 DEF ChunkInv, Progress
<1> QED
  BY <1>5, <1>6, <1>7

\* Where the next section starts the next chunk may.
LEMMA SectionFollows ==
    ASSUME Shape, sections # <<>>, Tiles(lines, sections, Reached + 1, Last)
    PROVE  /\ Reached \in Nat
           /\ sections[1].from = Reached + 1
           /\ IsSection(lines, sections[1].from, sections[1].to)
           /\ Follows(sections[1].from)
           /\ Tiles(lines, sections, sections[1].from, Last)
<1>1. Len(sections) \in Nat \ {0}
  BY TailAny DEF Shape
<1>2. sections[1].from = Reached + 1 /\ IsSection(lines, sections[1].from, sections[1].to)
  BY <1>1 DEF Tiles
<1>3. Reached \in Nat /\ (chunks # <<>> => Reached # 0)
  BY AppendAny DEF Shape, Reached
<1>4. chunks # <<>> => lines[sections[1].from].kind = "header"
  BY <1>2, <1>3 DEF IsSection
<1>5. Reached - (Reached + 1) + 1 = 0
  BY <1>3
<1>6. Follows(sections[1].from)
  BY <1>2, <1>3, <1>4, <1>5 DEF Follows, Reached
<1> QED
  BY <1>2, <1>3, <1>6 DEF Tiles

LEMMA WholeSectionStep ==
    ASSUME ChunkInv, WholeSection
    PROVE  ChunkInv'
<1> USE DEF Last
<1> DEFINE s == sections[1]
           c == [from |-> s.from, to |-> s.to, size |-> Width(s.from, s.to), part |-> FALSE]
<1>1. /\ Shape /\ Joined /\ inCode \in BOOLEAN
      /\ sections # <<>> /\ Tiles(lines, sections, Reached + 1, Last)
      /\ phase' = "sections" /\ sections' = Tail(sections) /\ UNCHANGED <<lines, inCode>>
      /\ Head(sections) = s
  BY TailAny DEF ChunkInv, Progress, Shape, WholeSection
<1>2. chunks' = Append(chunks, c)
  BY <1>1 DEF WholeSection
<1>3. c.from = s.from /\ c.to = s.to
  OBVIOUS
<1>4. /\ Reached \in Nat /\ s.from = Reached + 1 /\ Follows(s.from)
      /\ s.from \in Nat \ {0} /\ s.to \in 1..Last /\ s.from <= s.to /\ Reached <= s.to
  BY <1>1, SectionFollows DEF Shape, IsSection
<1> HIDE DEF s, c
<1>5. /\ Joined' /\ Reached' = s.to /\ IsSequence(chunks')
      /\ \A k \in 1..Len(chunks') : /\ chunks'[k].from \in 1..Last'
                                    /\ chunks'[k].to \in 1..Last'
  BY <1>1, <1>2, <1>3, <1>4, ChunkJoins
<1>6. IsSequence(sections') /\ Tiles(lines, sections', s.to + 1, Last)
  BY <1>1, TailAny, TilesTail DEF s, Shape
<1>7. Tiles(lines', sections', Reached' + 1, Last')
  BY <1>1, <1>5, <1>6
<1>8. Shape'
  BY <1>1, <1>5, <1>6 DEF Shape
<1> QED
  BY <1>1, <1>5, <1>7, <1>8 DEF ChunkInv, Progress

LEMMA OpenSectionStep ==
    ASSUME ChunkInv, OpenSection
    PROVE  ChunkInv'
<1> USE DEF Last
<1>1. /\ Shape /\ Joined
      /\ sections # <<>> /\ Tiles(lines, sections, Reached + 1, Last)
      /\ phase' = "parts" /\ UNCHANGED <<lines, sections, chunks>> /\ inCode' = FALSE
      /\ Head(sections) = sections[1]
  BY TailAny DEF ChunkInv, Progress, Shape, OpenSection
<1>2. line' = sections[1].from /\ from' = sections[1].from
  BY <1>1 DEF OpenSection
<1>3. /\ Reached \in Nat /\ sections[1].from = Reached + 1
      /\ Follows(sections[1].from) /\ Tiles(lines, sections, sections[1].from, Last)
      /\ IsSection(lines, sections[1].from, sections[1].to)
  BY <1>1, SectionFollows
<1>4. /\ sections[1].from \in 1..Last /\ sections[1].to \in 1..Last
      /\ sections[1].from <= sections[1].to
  BY <1>1, <1>3 DEF IsSection, Shape
<1>5. Reached' = Reached /\ Joined' /\ Shape' /\ \A f : Follows(f)' <=> Follows(f)
  BY <1>1, JoinedStays DEF Shape
<1>6. Follows(from)'
  BY <1>2, <1>3, <1>5
<1>7. Fences(sections[1].from, line - 1)' = 0
  <2>1. PICK n \in Nat : n = sections[1].from
    BY <1>4
  <2>2. (sections[1].from)' = n /\ line' = n
    BY <1>1, <1>2, <2>1
  <2>3. Fences(n, n - 1)' = 0
    BY NoFences, <1>1, <2>1 DEF Fences
  <2> QED
    BY <2>2, <2>3
<1>8. Cutting'
  BY <1>1, <1>2, <1>3, <1>4, <1>5, <1>6, <1>7 DEF Cutting, Shape
<1> QED
  BY <1>1, <1>5, <1>8 DEF ChunkInv, Progress

LEMMA FinishStep ==
    ASSUME ChunkInv, Finish
    PROVE  ChunkInv'
<1>1. /\ Shape /\ Joined /\ inCode \in BOOLEAN /\ sections = <<>>
      /\ Tiles(lines, sections, Reached + 1, Last)
      /\ phase' = "done" /\ UNCHANGED <<lines, sections, chunks, inCode>>
  BY DEF ChunkInv, Progress, Finish
<1>2. Reached \in Nat /\ Last \in Nat
  BY <1>1, AppendAny DEF Shape, Reached
<1>3. Reached = Last
  BY <1>1, <1>2 DEF Tiles
<1>4. Reached' = Reached /\ Joined' /\ Shape' /\ Last' = Last
  BY <1>1, JoinedStays DEF Shape, Last
<1> QED
  BY <1>1, <1>3, <1>4 DEF ChunkInv, Progress

LEMMA CloseSectionStep ==
    ASSUME ChunkInv, CloseSection
    PROVE  ChunkInv'
<1> USE DEF Last
<1> DEFINE s == sections[1]
           c == [from |-> from, to |-> line - 1, size |-> size, part |-> TRUE]
<1>1. /\ Shape /\ Joined /\ inCode \in BOOLEAN /\ Cutting
      /\ sections # <<>> /\ sections' = Tail(sections)
      /\ phase' = "sections" /\ UNCHANGED <<lines, inCode>>
      /\ Head(sections) = s /\ Len(sections) \in Nat \ {0}
  BY TailAny DEF ChunkInv, Progress, Shape, CloseSection, Cutting
<1>2. IsSection(lines, s.from, s.to)
  BY <1>1 DEF Cutting, Tiles
<1>3. s.to \in 1..Last /\ s.from \in Nat \ {0} /\ s.from <= s.to /\ Last \in Nat
  BY <1>1, <1>2 DEF IsSection, Shape
<1>4. Reached \in Nat
  BY <1>1, AppendAny DEF Shape, Reached
<1>5. line = s.to + 1 /\ from \in Nat \ {0} /\ from <= line
  BY <1>1, <1>3 DEF Cutting, CloseSection
<1>6. IsSequence(sections') /\ Tiles(lines', sections', s.to + 1, Last')
  BY <1>1, TailAny, TilesTail DEF Cutting, Shape
<1>7. Follows(from) /\ Reached < line /\ s.from <= Reached + 1
  BY <1>1 DEF Cutting
<1>8. CASE LinesLeft
  <2>1. chunks' = Append(chunks, c)
    BY <1>8 DEF CloseSection
  <2>2. c.from = from /\ c.to = s.to /\ Reached <= s.to
    BY <1>3, <1>4, <1>5, <1>7
  <2>a. from <= s.to
    BY <1>3, <1>5, <1>8 DEF LinesLeft
  <2> HIDE DEF s, c
  <2>3. /\ Joined' /\ Reached' = s.to /\ IsSequence(chunks')
        /\ \A k \in 1..Len(chunks') : /\ chunks'[k].from \in 1..Last'
                                      /\ chunks'[k].to \in 1..Last'
    BY <1>1, <1>3, <1>5, <1>7, <2>1, <2>2, <2>a, ChunkJoins
  <2>4. Shape'
    BY <1>1, <1>6, <2>3 DEF Shape
  <2> QED
    BY <1>1, <1>6, <2>3, <2>4 DEF ChunkInv, Progress
<1>9. CASE ~ LinesLeft
  <2>1. chunks' = chunks /\ from = s.to + 1
    BY <1>3, <1>5, <1>9 DEF CloseSection, LinesLeft
  <2>2. Reached = s.to
    BY <1>3, <1>4, <1>5, <1>7, <2>1 DEF Follows, Reached
  <2>3. Reached' = Reached /\ Joined' /\ Shape'
    BY <1>1, <1>6, <2>1, JoinedStays DEF Shape
  <2> QED
    BY <1>1, <1>6, <2>2, <2>3 DEF ChunkInv, Progress
<1> QED
  BY <1>8, <1>9

\* What a line does to the count of fences is what it does to in_code_block.
LEMMA PartLineCode ==
    ASSUME ChunkInv, PartLine
    PROVE  /\ inCode' \in BOOLEAN
           /\ inCode' <=> Fences(sections[1].from, line) % 2 = 1
           /\ Fences(sections[1].from, line) \in Nat
<1>1. /\ Cutting /\ Shape /\ inCode \in BOOLEAN
      /\ inCode' = IF lines[line].kind = "fence" THEN ~ inCode ELSE inCode
  BY DEF ChunkInv, Progress, PartLine
<1>2. Len(sections) \in Nat \ {0}
  BY <1>1, TailAny DEF Cutting, Shape
<1>3. PICK n \in Nat : n = sections[1].from
  BY <1>1, <1>2 DEF Cutting, Tiles, IsSection
<1>4. PICK m \in Nat : m = line
  BY <1>1 DEF Cutting, Shape
<1>5. n <= m /\ (inCode <=> Fences(n, m - 1) % 2 = 1)
  BY <1>1, <1>3, <1>4 DEF Cutting, Shape
<1>6. /\ Fences(n, m - 1) \in Nat
      /\ Fences(n, m) = IF lines[m].kind = "fence" THEN Fences(n, m - 1) + 1
                                                   ELSE Fences(n, m - 1)
  BY <1>5, FenceStep
<1>7. \A k \in Nat : (k + 1) % 2 = 1 <=> ~ (k % 2 = 1)
  OBVIOUS
<1>8. inCode' <=> Fences(n, m) % 2 = 1
  BY <1>1, <1>4, <1>5, <1>6, <1>7
<1>9. Fences(sections[1].from, line) = Fences(n, m)
  BY <1>3, <1>4
<1>10. Fences(n, m) \in Nat
  BY <1>6
<1>11. inCode' \in BOOLEAN
  BY <1>1
<1> QED
  BY <1>8, <1>9, <1>10, <1>11

\* The facts of a step of the second loop, whether it cuts or not.
LEMMA PartLineFacts ==
    ASSUME ChunkInv, PartLine
    PROVE  /\ Shape /\ Joined /\ Follows(from) /\ Reached \in Nat
           /\ UNCHANGED <<lines, sections>> /\ phase' = "parts" /\ line' = line + 1
           /\ sections # <<>> /\ Tiles(lines, sections, sections[1].from, Last)
           /\ IsSection(lines, sections[1].from, sections[1].to)
           /\ sections[1].from \in Nat \ {0} /\ sections[1].to \in Nat /\ Last \in Nat
           /\ line \in Nat \ {0} /\ from \in Nat \ {0} /\ from <= line
           /\ sections[1].from <= from /\ line <= sections[1].to /\ sections[1].to <= Last
           /\ sections[1].from <= Reached + 1 /\ Reached < line
<1>1. /\ Cutting /\ Shape /\ Joined
      /\ UNCHANGED <<lines, sections>> /\ phase' = "parts" /\ line' = line + 1
      /\ line <= Head(sections).to
  BY DEF ChunkInv, Progress, PartLine
<1>2. Len(sections) \in Nat \ {0} /\ Head(sections) = sections[1]
  BY <1>1, TailAny DEF Cutting, Shape
<1>3. IsSection(lines, sections[1].from, sections[1].to)
  BY <1>1, <1>2 DEF Cutting, Tiles
<1>4. Reached \in Nat
  BY <1>1, AppendAny DEF Shape, Reached
<1>5. /\ sections[1].from \in Nat \ {0} /\ sections[1].to \in Nat /\ Last \in Nat
      /\ sections[1].to <= Last
  BY <1>1, <1>3 DEF IsSection, Shape, Last
<1>6. /\ Follows(from) /\ sections # <<>> /\ Tiles(lines, sections, sections[1].from, Last)
      /\ sections[1].from <= from /\ from <= line
      /\ sections[1].from <= Reached + 1 /\ Reached < line
      /\ line \in Nat \ {0} /\ from \in Nat \ {0}
  BY <1>1, <1>5 DEF Cutting
<1> QED
  BY <1>1, <1>2, <1>3, <1>4, <1>5, <1>6

\* The line the next chunk starts with, as arithmetic: never before the chunk that ends at
\* `n` starts, never past the next line, and with an overlap of none or of `o` lines.
LEMMA OverlapStart ==
    ASSUME NEW n \in Nat \ {0}, NEW f \in Nat \ {0}, f <= n, NEW o \in Nat,
           NEW g, g = IF n - f + 1 > o THEN IF o = 0 THEN f ELSE n - o + 1 ELSE n + 1
    PROVE  /\ g \in Nat \ {0} /\ f <= g /\ g <= n + 1
           /\ o # 0 => n - g + 1 = IF n - f + 1 > o THEN o ELSE 0
<1>1. CASE n - f + 1 > o /\ o = 0
  <2>1. g = f
    BY <1>1
  <2> QED
    BY <1>1, <2>1
<1>2. CASE n - f + 1 > o /\ o # 0
  <2>1. g = n - o + 1
    BY <1>2
  <2>2. o \in Int /\ n - g + 1 = o
    BY <2>1
  <2>3. g >= 1 /\ f <= g /\ g <= n + 1 /\ g \in Int
    BY <1>2, <2>1
  <2> QED
    BY <2>2, <2>3
<1>3. CASE ~ (n - f + 1 > o)
  <2>1. g = n + 1
    BY <1>3
  <2> QED
    BY <2>1
<1> QED
  BY <1>1, <1>2, <1>3

LEMMA PartLineStep ==
    ASSUME ChunkInv, PartLine
    PROVE  ChunkInv'
<1> DEFINE s == sections[1]
           grown == size + lines[line].width
           c == [from |-> from, to |-> line, size |-> grown, part |-> TRUE]
<1>1. /\ Shape /\ Joined /\ Follows(from) /\ Reached \in Nat
      /\ UNCHANGED <<lines, sections>> /\ phase' = "parts" /\ line' = line + 1
      /\ sections # <<>> /\ Tiles(lines, sections, s.from, Last)
      /\ IsSection(lines, s.from, s.to)
      /\ s.from \in Nat \ {0} /\ s.to \in Nat /\ Last \in Nat
      /\ line \in Nat \ {0} /\ from \in Nat \ {0} /\ from <= line
      /\ s.from <= from /\ line <= s.to /\ s.to <= Last
      /\ s.from <= Reached + 1 /\ Reached < line
  BY PartLineFacts
<1>2. /\ inCode' \in BOOLEAN
      /\ inCode' <=> Fences(s.from, line) % 2 = 1
      /\ Fences(s.from, line) \in Nat
  BY PartLineCode
<1>3. line' - 1 = line /\ s' = s /\ Last' = Last
  BY <1>1 DEF Last
<1>4. \A a, b : Fences(a, b)' = Fences(a, b)
  BY <1>1 DEF Fences
<1>5. CASE grown > ChunkSize /\ MaySplit(inCode', inTable')
  <2>1. /\ chunks' = Append(chunks, c) /\ from' = OverlapFrom
        /\ inCode' = FALSE /\ lines[line].kind = "blank"
    BY <1>2, <1>5 DEF PartLine, MaySplit
  <2>2. c.from = from /\ c.to = line
    OBVIOUS
  <2>3. s.from \in 1..line /\ (s.from = 1 \/ lines[s.from].kind = "header")
    BY <1>1 DEF IsSection
  <2>4. CutAfter(line)
    <3>1. Fences(s.from, line) % 2 = 0
      BY <1>2, <2>1
    <3> QED
      BY <2>1, <2>3, <3>1 DEF CutAfter
  <2> HIDE DEF c, grown
  <2>5. /\ Joined' /\ Reached' = line /\ IsSequence(chunks') /\ chunks' # <<>>
        /\ \A k \in 1..Len(chunks') : /\ chunks'[k].from \in 1..Last'
                                      /\ chunks'[k].to \in 1..Last'
        /\ Len(chunks') > 1 => chunks'[Len(chunks') - 1].to = Reached
        /\ chunks'[Len(chunks')] = c
    BY <1>1, <2>1, <2>2, ChunkJoins
  <2>6. /\ from' \in Nat \ {0} /\ from <= from' /\ from' <= line + 1
        /\ ChunkOverlap # 0 =>
             line - from' + 1 = IF line - from + 1 > ChunkOverlap THEN ChunkOverlap ELSE 0
    <3>1. ChunkOverlap \in Nat
      BY ChunkerAssumption
    <3>2. line \in Nat \ {0} /\ from \in Nat \ {0} /\ from <= line
      BY <1>1
    <3>3. from' = IF line - from + 1 > ChunkOverlap
                    THEN IF ChunkOverlap = 0 THEN from ELSE line - ChunkOverlap + 1
                    ELSE line + 1
      BY <2>1 DEF OverlapFrom
    <3> QED
      BY <3>1, <3>2, <3>3, OverlapStart
  <2>7. \A n : CutAfter(n)' <=> CutAfter(n)
    BY <1>1, SameCuts
  <2>8. Follows(from)'
    <3>1. Carried(Len(chunks))' = IF line - from + 1 > ChunkOverlap THEN ChunkOverlap ELSE 0
      BY <2>2, <2>5 DEF Carried
    <3> QED
      BY <1>1, <2>4, <2>5, <2>6, <2>7, <3>1 DEF Follows
  <2>9. Shape'
    BY <1>1, <1>3, <2>5 DEF Shape
  <2>10. Fences(sections[1].from, line - 1)' = Fences(s.from, line)
    BY <1>3, <1>4
  <2>11. Cutting'
    <3>1. inCode' <=> Fences(sections[1].from, line - 1)' % 2 = 1
      BY <1>2, <2>10
    <3> QED
      BY <1>1, <1>3, <2>5, <2>6, <2>8, <3>1 DEF Cutting
  <2> QED
    BY <1>1, <1>2, <2>5, <2>9, <2>11 DEF ChunkInv, Progress
<1>6. CASE ~ (grown > ChunkSize /\ MaySplit(inCode', inTable'))
  <2>1. UNCHANGED <<chunks, from>>
    BY <1>6 DEF PartLine
  <2>2. Joined' /\ Reached' = Reached /\ \A f : Follows(f)' <=> Follows(f)
    BY <1>1, <2>1, JoinedStays
  <2>3. Follows(from)'
    BY <1>1, <2>1, <2>2
  <2>4. Shape'
    BY <1>1, <1>3, <2>1 DEF Shape
  <2>5. Fences(sections[1].from, line - 1)' = Fences(s.from, line)
    BY <1>3, <1>4
  <2>6. Cutting'
    BY <1>1, <1>2, <1>3, <2>1, <2>2, <2>3, <2>5 DEF Cutting
  <2> QED
    BY <1>1, <1>2, <2>2, <2>4, <2>6 DEF ChunkInv, Progress
<1> QED
  BY <1>5, <1>6

LEMMA ChunkStep ==
    ASSUME ChunkInv, [Next]_vars
    PROVE  ChunkInv'
<1>1. CASE SplitLine \/ SplitEnd
  BY <1>1, SplitSteps
<1>2. CASE WholeSection
  BY <1>2, WholeSectionStep
<1>3. CASE OpenSection
  BY <1>3, OpenSectionStep
<1>4. CASE PartLine
  BY <1>4, PartLineStep
<1>5. CASE CloseSection
  BY <1>5, CloseSectionStep
<1>6. CASE Finish
  BY <1>6, FinishStep
<1>7. CASE UNCHANGED vars
  <2>1. Joined' /\ Reached' = Reached /\ (\A f : Follows(f)' <=> Follows(f)) /\ Last' = Last
    BY <1>7, JoinedStays DEF ChunkInv, Progress, vars, Last
  <2>2. Shape'
    BY <1>7, <2>1 DEF ChunkInv, Shape, vars
  <2>3. \A a, b : Fences(a, b)' = Fences(a, b)
    BY <1>7 DEF Fences, vars
  <2>4. Progress'
    BY <1>7, <2>1, <2>3 DEF ChunkInv, Progress, Splitting, Cutting, vars
  <2> QED
    BY <2>2, <2>4 DEF ChunkInv
<1> QED
  BY <1>1, <1>2, <1>3, <1>4, <1>5, <1>6, <1>7 DEF Next

-----------------------------------------------------------------------------
(* The theorems. *)

\* No line of a text is lost, at any chunk size and overlap, and no text is left
\* without a chunk.
THEOREM TextCovered == Spec => []NothingLost
<1>1. ASSUME ChunkInv PROVE NothingLost
  <2>1. CASE phase = "done"
    <3>1. Joined /\ Reached = Last /\ Last \in Nat \ {0}
      BY <1>1, <2>1 DEF ChunkInv, Progress, Shape
    <3>2. chunks # <<>>
      BY <3>1 DEF Reached
    <3> QED
      BY <3>1, <3>2 DEF NothingLost, CoverUpTo, Joined, Joint, Reached
  <2> QED
    BY <2>1 DEF NothingLost
<1> QED
  BY <1>1, ChunkInit, ChunkStep, PTL DEF Spec

\* Two chunks of one section are joined by a cut, and the next section starts
\* with a header after the last line.
LEMMA ContinuedIsCut ==
    ASSUME ChunkInv, NEW k \in DOMAIN chunks, Continued(k)
    PROVE  /\ k \in 1..(Len(chunks) - 1) /\ k \in Nat /\ Joint(k) /\ ~ NextSection(k)
           /\ chunks[k].to \in Nat /\ chunks[k + 1].from \in Nat
<1>1. Len(chunks) \in Nat /\ DOMAIN chunks = 1..Len(chunks)
  <2>1. PICK S : chunks \in Seq(S)
    BY DEF ChunkInv, Shape, IsSequence
  <2> QED
    BY <2>1
<1>2. k \in 1..(Len(chunks) - 1) /\ k \in Nat /\ k + 1 \in 1..Len(chunks)
  BY <1>1 DEF Continued
<1>3. Joint(k)
  BY <1>2 DEF ChunkInv, Progress, Joined
<1>4. chunks[k].to \in Nat /\ chunks[k + 1].from \in Nat
  BY <1>1, <1>2 DEF ChunkInv, Shape
<1>5. ~ NextSection(k)
  BY <1>4 DEF Continued, NextSection
<1> QED
  BY <1>2, <1>3, <1>4, <1>5

\* Two parts of a section share exactly CHUNK_OVERLAP lines if the first has more,
\* none if it has not, unless CHUNK_OVERLAP is 0 (a slice that starts at -0 is the
\* whole part), and only the last part of a section can be all overlap.
THEOREM OverlapKept == ChunkOverlap # 0 /\ Spec => []PartsOverlap
<1> SUFFICES ASSUME ChunkOverlap # 0 PROVE Spec => []PartsOverlap
  OBVIOUS
<1>1. ASSUME ChunkInv PROVE PartsOverlap
  <2>1. ASSUME NEW k \in DOMAIN chunks, Continued(k)
        PROVE  /\ chunks[k].to - chunks[k + 1].from + 1 = Carried(k)
               /\ k + 2 \in DOMAIN chunks /\ Continued(k + 1) => chunks[k].to < chunks[k + 1].to
    <3>1. /\ k \in 1..(Len(chunks) - 1) /\ k \in Nat /\ Joint(k) /\ k + 1 \in DOMAIN chunks
          /\ ~ NextSection(k)
      BY <1>1, <2>1, ContinuedIsCut DEF Continued
    <3>2. ASSUME Continued(k + 1) PROVE chunks[k].to < chunks[k + 1].to
      <4>1. Joint(k + 1) /\ ~ NextSection(k + 1)
        BY <1>1, <3>1, <3>2, ContinuedIsCut
      <4>2. k + 1 > 1 /\ (k + 1) - 1 = k
        BY <3>1
      <4> QED
        BY <4>1, <4>2 DEF Joint
    <3> QED
      BY <3>1, <3>2 DEF Joint
  <2> QED
    BY <2>1 DEF PartsOverlap
<1> QED
  BY <1>1, ChunkInit, ChunkStep, PTL DEF Spec

\* The fences of two runs of lines add up.
LEMMA FencesAdd ==
    ASSUME NEW a \in Nat, NEW b \in Nat, NEW c \in Nat, a <= b, b <= c + 1
    PROVE  /\ Fences(a, b - 1) \in Nat /\ Fences(b, c) \in Nat
           /\ Fences(a, c) = Fences(a, b - 1) + Fences(b, c)
<1> DEFINE F == {n \in a..(b - 1) : lines[n].kind = "fence"}
           G == {n \in b..c : lines[n].kind = "fence"}
           H == {n \in a..c : lines[n].kind = "fence"}
<1>1. IsFiniteSet(F) /\ IsFiniteSet(G)
  <2>1. IsFiniteSet(a..(b - 1)) /\ IsFiniteSet(b..c)
    BY FS_Interval
  <2> QED
    BY <2>1, FS_Subset
<1>2. H = F \cup G /\ F \cap G = {}
  OBVIOUS
<1>3. Cardinality(F) \in Nat /\ Cardinality(G) \in Nat
  BY <1>1, FS_CardinalityType
<1> HIDE DEF F, G, H
<1>4. Cardinality(F \cup G) = Cardinality(F) + Cardinality(G) - Cardinality(F \cap G)
  BY <1>1, FS_Union
<1>5. Cardinality(F \cap G) = 0
  BY <1>2, FS_EmptySet
<1>6. Cardinality(H) = Cardinality(F) + Cardinality(G)
  BY <1>2, <1>3, <1>4, <1>5
<1> QED
  BY <1>3, <1>6 DEF Fences, F, G, H

\* A header outside the blocks stands where as many fences have closed as opened.
LEMMA EvenBeforeHeader ==
    ASSUME Shape, HeadersOutside, NEW n \in 1..Last, lines[n].kind = "header"
    PROVE  Fences(1, n - 1) \in Nat /\ Fences(1, n - 1) % 2 = 0
<1>1. n \in Nat /\ 1 <= n /\ n \in DOMAIN lines
  BY DEF Shape, Last
<1>2. Fences(1, n - 1) \in Nat /\ Fences(1, n) = Fences(1, n - 1)
  BY <1>1, FenceStep
<1>3. Fences(1, n) % 2 # 1
  BY <1>1 DEF HeadersOutside, InBlock
<1> QED
  BY <1>2, <1>3

\* A chunk ends after a blank line or before a header, and outside the code blocks
\* of a text none of whose blocks holds a line like a header: counting the fences
\* from the start of the section, as in_code_block does, is then counting them all.
THEOREM BlocksWhole == Spec => []CutsBetweenBlocks
<1>1. ASSUME ChunkInv, NEW k \in DOMAIN chunks, k + 1 \in DOMAIN chunks
      PROVE  /\ \/ lines[chunks[k].to].kind = "blank"
                \/ lines[chunks[k].to + 1].kind = "header"
             /\ HeadersOutside => ~ InBlock(chunks[k].to)
  <2> DEFINE n == chunks[k].to
  <2>1. Len(chunks) \in Nat /\ DOMAIN chunks = 1..Len(chunks)
    <3>1. PICK S : chunks \in Seq(S)
      BY <1>1 DEF ChunkInv, Shape, IsSequence
    <3> QED
      BY <3>1
  <2>2. k \in 1..(Len(chunks) - 1) /\ k + 1 \in 1..Len(chunks)
    BY <1>1, <2>1
  <2>3. Shape /\ Joint(k) /\ n \in 1..Last /\ Last \in Nat
    BY <1>1, <2>1, <2>2 DEF ChunkInv, Progress, Joined, Shape
  <2>4. CASE NextSection(k)
    <3>1. lines[n + 1].kind = "header"
      BY <2>4 DEF NextSection
    <3>2. ASSUME HeadersOutside PROVE ~ InBlock(n)
      <4>1. n + 1 \in 1..Last
        BY <1>1, <2>2, <2>3, <2>4 DEF NextSection, ChunkInv, Shape
      <4>2. PICK m : m = n
        OBVIOUS
      <4>3. m \in Nat /\ m + 1 \in 1..Last /\ lines[m + 1].kind = "header"
        BY <2>3, <3>1, <4>1, <4>2
      <4>4. Fences(1, (m + 1) - 1) % 2 = 0
        BY <2>3, <3>2, <4>3, EvenBeforeHeader
      <4>5. (m + 1) - 1 = m
        BY <4>3
      <4>6. Fences(1, m) % 2 = 0
        BY <4>4, <4>5
      <4> QED
        BY <4>2, <4>6 DEF InBlock
    <3> QED
      BY <3>1, <3>2
  <2>5. CASE CutAfter(n)
    <3>1. PICK m \in 1..Last : m = n
      BY <2>3
    <3>2. lines[m].kind = "blank" /\ CutAfter(m)
      BY <2>5, <3>1 DEF CutAfter
    <3>3. PICK s \in 1..m : (s = 1 \/ lines[s].kind = "header") /\ Fences(s, m) % 2 = 0
      BY <3>2 DEF CutAfter
    <3>n. s \in Nat /\ m \in Nat /\ 1 \in Nat /\ 1 <= s /\ s <= m + 1
      BY <2>3
    <3>4. /\ Fences(1, s - 1) \in Nat /\ Fences(s, m) \in Nat
          /\ Fences(1, m) = Fences(1, s - 1) + Fences(s, m)
      BY <3>n, FencesAdd
    <3>5. ASSUME HeadersOutside PROVE Fences(1, s - 1) % 2 = 0
      <4>1. CASE s = 1
        BY <4>1, NoFences
      <4>2. CASE s # 1
        BY <2>3, <3>1, <3>3, <3>5, <4>2, EvenBeforeHeader
      <4> QED
        BY <4>1, <4>2
    <3>6. \A x, y \in Nat : x % 2 = 0 /\ y % 2 = 0 => (x + y) % 2 # 1
      OBVIOUS
    <3>7. HeadersOutside => Fences(1, m) % 2 # 1
      BY <3>3, <3>4, <3>5, <3>6
    <3> QED
      BY <3>1, <3>2, <3>7 DEF InBlock
  <2> QED
    BY <2>3, <2>4, <2>5 DEF Joint
<1>2. ChunkInv => CutsBetweenBlocks
  BY <1>1 DEF CutsBetweenBlocks
<1> QED
  BY <1>2, ChunkInit, ChunkStep, PTL DEF Spec

-----------------------------------------------------------------------------
(* Sizes.  A line's characters are told apart by their places, so that those *)
(* of lines a..b are the union of disjoint sets.                             *)

LEMMA LineWidth ==
    ASSUME lines \in Seq(Line), NEW n \in 1..Last
    PROVE  /\ IsFiniteSet(Characters(n))
           /\ Cardinality(Characters(n)) = lines[n].width
           /\ lines[n].width \in Nat
<1>1. PICK w \in Nat : w = lines[n].width
  BY ChunkerAssumption DEF Last
<1>2. IsFiniteSet(1..w) /\ Cardinality(1..w) = w
  BY FS_Interval
<1>3. IsFiniteSet({n}) /\ Cardinality({n}) = 1
  BY FS_Singleton
<1>4. IsFiniteSet({n} \X (1..w)) /\ Cardinality({n} \X (1..w)) = 1 * w
  BY <1>2, <1>3, FS_Product
<1> QED
  BY <1>1, <1>4 DEF Characters

LEMMA WidthNone ==
    ASSUME NEW a \in Nat
    PROVE  Width(a, a - 1) = 0
<1>1. UNION {Characters(n) : n \in a..(a - 1)} = {}
  OBVIOUS
<1> QED
  BY <1>1, FS_EmptySet DEF Width

LEMMA WidthFinite ==
    ASSUME lines \in Seq(Line), NEW a \in Nat \ {0}, NEW b \in Nat, b <= Last
    PROVE  /\ IsFiniteSet(UNION {Characters(n) : n \in a..b})
           /\ Width(a, b) \in Nat
<1> DEFINE S == {Characters(n) : n \in a..b}
           f == [n \in a..b |-> Characters(n)]
<1>1. f \in Surjection(a..b, S)
  BY Fun_IsSurj
<1>2. IsFiniteSet(S)
  BY <1>1, FS_Interval, FS_Surjection
<1>3. a..b \subseteq 1..Last
  BY DEF Last
<1>4. \A T \in S : IsFiniteSet(T)
  BY <1>3, LineWidth
<1>5. IsFiniteSet(UNION S)
  BY <1>2, <1>4, FS_UNION
<1> QED
  BY <1>5, FS_CardinalityType DEF Width

LEMMA WidthStep ==
    ASSUME lines \in Seq(Line), NEW a \in Nat \ {0}, NEW b \in Nat, a <= b, b <= Last
    PROVE  Width(a, b) = Width(a, b - 1) + lines[b].width
<1> DEFINE F == UNION {Characters(n) : n \in a..(b - 1)}
           G == UNION {Characters(n) : n \in a..b}
<1>1. b \in 1..Last /\ b - 1 \in Nat /\ b - 1 <= Last
  BY DEF Last
<1>2. IsFiniteSet(F) /\ Width(a, b - 1) \in Nat
  BY <1>1, WidthFinite DEF F
<1>3. /\ IsFiniteSet(Characters(b))
      /\ Cardinality(Characters(b)) = lines[b].width /\ lines[b].width \in Nat
  BY <1>1, LineWidth
<1>4. F \cap Characters(b) = {}
  BY DEF Characters
<1>5. G = F \cup Characters(b)
  OBVIOUS
<1> HIDE DEF F, G
<1>6. Cardinality(F \cup Characters(b)) = Cardinality(F) + Cardinality(Characters(b))
  <2>1. Cardinality(F \cap Characters(b)) = 0
    BY <1>4, FS_EmptySet
  <2>2. /\ Cardinality(F) \in Nat
        /\ Cardinality(F \cup Characters(b)) =
             Cardinality(F) + Cardinality(Characters(b)) - Cardinality(F \cap Characters(b))
    BY <1>2, <1>3, FS_Union, FS_CardinalityType
  <2> QED
    BY <1>3, <2>1, <2>2
<1>7. Width(a, b) = Cardinality(F \cup Characters(b)) /\ Width(a, b - 1) = Cardinality(F)
  BY <1>5 DEF Width, F, G
<1> QED
  BY <1>2, <1>3, <1>6, <1>7

\* Besides what ChunkInv says: the size so far is that of the lines so far.
SizeInv ==
    /\ TypeOK
    /\ SizesTrue
    /\ phase = "parts" => size = Width(from, line - 1)

LEMMA WidthStays ==
    ASSUME lines' = lines
    PROVE  \A a, b : Width(a, b)' = Width(a, b)
BY DEF Width, Characters

\* One more chunk whose size is true, or none.
LEMMA SizesStay ==
    ASSUME SizeInv, lines' = lines,
           \/ chunks' = chunks
           \/ \E c \in Chunk : c.size = Width(c.from, c.to) /\ chunks' = Append(chunks, c)
    PROVE  chunks' \in Seq(Chunk) /\ SizesTrue'
<1>1. \A a, b : Width(a, b)' = Width(a, b)
  BY WidthStays
<1>2. chunks \in Seq(Chunk) /\ SizesTrue
  BY DEF SizeInv, TypeOK
<1>3. CASE chunks' = chunks
  BY <1>1, <1>2, <1>3 DEF SizesTrue
<1>4. CASE \E c \in Chunk : c.size = Width(c.from, c.to) /\ chunks' = Append(chunks, c)
  <2>1. PICK c \in Chunk : c.size = Width(c.from, c.to) /\ chunks' = Append(chunks, c)
    BY <1>4
  <2>2. /\ chunks' \in Seq(Chunk) /\ Len(chunks') = Len(chunks) + 1
        /\ chunks'[Len(chunks) + 1] = c
        /\ \A k \in 1..Len(chunks) : chunks'[k] = chunks[k]
    BY <1>2, <2>1, AppendProperties
  <2>3. ASSUME NEW k \in DOMAIN chunks'
        PROVE  chunks'[k].size = Width(chunks'[k].from, chunks'[k].to)
    <3>1. CASE k \in 1..Len(chunks)
      BY <1>2, <2>2, <3>1 DEF SizesTrue
    <3>2. CASE k = Len(chunks) + 1
      BY <2>1, <2>2, <3>2
    <3> QED
      BY <1>2, <2>2, <3>1, <3>2
  <2> QED
    BY <1>1, <2>2, <2>3 DEF SizesTrue
<1> QED
  BY <1>3, <1>4

LEMMA SizeInit ==
    ASSUME Init
    PROVE  SizeInv
<1>1. PICK n \in 1..MaxLines : lines \in [1..n -> Line]
  BY DEF Init
<1>2. n \in Nat /\ lines \in Seq(Line) /\ Len(lines) = n
  BY <1>1, ChunkerAssumption
<1>3. MaxLines \in Nat \ {0}
  BY ChunkerAssumption
<1>4. /\ phase = "split" /\ line = 1 /\ from = 1 /\ sections = <<>> /\ size = 0
      /\ inCode = FALSE /\ inTable = FALSE /\ chunks = <<>>
  BY DEF Init
<1>5. 1 \in 1..(MaxLines + 1) /\ <<>> \in Seq(Run) /\ <<>> \in Seq(Chunk)
  BY <1>3
<1>6. TypeOK
  BY <1>2, <1>4, <1>5 DEF TypeOK
<1>7. SizesTrue
  BY DEF Init, SizesTrue
<1> QED
  BY <1>4, <1>6, <1>7 DEF SizeInv

\* The section at the head of the list lies in the text.
LEMMA HeadSection ==
    ASSUME ChunkInv, SizeInv, phase \in {"sections", "parts"}, sections # <<>>
    PROVE  /\ Head(sections) = sections[1]
           /\ Tail(sections) \in Seq(Run)
           /\ Last \in 1..MaxLines
           /\ sections[1].from \in 1..Last
           /\ sections[1].to \in sections[1].from..Last
<1>1. sections \in Seq(Run) /\ Last \in 1..MaxLines
  BY DEF SizeInv, TypeOK, Last
<1>2. Len(sections) \in Nat \ {0}
  BY <1>1
<1>3. /\ \/ Tiles(lines, sections, Reached + 1, Last)
         \/ Tiles(lines, sections, sections[1].from, Last)
      /\ 1 \in 1..Len(sections)
  BY <1>2 DEF ChunkInv, Progress, Cutting
<1>4. IsSection(lines, sections[1].from, sections[1].to)
  BY <1>3 DEF Tiles
<1> QED
  BY <1>1, <1>4 DEF IsSection, Last

LEMMA SplitSizes ==
    ASSUME ChunkInv, SizeInv, SplitLine \/ SplitEnd
    PROVE  SizeInv'
<1>1. /\ TypeOK /\ SizesTrue /\ Splitting
      /\ lines' = lines /\ chunks' = chunks /\ phase' # "parts"
  BY DEF ChunkInv, Progress, SizeInv, SplitLine, SplitEnd
<1>2. chunks' \in Seq(Chunk) /\ SizesTrue'
  BY <1>1, SizesStay
<1>3. Last \in 1..MaxLines /\ MaxLines \in Nat /\ line \in 1..(Last + 1) /\ from \in 1..(Last + 1)
  BY <1>1, ChunkerAssumption DEF TypeOK, Splitting, Last
<1>4. CASE SplitLine
  <2>1. line + 1 \in 1..(MaxLines + 1)
    BY <1>3, <1>4 DEF SplitLine
  <2>2. CASE lines[line].kind = "header" /\ from < line
    <3> DEFINE s == [from |-> from, to |-> line - 1]
    <3>1. s \in Run
      BY <1>3, <1>4, <2>2 DEF SplitLine, Run
    <3>2. sections' = Append(sections, s) /\ from' = line
      BY <1>4, <2>2 DEF SplitLine
    <3> HIDE DEF s
    <3>3. sections' \in Seq(Run) /\ from' \in 1..(MaxLines + 1)
      BY <1>1, <1>3, <3>1, <3>2 DEF TypeOK
    <3> QED
      BY <1>1, <1>2, <1>4, <2>1, <3>3 DEF SizeInv, TypeOK, SplitLine
  <2>3. CASE ~ (lines[line].kind = "header" /\ from < line)
    <3>1. sections' = sections /\ from' = from
      BY <1>4, <2>3 DEF SplitLine
    <3> QED
      BY <1>1, <1>2, <1>4, <2>1, <3>1 DEF SizeInv, TypeOK, SplitLine
  <2> QED
    BY <2>2, <2>3
<1>5. CASE SplitEnd
  <2>1. [from |-> from, to |-> Last] \in Run
    BY <1>1, <1>3, <1>5 DEF SplitEnd, Splitting, Run
  <2>2. sections' \in Seq(Run)
    BY <1>1, <1>5, <2>1 DEF SplitEnd, TypeOK
  <2> QED
    BY <1>1, <1>2, <1>5, <2>2 DEF SizeInv, TypeOK, SplitEnd
<1> QED
  BY <1>4, <1>5

LEMMA SectionSizes ==
    ASSUME ChunkInv, SizeInv, WholeSection \/ OpenSection
    PROVE  SizeInv'
<1>1. TypeOK /\ phase = "sections" /\ sections # <<>> /\ lines' = lines
  BY DEF SizeInv, WholeSection, OpenSection
<1>2. /\ Head(sections) = sections[1] /\ Tail(sections) \in Seq(Run)
      /\ Last \in 1..MaxLines /\ MaxLines \in Nat
      /\ sections[1].from \in 1..Last /\ sections[1].to \in sections[1].from..Last
  BY <1>1, HeadSection, ChunkerAssumption
<1>3. CASE WholeSection
  <2> DEFINE c == [from |-> sections[1].from, to |-> sections[1].to,
                   size |-> Width(sections[1].from, sections[1].to), part |-> FALSE]
  <2>1. Width(sections[1].from, sections[1].to) \in Nat
    <3>1. sections[1].from \in Nat \ {0} /\ sections[1].to \in Nat /\ sections[1].to <= Last
      BY <1>2
    <3> QED
      BY <1>1, <3>1, WidthFinite DEF TypeOK
  <2>2. c \in Chunk
    BY <1>2, <2>1 DEF Chunk
  <2>3. chunks' = Append(chunks, c) /\ c.size = Width(c.from, c.to)
    BY <1>2, <1>3 DEF WholeSection
  <2>4. chunks' \in Seq(Chunk) /\ SizesTrue'
    BY <1>1, <2>2, <2>3, SizesStay
  <2> QED
    BY <1>1, <1>2, <1>3, <2>4 DEF SizeInv, TypeOK, WholeSection
<1>4. CASE OpenSection
  <2>1. chunks' \in Seq(Chunk) /\ SizesTrue'
    BY <1>1, <1>4, SizesStay DEF OpenSection
  <2>2. line' = sections[1].from /\ from' = line' /\ size' = 0 /\ phase' = "parts"
    BY <1>2, <1>4 DEF OpenSection
  <2>3. Width(from, line - 1)' = 0
    BY <1>1, <1>2, <2>2, WidthStays, WidthNone
  <2>4. line' \in 1..(MaxLines + 1)
    BY <1>2, <2>2
  <2>5. TypeOK'
    <3>1. inCode' = FALSE /\ inTable' = FALSE /\ sections' = sections
      BY <1>4 DEF OpenSection
    <3> QED
      BY <1>1, <2>1, <2>2, <2>4, <3>1 DEF TypeOK
  <2> QED
    BY <2>1, <2>2, <2>3, <2>5 DEF SizeInv
<1> QED
  BY <1>3, <1>4

LEMMA PartSizes ==
    ASSUME ChunkInv, SizeInv, PartLine
    PROVE  SizeInv'
<1> DEFINE grown == size + lines[line].width
           c == [from |-> from, to |-> line, size |-> grown, part |-> TRUE]
<1>1. /\ TypeOK /\ phase = "parts" /\ size = Width(from, line - 1)
      /\ lines' = lines /\ sections' = sections /\ phase' = "parts" /\ line' = line + 1
  BY DEF SizeInv, PartLine
<1>2. /\ line \in Nat \ {0} /\ from \in Nat \ {0} /\ from <= line /\ line <= Last
      /\ Last \in 1..MaxLines /\ MaxLines \in Nat
  BY <1>1, PartLineFacts, ChunkerAssumption DEF TypeOK, Last
<1>3. line' \in 1..(MaxLines + 1) /\ line' - 1 = line
  BY <1>1, <1>2
<1>4. grown = Width(from, line) /\ grown \in Nat
  BY <1>1, <1>2, WidthStep, WidthFinite DEF TypeOK
<1>5. inCode' \in BOOLEAN /\ inTable' \in BOOLEAN
  BY PartLineCode DEF PartLine
<1> HIDE DEF grown
<1>6. CASE grown > ChunkSize /\ MaySplit(inCode', inTable')
  <2>1. chunks' = Append(chunks, c) /\ from' = OverlapFrom /\ size' = OverlapSize
    BY <1>6 DEF PartLine, grown
  <2>2. c \in Chunk /\ c.size = Width(c.from, c.to)
    BY <1>2, <1>4 DEF Chunk
  <2> HIDE DEF c
  <2>3. chunks' \in Seq(Chunk) /\ SizesTrue'
    BY <1>1, <2>1, <2>2, SizesStay DEF SizeInv
  <2>4. from' \in 1..(line + 1)
    <3>1. ChunkOverlap \in Nat
      BY ChunkerAssumption
    <3> QED
      BY <1>2, <2>1, <3>1 DEF OverlapFrom
  <2>5. size' = Width(from', line) /\ size' \in Nat
    <3>1. from' \in Nat \ {0} /\ lines \in Seq(Line)
      BY <1>1, <1>2, <2>4 DEF TypeOK
    <3>2. Width(from', line) \in Nat
      BY <1>2, <3>1, WidthFinite
    <3> QED
      BY <2>1, <3>2 DEF OverlapSize
  <2>6. size' = Width(from, line - 1)'
    BY <1>1, <1>3, <2>5, WidthStays
  <2>7. from' \in 1..(MaxLines + 1)
    BY <1>2, <2>4
  <2> QED
    BY <1>1, <1>3, <1>5, <2>3, <2>5, <2>6, <2>7 DEF SizeInv, TypeOK
<1>7. CASE ~ (grown > ChunkSize /\ MaySplit(inCode', inTable'))
  <2>1. size' = grown /\ chunks' = chunks /\ from' = from
    BY <1>7 DEF PartLine, grown
  <2>2. chunks' \in Seq(Chunk) /\ SizesTrue'
    BY <1>1, <2>1, SizesStay DEF SizeInv
  <2>3. size' = Width(from, line - 1)'
    BY <1>1, <1>3, <1>4, <2>1, WidthStays
  <2> QED
    BY <1>1, <1>3, <1>4, <1>5, <2>1, <2>2, <2>3 DEF SizeInv, TypeOK
<1> QED
  BY <1>6, <1>7

LEMMA CloseSizes ==
    ASSUME ChunkInv, SizeInv, CloseSection
    PROVE  SizeInv'
<1> DEFINE c == [from |-> from, to |-> line - 1, size |-> size, part |-> TRUE]
<1>1. /\ TypeOK /\ phase = "parts" /\ size = Width(from, line - 1) /\ Cutting
      /\ lines' = lines /\ phase' = "sections" /\ sections' = Tail(sections)
  BY DEF ChunkInv, Progress, SizeInv, CloseSection
<1>2. Tail(sections) \in Seq(Run)
  BY <1>1, HeadSection DEF Cutting
<1>3. chunks' \in Seq(Chunk) /\ SizesTrue'
  <2>1. CASE LinesLeft
    <3>1. chunks' = Append(chunks, c)
      BY <2>1 DEF CloseSection
    <3>2. c \in Chunk
      <4>1. /\ Last \in 1..MaxLines /\ MaxLines \in Nat /\ size \in Nat
            /\ line \in 1..(Last + 1) /\ from \in 1..(Last + 1) /\ from < line
        BY <1>1, <2>1, ChunkerAssumption DEF LinesLeft, Cutting, TypeOK, Last
      <4>2. from \in 1..MaxLines /\ line - 1 \in 1..MaxLines
        BY <4>1
      <4> QED
        BY <4>1, <4>2 DEF Chunk
    <3>3. c.size = Width(c.from, c.to)
      BY <1>1
    <3> QED
      BY <1>1, <3>1, <3>2, <3>3, SizesStay DEF SizeInv
  <2>2. CASE ~ LinesLeft
    BY <1>1, <2>2, SizesStay DEF SizeInv, CloseSection
  <2> QED
    BY <2>1, <2>2
<1> QED
  BY <1>1, <1>2, <1>3 DEF SizeInv, TypeOK, CloseSection

LEMMA SizeStep ==
    ASSUME ChunkInv, SizeInv, [Next]_vars
    PROVE  SizeInv'
<1>1. CASE SplitLine \/ SplitEnd
  BY <1>1, SplitSizes
<1>2. CASE WholeSection \/ OpenSection
  BY <1>2, SectionSizes
<1>3. CASE PartLine
  BY <1>3, PartSizes
<1>4. CASE CloseSection
  BY <1>4, CloseSizes
<1>5. CASE Finish
  <2>1. chunks' \in Seq(Chunk) /\ SizesTrue'
    BY <1>5, SizesStay DEF Finish
  <2> QED
    BY <1>5, <2>1 DEF SizeInv, TypeOK, Finish
<1>6. CASE UNCHANGED vars
  <2>1. chunks' \in Seq(Chunk) /\ SizesTrue'
    BY <1>6, SizesStay DEF vars
  <2>2. Width(from, line - 1)' = Width(from, line - 1)
    BY <1>6, WidthStays DEF vars
  <2> QED
    BY <1>6, <2>1, <2>2 DEF SizeInv, TypeOK, vars
<1> QED
  BY <1>1, <1>2, <1>3, <1>4, <1>5, <1>6 DEF Next

LEMMA SizeAlways == Spec => []SizeInv
<1>1. ChunkInv /\ SizeInv /\ [Next]_vars => ChunkInv' /\ SizeInv'
  BY ChunkStep, SizeStep
<1>2. Init => ChunkInv /\ SizeInv
  BY ChunkInit, SizeInit
<1> QED
  BY <1>1, <1>2, PTL DEF Spec

\* Every variable has the type the code gives it: sections and chunks are runs of
\* lines of the text, and a size is never negative.
THEOREM ChunkTypes == Spec => []TypeOK
<1>1. SizeInv => TypeOK
  BY DEF SizeInv
<1> QED
  BY <1>1, SizeAlways, PTL

\* The size recorded for a chunk of any text, at any chunk size and overlap, is
\* the sum of the lengths of its lines, newlines included: what a part repeats
\* of the one before it is counted, once.
THEOREM SizesKept == Spec => []SizesTrue
<1>1. SizeInv => SizesTrue
  BY DEF SizeInv
<1> QED
  BY <1>1, SizeAlways, PTL
=============================================================================
