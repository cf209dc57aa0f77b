--------------------------- MODULE ChunkerProofs ---------------------------
(* What the chunker returns, for every text, window and step.              *)
EXTENDS Chunker, TLAPS

\* Every line with text among the first n lies in a chunk.
Covered(n) ==
    \A l \in 1 .. n : l <= Len(text) /\ text[l] = "text" =>
        \E j \in 1 .. Len(out) : out[j].lo <= l /\ l <= out[j].hi

\* paragraphs: the lines before pos are chunked or, the last buf of them,
\* buffered, and a blank line stands before the buffer if a chunk does.
ParagraphLoop ==
    chunking /\ mode.kind = "Paragraph" =>
        /\ pos >= 1 /\ pos <= Len(text) + 1
        /\ buf < pos
        /\ buf > 0 => start = pos - buf
        /\ \A l \in 1 .. Len(text) : pos - buf <= l /\ l < pos => text[l] = "text"
        /\ \A j \in 1 .. Len(out) : out[j].hi + 1 < pos - buf
        /\ \A l \in 1 .. Len(text) : l < pos - buf /\ text[l] = "text" =>
              \E j \in 1 .. Len(out) : out[j].lo <= l /\ l <= out[j].hi

\* line_windows: no chunk starts after pos, and the lines before it are
\* chunked if no step is wider than the window.
WindowLoop ==
    chunking /\ mode.kind = "Lines" =>
        /\ \A j \in 1 .. Len(out) : out[j].lo <= pos
        /\ Step <= Win => Covered(pos)

ChunkInv ==
    /\ ChunkTypeOK
    /\ ParagraphLoop /\ WindowLoop
    /\ ChunksInOrder /\ ChunksCover /\ ParagraphsSeparate

\* What the assumptions on the modes say of a window and its step.
LEMMA ModeType ==
    ASSUME mode \in Modes
    PROVE  /\ mode.kind \in {"Paragraph", "Lines"}
           /\ mode.kind = "Lines" => /\ Win \in Nat /\ Win >= 1
                                     /\ Step \in Nat /\ Step >= 1
BY ChunkAssumption DEF ChunkMode, Win, Step, AtLeastOne

\* A text of the model is a sequence of lines, of natural length.
LEMMA TextType ==
    ASSUME text \in Texts
    PROVE  /\ text \in Seq(Line) /\ Len(text) \in Nat
           /\ \A l \in 1 .. Len(text) : text[l] \in {"blank", "text"}
BY ChunkAssumption DEF Line

\* A sequence of chunks has natural line ranges.
LEMMA OutType ==
    ASSUME out \in Seq(Chunk)
    PROVE  /\ Len(out) \in Nat
           /\ \A j \in 1 .. Len(out) : out[j].lo \in Nat /\ out[j].hi \in Nat
<1>1. Len(out) \in Nat /\ \A j \in 1 .. Len(out) : out[j] \in Chunk
  OBVIOUS
<1> QED
  BY <1>1 DEF Chunk

\* The same of the chunks after a step.
LEMMA OutNextType ==
    ASSUME out' \in Seq(Chunk)
    PROVE  \A j \in 1 .. Len(out') : out'[j].lo \in Nat /\ out'[j].hi \in Nat
<1>1. \A j \in 1 .. Len(out') : out'[j] \in Chunk
  OBVIOUS
<1> QED
  BY <1>1 DEF Chunk

\* A chunk that starts after the others and ends within the text keeps the order.
LEMMA AppendInOrder ==
    ASSUME out \in Seq(Chunk), ChunksInOrder,
           NEW lo \in Nat, NEW hi \in Nat,
           1 <= lo, lo <= hi, hi <= Len(text), Len(text) \in Nat,
           \A j \in 1 .. Len(out) : out[j].lo < lo,
           text' = text, out' = Append(out, Span(lo, hi))
    PROVE  /\ out' \in Seq(Chunk) /\ Len(out') = Len(out) + 1
           /\ out'[Len(out) + 1] = Span(lo, hi)
           /\ \A j \in 1 .. Len(out) : out'[j] = out[j]
           /\ ChunksInOrder'
<1>1. Span(lo, hi) \in Chunk /\ Span(lo, hi).lo = lo /\ Span(lo, hi).hi = hi
  BY DEF Span, Chunk
<1>2. /\ out' \in Seq(Chunk) /\ Len(out') = Len(out) + 1
      /\ out'[Len(out) + 1] = Span(lo, hi)
      /\ \A j \in 1 .. Len(out) : out'[j] = out[j]
  BY <1>1
<1>3. ChunksInOrder'
  <2>1. \A j \in 1 .. Len(out) + 1 : j \in 1 .. Len(out) \/ j = Len(out) + 1
    BY <1>2
  <2>2. \A j \in 1 .. Len(out) : out[j].lo \in Nat /\ out[j].hi \in Nat
    BY OutType
  <2> QED
    BY <1>1, <1>2, <2>1, <2>2 DEF ChunksInOrder
<1> QED
  BY <1>2, <1>3

\* Entering either loop establishes the invariant.
LEMMA BeginInv ==
    ASSUME NEW t \in Texts, NEW m \in Modes, Begin(t, m)
    PROVE  ChunkInv'
<1>1. t \in Seq(Line) /\ Len(t) \in Nat
  BY ChunkAssumption
<1>2. Len(out') = 0 /\ out' \in Seq(Chunk)
  BY DEF Begin
<1>3. ChunkTypeOK'
  BY <1>2 DEF Begin, ChunkTypeOK
<1>4. ParagraphLoop'
  BY <1>1, <1>2 DEF Begin, ParagraphLoop
<1>5. WindowLoop'
  <2>1. ASSUME m.kind = "Lines" PROVE pos' = 0
    BY <2>1 DEF Begin
  <2> QED
    BY <1>2, <2>1 DEF Begin, WindowLoop, Covered
<1>6. ChunksInOrder' /\ ChunksCover' /\ ParagraphsSeparate'
  BY <1>2 DEF Begin, ChunksInOrder, ChunksCover, ParagraphsSeparate
<1> QED
  BY <1>3, <1>4, <1>5, <1>6 DEF ChunkInv

\* The invariant holds at the start.
LEMMA InitInv == ChunkInit => ChunkInv
<1> SUFFICES ASSUME ChunkInit PROVE ChunkInv
  OBVIOUS
<1>1. Len(text) \in Nat
  BY TextType DEF ChunkInit
<1>2. Len(out) = 0 /\ out \in Seq(Chunk)
  BY DEF ChunkInit
<1>3. ChunkTypeOK
  BY <1>2 DEF ChunkInit, ChunkTypeOK
<1>4. ParagraphLoop
  BY <1>1, <1>2 DEF ChunkInit, ParagraphLoop
<1>5. WindowLoop
  BY <1>2 DEF ChunkInit, WindowLoop, Covered
<1>6. ChunksInOrder /\ ChunksCover /\ ParagraphsSeparate
  BY <1>2 DEF ChunkInit, ChunksInOrder, ChunksCover, ParagraphsSeparate
<1> QED
  BY <1>3, <1>4, <1>5, <1>6 DEF ChunkInv

-----------------------------------------------------------------------------
(* paragraphs                                                              *)

\* The types the loop lemmas use, taken out of the invariant.
LEMMA LoopTypes ==
    ASSUME ChunkInv
    PROVE  /\ text \in Texts /\ mode \in Modes /\ Len(text) \in Nat
           /\ pos \in Nat /\ start \in Nat /\ buf \in Nat /\ out \in Seq(Chunk)
           /\ Len(out) \in Nat /\ \A j \in 1 .. Len(out) : out[j].lo \in Nat /\ out[j].hi \in Nat
BY TextType, OutType DEF ChunkInv, ChunkTypeOK

\* What push_para adds, when the buffered lines end just before pos.
LEMMA PushInv ==
    ASSUME ChunkInv, Paragraphs, buf > 0, pos - 1 <= Len(text),
           text' = text, mode' = mode,
           out' = Append(out, Span(start, pos - 1))
    PROVE  /\ out' \in Seq(Chunk)
           /\ ChunksInOrder' /\ ParagraphsSeparate'
           /\ \A j \in 1 .. Len(out') : out'[j].hi < pos
           /\ \A l \in 1 .. Len(text) : l < pos /\ text[l] = "text" =>
                 \E j \in 1 .. Len(out') : out'[j].lo <= l /\ l <= out'[j].hi
<1> USE DEF ChunkInv
<1>1. /\ Len(text) \in Nat /\ pos \in Nat /\ start \in Nat /\ buf \in Nat /\ out \in Seq(Chunk)
      /\ Len(out) \in Nat /\ \A j \in 1 .. Len(out) : out[j].lo \in Nat /\ out[j].hi \in Nat
  BY LoopTypes
<1>2. /\ pos - 1 \in Nat /\ start = pos - buf /\ 1 <= start /\ start <= pos - 1
      /\ \A j \in 1 .. Len(out) : out[j].hi + 1 < start
      /\ \A l \in 1 .. Len(text) : start <= l /\ l < pos => text[l] = "text"
      /\ \A l \in 1 .. Len(text) : l < start /\ text[l] = "text" =>
            \E j \in 1 .. Len(out) : out[j].lo <= l /\ l <= out[j].hi
  <2>1. ParagraphLoop /\ chunking /\ mode.kind = "Paragraph"
    BY DEF Paragraphs
  <2>2. start = pos - buf /\ buf < pos /\ pos >= 1
    BY <2>1 DEF ParagraphLoop
  <2>3. pos - 1 \in Nat /\ 1 <= start /\ start <= pos - 1
    BY <1>1, <2>2
  <2>4. /\ \A j \in 1 .. Len(out) : out[j].hi + 1 < pos - buf
        /\ \A l \in 1 .. Len(text) : pos - buf <= l /\ l < pos => text[l] = "text"
        /\ \A l \in 1 .. Len(text) : l < pos - buf /\ text[l] = "text" =>
              \E j \in 1 .. Len(out) : out[j].lo <= l /\ l <= out[j].hi
    BY <2>1, Zenon DEF ParagraphLoop
  <2> QED
    BY <2>2, <2>3, <2>4, Zenon
<1>3. \A j \in 1 .. Len(out) : out[j].lo < start
  <2>1. ChunksInOrder
    OBVIOUS
  <2>2. \A j \in 1 .. Len(out) : out[j].lo <= out[j].hi
    BY <2>1, Zenon DEF ChunksInOrder
  <2>3. \A j \in 1 .. Len(out) : out[j].hi + 1 < start
    BY <1>2
  <2> HIDE DEF ChunkInv
  <2> QED
    BY <1>1, <2>2, <2>3
<1>4. /\ out' \in Seq(Chunk) /\ Len(out') = Len(out) + 1
      /\ out'[Len(out) + 1] = Span(start, pos - 1)
      /\ \A j \in 1 .. Len(out) : out'[j] = out[j]
      /\ ChunksInOrder'
  BY <1>1, <1>2, <1>3, AppendInOrder
<1>5. out'[Len(out) + 1].lo = start /\ out'[Len(out) + 1].hi = pos - 1
  BY <1>4 DEF Span
<1>6. \A j \in 1 .. Len(out') : j \in 1 .. Len(out) \/ j = Len(out) + 1
  BY <1>1, <1>4
<1>7. \A j \in 1 .. Len(out') : out'[j].hi < pos
  BY <1>1, <1>2, <1>4, <1>5, <1>6
<1>8. ASSUME NEW l \in 1 .. Len(text), l < pos, text[l] = "text"
      PROVE  \E j \in 1 .. Len(out') : out'[j].lo <= l /\ l <= out'[j].hi
  <2>1. CASE l < start
    BY <1>2, <1>4, <1>6, <1>1, <1>8, <2>1
  <2>2. CASE l >= start
    BY <1>1, <1>4, <1>5, <1>8, <2>2
  <2>3. l < start \/ l >= start
    BY <1>1
  <2> QED
    BY <2>1, <2>2, <2>3
<1>9. ParagraphsSeparate'
  <2>1. ASSUME NEW j \in 1 .. Len(out'), NEW l \in 1 .. Len(text),
               out'[j].lo <= l, l <= out'[j].hi
        PROVE  text[l] = "text"
    <3>1. CASE j \in 1 .. Len(out)
      BY <1>4, <2>1, <3>1 DEF ParagraphsSeparate, Paragraphs
    <3>2. CASE j = Len(out) + 1
      BY <1>1, <1>2, <1>5, <2>1, <3>2
    <3> QED
      BY <1>6, <3>1, <3>2
  <2>2. ASSUME NEW j \in 1 .. Len(out'), NEW k \in 1 .. Len(out'), j < k
        PROVE  out'[j].hi + 1 < out'[k].lo
    <3>1. j \in 1 .. Len(out)
      BY <1>1, <1>4, <2>2
    <3>2. CASE k \in 1 .. Len(out)
      BY <1>4, <2>2, <3>1, <3>2 DEF ParagraphsSeparate, Paragraphs
    <3>3. CASE k = Len(out) + 1
      BY <1>2, <1>4, <1>5, <3>1, <3>3
    <3> QED
      BY <1>6, <3>2, <3>3
  <2> QED
    BY <2>1, <2>2 DEF ParagraphsSeparate
<1> QED
  BY <1>4, <1>7, <1>8, <1>9

\* A blank line, which pushes the buffered paragraph, keeps the invariant.
LEMMA BlankLineInv == ChunkInv /\ BlankLine => ChunkInv'
<1> SUFFICES ASSUME ChunkInv, BlankLine PROVE ChunkInv'
  OBVIOUS
<1> USE DEF ChunkInv
<1>1. /\ Paragraphs /\ pos <= Len(text) /\ text[pos] = "blank"
      /\ buf' = 0 /\ pos' = pos + 1 /\ start' = pos + 1
      /\ text' = text /\ mode' = mode /\ chunking' = chunking
      /\ out' = IF buf > 0 THEN Append(out, Span(start, pos - 1)) ELSE out
  BY DEF BlankLine, PushPara, Before
<1>2. /\ Len(text) \in Nat /\ pos \in Nat /\ buf \in Nat /\ out \in Seq(Chunk)
      /\ \A j \in 1 .. Len(out) : out[j].lo \in Nat /\ out[j].hi \in Nat
  BY LoopTypes
<1>3. ParagraphLoop /\ pos >= 1 /\ buf < pos
  BY <1>1 DEF ParagraphLoop, Paragraphs
<1>4. WindowLoop' /\ ChunksCover'
  BY <1>1 DEF WindowLoop, ChunksCover, Paragraphs
<1>5. CASE buf = 0
  <2>1. out' = out
    BY <1>1, <1>5
  <2>2. ChunkTypeOK' /\ ChunksInOrder' /\ ParagraphsSeparate'
    BY <1>1, <1>2, <2>1 DEF ChunkTypeOK, ChunksInOrder, ParagraphsSeparate
  <2>3. ParagraphLoop'
    BY <1>1, <1>2, <1>3, <1>5, <2>1 DEF ParagraphLoop, Paragraphs
  <2> QED
    BY <1>4, <2>2, <2>3
<1>6. CASE buf > 0
  <2>1. /\ out' \in Seq(Chunk)
        /\ ChunksInOrder' /\ ParagraphsSeparate'
        /\ \A j \in 1 .. Len(out') : out'[j].hi < pos
        /\ \A l \in 1 .. Len(text) : l < pos /\ text[l] = "text" =>
              \E j \in 1 .. Len(out') : out'[j].lo <= l /\ l <= out'[j].hi
    BY <1>1, <1>2, <1>6, PushInv
  <2>2. ChunkTypeOK'
    BY <1>1, <1>2, <2>1 DEF ChunkTypeOK
  <2>3. \A j \in 1 .. Len(out') : out'[j].hi \in Nat
    BY <2>1, OutNextType
  <2>4. pos' - buf' = pos + 1 /\ pos' >= 1 /\ pos' <= Len(text) + 1 /\ buf' < pos' /\ ~(buf' > 0)
    BY <1>1, <1>2
  <2>5. \A j \in 1 .. Len(out') : out'[j].hi + 1 < pos + 1
    BY <1>2, <2>1, <2>3
  <2>6. \A l \in 1 .. Len(text) : ~(pos + 1 <= l /\ l < pos + 1)
    BY <1>2
  <2>7. \A l \in 1 .. Len(text) : l < pos + 1 /\ text[l] = "text" => l < pos
    BY <1>1, <1>2
  <2>8. ParagraphLoop'
    <3>1. text' = text /\ pos' = pos + 1
      BY <1>1
    <3> QED
      BY <2>1, <2>4, <2>5, <2>6, <2>7, <3>1 DEF ParagraphLoop
  <2> QED
    BY <1>4, <2>1, <2>2, <2>8
<1> QED
  BY <1>2, <1>5, <1>6

\* A line with text, which extends the buffer, keeps the invariant.
LEMMA TextLineInv == ChunkInv /\ TextLine => ChunkInv'
<1> SUFFICES ASSUME ChunkInv, TextLine PROVE ChunkInv'
  OBVIOUS
<1> USE DEF ChunkInv
<1>1. /\ chunking /\ mode.kind = "Paragraph" /\ pos <= Len(text) /\ text[pos] = "text"
      /\ buf' = buf + 1 /\ pos' = pos + 1 /\ start' = IF buf = 0 THEN pos ELSE start
      /\ text' = text /\ mode' = mode /\ chunking' = chunking /\ out' = out
  BY DEF TextLine, Paragraphs
<1>2. /\ Len(text) \in Nat /\ pos \in Nat /\ start \in Nat /\ buf \in Nat
      /\ \A j \in 1 .. Len(out) : out[j].lo \in Nat /\ out[j].hi \in Nat
  BY TextType, OutType DEF ChunkTypeOK
<1>3. ChunkTypeOK'
  BY <1>1, <1>2 DEF ChunkTypeOK
<1>4. ParagraphLoop'
  <2>1. pos' - buf' = pos - buf /\ (buf = 0 => start' = pos) /\ (buf > 0 => start' = pos - buf)
    BY <1>1, <1>2 DEF ParagraphLoop
  <2>2. \A l \in 1 .. Len(text) : pos - buf <= l /\ l < pos + 1 => text[l] = "text"
    BY <1>1, <1>2 DEF ParagraphLoop
  <2> QED
    BY <1>1, <1>2, <2>1, <2>2 DEF ParagraphLoop
<1>5. WindowLoop' /\ ChunksInOrder' /\ ChunksCover' /\ ParagraphsSeparate'
  BY <1>1 DEF WindowLoop, ChunksInOrder, ChunksCover, ParagraphsSeparate
<1> QED
  BY <1>3, <1>4, <1>5

\* The last push of paragraphs keeps the invariant.
LEMMA EndOfTextInv == ChunkInv /\ EndOfText => ChunkInv'
<1> SUFFICES ASSUME ChunkInv, EndOfText PROVE ChunkInv'
  OBVIOUS
<1> USE DEF ChunkInv
<1>1. /\ Paragraphs /\ pos > Len(text)
      /\ pos' = pos /\ start' = start /\ buf' = buf
      /\ text' = text /\ mode' = mode /\ chunking' = FALSE
      /\ out' = IF buf > 0 THEN Append(out, Span(start, Len(text))) ELSE out
  BY DEF EndOfText, PushPara, PushLast
<1>2. /\ Len(text) \in Nat /\ pos \in Nat /\ buf \in Nat /\ out \in Seq(Chunk)
  BY LoopTypes
<1>3. ParagraphLoop /\ pos <= Len(text) + 1
  BY <1>1 DEF ParagraphLoop, Paragraphs
<1>4. Len(text) = pos - 1
  BY <1>1, <1>2, <1>3
<1>5. ParagraphLoop' /\ WindowLoop'
  BY <1>1 DEF ParagraphLoop, WindowLoop
<1>6. CASE buf = 0
  <2>1. out' = out
    BY <1>1, <1>6
  <2>2. ChunksCover'
    BY <1>1, <1>2, <1>3, <1>4, <1>6, <2>1 DEF ChunksCover, ParagraphLoop, Paragraphs
  <2>3. ChunkTypeOK' /\ ChunksInOrder' /\ ParagraphsSeparate'
    BY <1>1, <1>2, <2>1 DEF ChunkTypeOK, ChunksInOrder, ParagraphsSeparate
  <2> QED
    BY <1>5, <2>2, <2>3
<1>7. CASE buf > 0
  <2>1. /\ out' \in Seq(Chunk)
        /\ ChunksInOrder' /\ ParagraphsSeparate'
        /\ \A l \in 1 .. Len(text) : l < pos /\ text[l] = "text" =>
              \E j \in 1 .. Len(out') : out'[j].lo <= l /\ l <= out'[j].hi
    BY <1>1, <1>2, <1>4, <1>7, PushInv
  <2>2. ChunkTypeOK'
    BY <1>1, <1>2, <2>1 DEF ChunkTypeOK
  <2>3. ChunksCover'
    BY <1>1, <1>2, <1>4, <2>1 DEF ChunksCover
  <2> QED
    BY <1>5, <2>1, <2>2, <2>3
<1> QED
  BY <1>2, <1>6, <1>7

-----------------------------------------------------------------------------
(* line_windows                                                            *)

\* A window of line_windows keeps the invariant: no line falls between two.
LEMMA WindowInv == ChunkInv /\ Window => ChunkInv'
<1> SUFFICES ASSUME ChunkInv, Window PROVE ChunkInv'
  OBVIOUS
<1> USE DEF ChunkInv
<1>1. /\ chunking /\ mode.kind = "Lines" /\ pos < Len(text)
      /\ text' = text /\ mode' = mode /\ start' = start /\ buf' = buf
      /\ out' = IF HasText THEN Append(out, Span(pos + 1, WindowEnd)) ELSE out
      /\ \/ WindowEnd = Len(text) /\ chunking' = FALSE /\ pos' = pos
         \/ WindowEnd # Len(text) /\ chunking' = chunking /\ pos' = pos + Step
  BY DEF Window, Windows, NextStart
<1>2. /\ text \in Texts /\ mode \in Modes /\ Len(text) \in Nat
      /\ pos \in Nat /\ start \in Nat /\ buf \in Nat /\ out \in Seq(Chunk)
      /\ Len(out) \in Nat /\ \A j \in 1 .. Len(out) : out[j].lo \in Nat /\ out[j].hi \in Nat
  BY LoopTypes
<1>3. Win \in Nat /\ Win >= 1 /\ Step \in Nat /\ Step >= 1
  BY <1>1, <1>2, ModeType
<1>4. /\ WindowEnd \in Nat /\ pos + 1 <= WindowEnd /\ WindowEnd <= Len(text)
      /\ WindowEnd # Len(text) => WindowEnd = pos + Win
  BY <1>1, <1>2, <1>3 DEF WindowEnd
<1>5. \A j \in 1 .. Len(out) : out[j].lo <= pos
  BY <1>1 DEF WindowLoop
<1>6. /\ out' \in Seq(Chunk) /\ ChunksInOrder'
      /\ \A j \in 1 .. Len(out') : out'[j].lo <= pos + 1
      /\ \A l \in 1 .. Len(text) : text[l] = "text" =>
            (   ((pos < l /\ l <= WindowEnd) \/ (\E j \in 1 .. Len(out) : out[j].lo <= l /\ l <= out[j].hi))
             => \E j \in 1 .. Len(out') : out'[j].lo <= l /\ l <= out'[j].hi)
  <2>1. CASE ~HasText
    <3>1. out' = out /\ \A l \in pos + 1 .. WindowEnd : text[l] # "text"
      BY <1>1, <2>1 DEF HasText
    <3>2. out' \in Seq(Chunk) /\ ChunksInOrder'
      BY <1>1, <1>2, <3>1 DEF ChunksInOrder
    <3>3. \A j \in 1 .. Len(out') : out'[j].lo <= pos + 1
      BY <1>2, <1>5, <3>1
    <3>4. \A l \in 1 .. Len(text) : text[l] = "text" => ~(pos < l /\ l <= WindowEnd)
      BY <1>2, <1>4, <3>1
    <3> QED
      BY <3>1, <3>2, <3>3, <3>4
  <2>2. CASE HasText
    <3>1. out' = Append(out, Span(pos + 1, WindowEnd))
      BY <1>1, <2>2
    <3>2. pos + 1 \in Nat /\ 1 <= pos + 1 /\ \A j \in 1 .. Len(out) : out[j].lo < pos + 1
      BY <1>2, <1>5
    <3>3. /\ out' \in Seq(Chunk) /\ Len(out') = Len(out) + 1
          /\ out'[Len(out) + 1] = Span(pos + 1, WindowEnd)
          /\ \A j \in 1 .. Len(out) : out'[j] = out[j]
          /\ ChunksInOrder'
      BY <1>1, <1>2, <1>4, <3>1, <3>2, AppendInOrder
    <3>4. out'[Len(out) + 1].lo = pos + 1 /\ out'[Len(out) + 1].hi = WindowEnd
      BY <3>3 DEF Span
    <3>5. \A j \in 1 .. Len(out') : j \in 1 .. Len(out) \/ j = Len(out) + 1
      BY <1>2, <3>3
    <3>6. \A j \in 1 .. Len(out') : out'[j].lo <= pos + 1
      BY <1>2, <1>5, <3>3, <3>4, <3>5
    <3>7. ASSUME NEW l \in 1 .. Len(text), pos < l, l <= WindowEnd
          PROVE  \E j \in 1 .. Len(out') : out'[j].lo <= l /\ l <= out'[j].hi
      <4>1. Len(out) + 1 \in 1 .. Len(out') /\ pos + 1 <= l
        BY <1>2, <3>3, <3>7
      <4> QED
        BY <3>4, <3>7, <4>1
    <3>8. ASSUME NEW l \in 1 .. Len(text), NEW j \in 1 .. Len(out), out[j].lo <= l, l <= out[j].hi
          PROVE  \E k \in 1 .. Len(out') : out'[k].lo <= l /\ l <= out'[k].hi
      <4>1. j \in 1 .. Len(out') /\ out'[j] = out[j]
        BY <1>2, <3>3
      <4> QED
        BY <3>8, <4>1
    <3> QED
      BY <3>3, <3>6, <3>7, <3>8
  <2> QED
    BY <2>1, <2>2
<1>7. Win' = Win /\ Step' = Step
  BY <1>1 DEF Win, Step
<1>8. ChunkTypeOK'
  <2>1. pos' \in Nat
    <3>1. pos + Step \in Nat
      BY <1>2, <1>3
    <3> QED
      BY <1>1, <1>2, <3>1, Zenon
  <2>2. chunking' \in BOOLEAN
    BY <1>1, Zenon DEF ChunkTypeOK
  <2> QED
    BY <1>1, <1>2, <1>6, <2>1, <2>2 DEF ChunkTypeOK
<1>9. ParagraphLoop' /\ ParagraphsSeparate'
  BY <1>1 DEF ParagraphLoop, ParagraphsSeparate
<1>10. CASE WindowEnd = Len(text)
  <2>1. WindowLoop'
    BY <1>1, <1>10 DEF WindowLoop
  <2>2. ASSUME Step <= Win, NEW l \in 1 .. Len(text), text[l] = "text"
        PROVE  \E j \in 1 .. Len(out') : out'[j].lo <= l /\ l <= out'[j].hi
    <3>1. CASE l <= pos
      BY <1>1, <1>2, <1>6, <2>2, <3>1 DEF WindowLoop, Covered
    <3>2. CASE pos < l
      BY <1>2, <1>6, <1>10, <2>2, <3>2
    <3> QED
      BY <1>2, <3>1, <3>2
  <2>3. ChunksCover'
    BY <1>1, <1>7, <2>2 DEF ChunksCover
  <2> QED
    BY <1>6, <1>8, <1>9, <2>1, <2>3
<1>11. CASE WindowEnd # Len(text)
  <2>1. pos' = pos + Step /\ chunking' = TRUE /\ WindowEnd = pos + Win
    BY <1>1, <1>4, <1>11
  <2>2. ChunksCover'
    BY <2>1 DEF ChunksCover
  <2>3. \A j \in 1 .. Len(out') : out'[j].lo <= pos'
    <3>1. \A j \in 1 .. Len(out') : out'[j].lo \in Nat
      BY <1>6, OutNextType
    <3> QED
      BY <1>2, <1>3, <1>6, <2>1, <3>1
  <2>4. ASSUME Step <= Win, NEW l \in 1 .. pos', l <= Len(text), text[l] = "text"
        PROVE  \E j \in 1 .. Len(out') : out'[j].lo <= l /\ l <= out'[j].hi
    <3>0. l \in 1 .. Len(text) /\ l <= WindowEnd
      BY <1>2, <1>3, <2>1, <2>4
    <3>1. CASE l <= pos
      BY <1>1, <1>2, <1>6, <2>4, <3>0, <3>1 DEF WindowLoop, Covered
    <3>2. CASE pos < l
      BY <1>6, <2>4, <3>0, <3>2
    <3> QED
      BY <1>2, <3>0, <3>1, <3>2
  <2>5. WindowLoop'
    BY <1>1, <1>7, <2>3, <2>4 DEF WindowLoop, Covered
  <2> QED
    BY <1>6, <1>8, <1>9, <2>2, <2>5
<1> QED
  BY <1>10, <1>11

\* Leaving line_windows past the last line keeps the invariant.
LEMMA PastTheEndInv == ChunkInv /\ PastTheEnd => ChunkInv'
<1> SUFFICES ASSUME ChunkInv, PastTheEnd PROVE ChunkInv'
  OBVIOUS
<1> USE DEF ChunkInv
<1>1. /\ chunking /\ mode.kind = "Lines" /\ pos >= Len(text)
      /\ text' = text /\ mode' = mode /\ pos' = pos /\ start' = start /\ buf' = buf
      /\ out' = out /\ chunking' = FALSE
  BY DEF PastTheEnd, Windows
<1>2. Len(text) \in Nat /\ pos \in Nat
  BY LoopTypes
<1>3. ChunkTypeOK' /\ ParagraphLoop' /\ WindowLoop' /\ ChunksInOrder' /\ ParagraphsSeparate'
  BY <1>1 DEF ChunkTypeOK, ParagraphLoop, WindowLoop, ChunksInOrder, ParagraphsSeparate
<1>4. Win' = Win /\ Step' = Step
  BY <1>1 DEF Win, Step
<1>5. ChunksCover'
  BY <1>1, <1>2, <1>4 DEF ChunksCover, WindowLoop, Covered
<1> QED
  BY <1>3, <1>5

-----------------------------------------------------------------------------
\* The loop invariant is inductive.
LEMMA ChunkStep == ChunkInv /\ [ChunkNext]_chunkVars => ChunkInv'
<1> SUFFICES ASSUME ChunkInv, [ChunkNext]_chunkVars PROVE ChunkInv'
  OBVIOUS
<1>1. CASE BlankLine
  BY <1>1, BlankLineInv
<1>2. CASE TextLine
  BY <1>2, TextLineInv
<1>3. CASE EndOfText
  BY <1>3, EndOfTextInv
<1>4. CASE Window
  BY <1>4, WindowInv
<1>5. CASE PastTheEnd
  BY <1>5, PastTheEndInv
<1>6. CASE UNCHANGED chunkVars
  <2>1. ChunkTypeOK' /\ ParagraphLoop' /\ ChunksInOrder' /\ ParagraphsSeparate'
    BY <1>6 DEF chunkVars, ChunkInv, ChunkTypeOK, ParagraphLoop, ChunksInOrder, ParagraphsSeparate
  <2>2. Win' = Win /\ Step' = Step
    BY <1>6 DEF chunkVars, Win, Step
  <2>3. WindowLoop' /\ ChunksCover'
    BY <1>6, <2>2 DEF chunkVars, ChunkInv, WindowLoop, ChunksCover, Covered
  <2> QED
    BY <2>1, <2>3 DEF ChunkInv
<1> QED
  BY <1>1, <1>2, <1>3, <1>4, <1>5, <1>6 DEF ChunkNext

\* The loop invariant holds in every reachable state of either loop.
THEOREM ChunkInvariant == ChunkSpec => []ChunkInv
BY InitInv, ChunkStep, PTL DEF ChunkSpec

\* The loops keep their types for every text, window and step.
THEOREM ChunkTypeCorrect == ChunkSpec => []ChunkTypeOK
<1>1. ChunkInv => ChunkTypeOK
  BY DEF ChunkInv
<1> QED
  BY <1>1, ChunkInvariant, PTL

\* The line ranges of the chunks are ranges of the file, in its order.
THEOREM RangesInOrder == ChunkSpec => []ChunksInOrder
<1>1. ChunkInv => ChunksInOrder
  BY DEF ChunkInv
<1> QED
  BY <1>1, ChunkInvariant, PTL

\* No line with text is lost, in either mode, if no step is wider than its
\* window.
THEOREM NoLineLost == ChunkSpec => []ChunksCover
<1>1. ChunkInv => ChunksCover
  BY DEF ChunkInv
<1> QED
  BY <1>1, ChunkInvariant, PTL

\* Paragraphs hold no blank line and have one between them.
THEOREM SplitOnBlankLines == ChunkSpec => []ParagraphsSeparate
<1>1. ChunkInv => ParagraphsSeparate
  BY DEF ChunkInv
<1> QED
  BY <1>1, ChunkInvariant, PTL
=============================================================================
