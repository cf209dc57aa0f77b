------------------------------ MODULE Chunker ------------------------------
(***************************************************************************)
(* skeg_rigging_ingest::chunk: a file is split into paragraphs (prose) or  *)
(* into a sliding window of lines (code).  Both functions are loops, and   *)
(* so are they here: one step per line, or per window.                     *)
(*                                                                         *)
(* A line is blank or not, nothing else of it matters.  A chunk is its     *)
(* range of lines, counted from 1, both ends included.                     *)
(***************************************************************************)
EXTENDS Naturals, Sequences

CONSTANTS
    Texts,      \* contents of files: sequences of lines
    Modes       \* the chunk modes in use

Line      == {"blank", "text"}
ChunkMode == [kind : {"Paragraph"}] \cup [kind : {"Lines"}, win : Nat, step : Nat]
Chunk     == [lo : Nat, hi : Nat]

ASSUME ChunkAssumption == Texts \subseteq Seq(Line) /\ Modes \subseteq ChunkMode

VARIABLES
    text,       \* the lines being split
    mode,
    pos,        \* paragraphs: the line to look at; windows: lines before the window
    start,      \* paragraphs: first line of the current one
    buf,        \* paragraphs: number of lines buffered
    out,        \* chunks so far
    chunking    \* chunk has not returned yet

chunkVars == <<text, mode, pos, start, buf, out, chunking>>

-----------------------------------------------------------------------------
AtLeastOne(n) == IF n = 0 THEN 1 ELSE n
Win  == AtLeastOne(mode.win)
Step == AtLeastOne(mode.step)

\* Lines are counted from 1 in a chunk, both ends included.
FromZero(lo, hi) == [lo |-> lo - 1, hi |-> hi]  \* mutant: from 0
Span(lo, hi)     == [lo |-> lo, hi |-> hi]

Begin(t, m) ==
    /\ text' = t
    /\ mode' = m
    /\ pos' = IF m.kind = "Paragraph" THEN 1 ELSE 0
    /\ start' = 1
    /\ buf' = 0
    /\ out' = <<>>
    /\ chunking' = TRUE

ChunkInit ==
    /\ text \in Texts
    /\ mode \in Modes
    /\ pos = IF mode.kind = "Paragraph" THEN 1 ELSE 0
    /\ start = 1
    /\ buf = 0
    /\ out = <<>>
    /\ chunking = TRUE

-----------------------------------------------------------------------------
(* paragraphs                                                              *)

Paragraphs == chunking /\ mode.kind = "Paragraph"

\* push_para, when lines are buffered; they are not blank, so it does push.
PushPara(hi) == out' = IF buf > 0 THEN Append(out, Span(start, hi)) ELSE out

TheBlank(n) == n                                \* mutant: the blank line is included
Before(n)   == n - 1

BlankLine ==
    /\ Paragraphs /\ pos <= Len(text) /\ text[pos] = "blank"
    /\ PushPara(Before(pos))
    /\ buf' = 0
    /\ start' = pos + 1
    /\ pos' = pos + 1
    /\ UNCHANGED <<text, mode, chunking>>

TextLine ==
    /\ Paragraphs /\ pos <= Len(text) /\ text[pos] = "text"
    /\ start' = IF buf = 0 THEN pos ELSE start
    /\ buf' = buf + 1
    /\ pos' = pos + 1
    /\ UNCHANGED <<text, mode, out, chunking>>

\* The last paragraph ends with the text.
DropLast(n)   == UNCHANGED out                  \* mutant: no push after the loop
PushLast(n)   == PushPara(n)

EndOfText ==
    /\ Paragraphs /\ pos > Len(text)
    /\ PushLast(Len(text))
    /\ chunking' = FALSE
    /\ UNCHANGED <<text, mode, pos, start, buf>>

-----------------------------------------------------------------------------
(* line_windows                                                            *)

Windows == chunking /\ mode.kind = "Lines"

WindowEnd == IF pos + Win <= Len(text) THEN pos + Win ELSE Len(text)

HasText   == \E l \in pos + 1 .. WindowEnd : text[l] = "text"

Retry     == IF HasText THEN pos + Step ELSE pos  \* mutant: a blank window is tried again
NextStart == pos + Step

\* A window of blank lines only is dropped; the one that reaches the end is
\* the last.
Window ==
    /\ Windows /\ pos < Len(text)
    /\ out' = IF HasText THEN Append(out, Span(pos + 1, WindowEnd)) ELSE out
    /\ IF WindowEnd = Len(text)
       THEN chunking' = FALSE /\ UNCHANGED pos
       ELSE pos' = NextStart /\ UNCHANGED chunking
    /\ UNCHANGED <<text, mode, start, buf>>

PastTheEnd ==
    /\ Windows /\ pos >= Len(text)
    /\ chunking' = FALSE
    /\ UNCHANGED <<text, mode, pos, start, buf, out>>

ChunkNext == BlankLine \/ TextLine \/ EndOfText \/ Window \/ PastTheEnd

ChunkSpec == ChunkInit /\ [][ChunkNext]_chunkVars

-----------------------------------------------------------------------------
\* The variables of the loops have their types.
ChunkTypeOK ==
    /\ text \in Texts /\ mode \in Modes
    /\ pos \in Nat /\ start \in Nat /\ buf \in Nat
    /\ out \in Seq(Chunk)
    /\ chunking \in BOOLEAN

\* The line ranges tagged as provenance are ranges of the file, in the order
\* of the file, none twice (chunk.rs:10-19, 84-88, 100-104).
ChunksInOrder ==
    /\ \A j \in 1 .. Len(out) : 1 <= out[j].lo /\ out[j].lo <= out[j].hi
                                /\ out[j].hi <= Len(text)
    /\ \A j, k \in 1 .. Len(out) : j < k => out[j].lo < out[k].lo

\* No line with text is lost: each lies in a chunk, unless the caller's window
\* steps over it by stepping further than it is wide (chunk.rs:44-51).
ChunksCover ==
    ~chunking /\ (mode.kind = "Lines" => Step <= Win) =>
        \A l \in 1 .. Len(text) : text[l] = "text" =>
            \E j \in 1 .. Len(out) : out[j].lo <= l /\ l <= out[j].hi

\* "Split on blank lines": a paragraph has no blank line, and two paragraphs
\* have one between them (chunk.rs:53-77).
ParagraphsSeparate ==
    mode.kind = "Paragraph" =>
        /\ \A j \in 1 .. Len(out), l \in 1 .. Len(text) :
              out[j].lo <= l /\ l <= out[j].hi => text[l] = "text"
        /\ \A j, k \in 1 .. Len(out) : j < k => out[j].hi + 1 < out[k].lo
=============================================================================
