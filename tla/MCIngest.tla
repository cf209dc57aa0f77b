------------------------------ MODULE MCIngest ------------------------------
(* The small instances of Ingest.                                          *)
EXTENDS Ingest, TLC

CONSTANTS MaxLines, MaxWin

\* A prose file and a source file; 3 and 2 stand for the code's 40 and 30.
Prose  == [kind |-> "Paragraph"]
Source == [kind |-> "Lines", win |-> 3, step |-> 2]

TwoPaths  == {1, 2}
OnePath   == {1}
Suffixes  == 1 :> Prose @@ 2 :> Source
OneSuffix == 1 :> Prose

AllTexts == UNION {[1 .. n -> Line] : n \in 0 .. MaxLines}
AllModes == {Prose, Source} \cup [kind : {"Lines"}, win : 0 .. MaxWin, step : 0 .. MaxWin]

T == "text"
B == "blank"
FewContents == {Absent, Unreadable, <<T, B, T, T>>, <<B, T>>}
MidWrite    == {Absent, Unreadable, <<T>>, <<T, T>>}
=============================================================================
