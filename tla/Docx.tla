---------------------------------- MODULE Docx ----------------------------------
(***************************************************************************)
(* app/converters/docx.py: convert_docx, the blocks of the body in their   *)
(* order.  A paragraph is [styled, cells |-> <<>>, text], a row of a table *)
(* [styled |-> FALSE, cells, text |-> <<>>]: the texts are sequences of    *)
(* lines as in Headings.tla, <<>> for an empty one.  A merged cell comes   *)
(* once for each column it covers, as row.cells gives it.                  *)
(***************************************************************************)
EXTENDS Headings, SequencesExt

Blocks == [styled : BOOLEAN, cells : Seq(Seq(TextLines)), text : Seq(TextLines)]

Prosaic(words) == [says |-> words, decorated |-> FALSE, mark |-> "none"]

\* ' | '.join: the last line of a cell and the first of the next become one.
BesideCell(a, b) ==
  IF a = <<>> /\ b = <<>> THEN <<Prosaic("prose")>>
  ELSE (IF a = <<>> THEN a ELSE Front(a)) \o <<Prosaic("prose")>> \o (IF b = <<>> THEN b ELSE Tail(b))

\* A heading style puts its #s before the first line of the paragraph; a row
\* without any text is left out.
BlockLines(b) ==
  IF b.cells # <<>>
    THEN IF \A k \in DOMAIN b.cells : b.cells[k] = <<>> THEN <<>>
         ELSE LET joined[k \in DOMAIN b.cells] ==
                    IF k = 1 THEN b.cells[1] ELSE BesideCell(joined[k - 1], b.cells[k])
              IN  joined[Len(b.cells)]
    ELSE IF b.styled /\ b.text # <<>> THEN [b.text EXCEPT ![1].mark = "styled"] ELSE b.text

DocxLines(blocks) == FlattenSeq([k \in DOMAIN blocks |-> BlockLines(blocks[k])])
===============================================================================
