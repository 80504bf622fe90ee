-------------------------------- MODULE Headings --------------------------------
(***************************************************************************)
(* app/converters/headings.py and its callers: which lines of a text       *)
(* become headings.                                                        *)
(*                                                                         *)
(* A line is what the regular expressions tell apart: what it says (the    *)
(* title of a section of the form, a short numbered line, or prose),       *)
(* whether a title is decorated (bullet, number, English name), and where  *)
(* its # comes from: none, typed by the author, the style of a Word        *)
(* paragraph, or promoted.                                                 *)
(***************************************************************************)
EXTENDS Sequences, FiniteSets

CONSTANT Sections   \* the sections of the psst-standard profile

Prose == {"numbered", "prose"}
ASSUME SectionsAssumption ==
  IsFiniteSet(Sections) /\ Sections # {} /\ Sections \cap Prose = {}
Marks == {"none", "typed", "styled", "promoted"}
TextLines == [says : Sections \cup Prose, decorated : BOOLEAN, mark : Marks]

Has(text, mark) == \E k \in DOMAIN text : text[k].mark = mark

BugStructured(line) ==   \* mutant: the rule for numbered lines is tried first
  CASE line.mark = "none" /\ (line.says = "numbered" \/ line.decorated) ->
         [line EXCEPT !.mark = "promoted"]
    [] line.mark = "none" /\ line.says \in Sections -> [line EXCEPT !.mark = "promoted"]
    [] OTHER -> line
\* One line: a title is promoted under its canonical name, a numbered line as it
\* is; neither expression accepts a # in front.
Structured(line) ==
  CASE line.mark = "none" /\ line.says \in Sections ->
         [line EXCEPT !.mark = "promoted", !.decorated = FALSE]
    [] line.mark = "none" /\ line.says = "numbered" -> [line EXCEPT !.mark = "promoted"]
    [] OTHER -> line

StructureHeadings(text) == [k \in DOMAIN text |-> Structured(text[k])]

\* The last step of every converter: one typed # in a pasted text, one heading
\* style in a Word file, and the text stays as it is.
Untouched(format, text) ==
  \/ format = "paste" /\ Has(text, "typed")
  \/ format = "docx" /\ Has(text, "styled")
Normalized(format, text) == IF Untouched(format, text) THEN text ELSE StructureHeadings(text)

\* External: planlint's annotate_sections matches a heading with the title of a
\* section only when nothing is left around it.
Matched(text) ==
  { s \in Sections : \E k \in DOMAIN text :
      text[k].says = s /\ text[k].mark # "none" /\ ~text[k].decorated }
===============================================================================
