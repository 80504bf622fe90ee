------------------------------ MODULE MCDiagnosis -------------------------------
(* Instances of Diagnosis.tla for TLC. *)
EXTENDS Diagnosis

CONSTANTS problem, team,
          MaxPlain, MaxTable, MaxNested,  \* bounds: elements of a section, or more of them in a table
          MaxLines                        \* bound: lines of a text document

Plain == Prosaic("prose")
Title(s, decorated, mark) == [says |-> s, decorated |-> decorated, mark |-> mark]

\* ---- section files: every tree of the schema up to a size --------------------
El(kind, up) == [kind |-> kind, up |-> up, line |-> Plain]
Inside == [root |-> {"p", "tbl"}, p |-> {"t", "tabbed", "tbl", "other"}, tbl |-> {"tr", "other"},
           tr |-> {"tc"}, tc |-> {"p"}, other |-> {"p"}, t |-> {}, tabbed |-> {}]

\* The element that comes next in document order is a child of the last one or
\* of an element around it.
Open(d) == { i \in 0 .. Len(d) : \A k \in i + 1 .. Len(d) : d[k].up >= i }
Longer(d) ==
  UNION { { Append(d, El(kind, i)) : kind \in Inside[IF i = 0 THEN "root" ELSE d[i].kind] } :
          i \in Open(d) }
Trees(seed, n) ==
  LET of[k \in 0 .. n] == IF k = 0 THEN {seed} ELSE of[k - 1] \cup UNION { Longer(d) : d \in of[k - 1] }
  IN  of[n]

Cell   == <<El("tbl", 0), El("tr", 1), El("tc", 2), El("p", 3)>>
Nested == Cell \o <<El("tbl", 4), El("tr", 5), El("tc", 6), El("p", 7), El("t", 8)>>
Titled == <<El("p", 0), [El("t", 1) EXCEPT !.line = Title(problem, TRUE, "none")]>>
TitleInCell == Append(Cell, [El("t", 4) EXCEPT !.line = Title(team, TRUE, "none")])

File(number, elems) == [number |-> number, ok |-> TRUE, elems |-> elems]
Single == { <<File(0, d)>> : d \in Trees(<<>>, MaxPlain) \cup Trees(Cell, MaxTable)
                               \cup Trees(Nested, MaxNested) \cup Trees(Titled, MaxNested)
                               \cup Trees(TitleInCell, MaxNested) }
\* Section files in the order section10, section2, .. with a nameless (0) and a
\* broken one.
Several == { <<File(10, Titled), File(a, Nested), File(b, TitleInCell)>> : a, b \in {0, 2} }
           \cup { <<File(2, Titled), [File(1, Nested) EXCEPT !.ok = FALSE]>>, <<>> }
ZipFiles == (Single \cup Several)

\* ---- other documents -----------------------------------------------------------
Body == { Plain, [Plain EXCEPT !.says = "numbered"], Title(problem, TRUE, "none"), Title(team, FALSE, "none") }
Marked(mark) == { Title(problem, TRUE, mark), Title(team, FALSE, mark) }
UpTo(n, S) == UNION { [1 .. k -> S] : k \in 1 .. n }
Paragraph(styled, ls) == [styled |-> styled, cells |-> <<>>, text |-> ls]
Row(cells) == [styled |-> FALSE, cells |-> cells, text |-> <<>>]
Word == { Paragraph(styled, <<l>>) : styled \in BOOLEAN, l \in Body }
        \cup { Paragraph(TRUE, <<>>), Row(<< <<>> >>), Row(<< <<Title(team, FALSE, "none")>> >>),
               Row([c \in 1 .. 2 |-> <<Title(team, FALSE, "none")>>]),
               Row(<< <<>>, <<Plain, Title(team, TRUE, "none")>> >>) }
Others ==
  { [format |-> "paste", body |-> l] : l \in UpTo(MaxLines, Body \cup Marked("typed")) }
  \cup { [format |-> "docx", body |-> l] : l \in UpTo(MaxLines - 1, Word) }
  \cup { [format |-> "pdf", body |-> l] : l \in UpTo(MaxLines, Body) }

\* ---- findings and answers --------------------------------------------------------
At(severity, spans) == [severity |-> severity, at |-> spans]
RuleShapes == { <<>>, <<At("warning", << <<0, 1>> >>), At("warning", << <<0, 1>> >>)>>,
                <<At("info", << <<0, 2>> >>), At("critical", << <<1, 3>>, <<1, 2>> >>)>> }
AiShapes   == { <<At("warning", << <<1, 2>> >>)>>,
                <<At("critical", << <<1, 3>>, <<0, 1>> >>), At("info", <<>>)>> }
Indexes    == { <<>>, <<0>>, <<1, 0, -1>>, <<9, 2>> }
===============================================================================
