---------------------------------- MODULE Hwpx ----------------------------------
(***************************************************************************)
(* app/converters/hwpx.py: convert_hwpx, one pass of root.iter() over the  *)
(* elements of every section file, with the set of elements that a table   *)
(* has consumed.                                                           *)
(*                                                                         *)
(* A section's elements are numbered in document order; up is the number   *)
(* of the parent, 0 for the section's root.  The runs of a paragraph are   *)
(* left out: their children count as the paragraph's.  A text (t) stands   *)
(* for its string; a tabbed one has an inline element, such as a tab, with *)
(* more text behind it.  The texts of a cell and the cells of a row are    *)
(* joined in document order, so a line keeps them as sets by their numbers.*)
(***************************************************************************)
EXTENDS Integers, Sequences, FiniteSets

CONSTANT Uploads   \* the .hwpx files to explore: sequences of section files

ElementKinds == {"p", "t", "tabbed", "tbl", "tr", "tc", "other"}
IsSection(f) ==
  /\ f.number \in Int /\ f.ok \in BOOLEAN
  /\ DOMAIN f.elems = 1 .. Len(f.elems) /\ Len(f.elems) \in Nat
  /\ \A i \in DOMAIN f.elems :
       /\ f.elems[i].kind \in ElementKinds /\ f.elems[i].up \in 0 .. i - 1
       /\ \A k \in f.elems[i].up + 1 .. i : f.elems[k].up >= f.elems[i].up   \* document order
ASSUME UploadsAssumption ==
  \A u \in Uploads : DOMAIN u = 1 .. Len(u) /\ Len(u) \in Nat /\ \A f \in DOMAIN u : IsSection(u[f])
\* A text stands in (a run of) a paragraph; elsewhere only a table's cell reads it.
ASSUME TextsAssumption ==
  \A u \in Uploads : \A f \in DOMAIN u : \A t \in DOMAIN u[f].elems :
    LET elems == u[f].elems IN
    elems[t].kind \in {"t", "tabbed"} =>
      elems[t].up \in DOMAIN elems /\ elems[elems[t].up].kind = "p"

VARIABLES
  upload,    \* the file: its section files in the order of the ZIP directory
  todo,      \* section files not opened yet
  sec,       \* the one being read, 0 before the first
  at,        \* the element root.iter() has reached
  consumed,  \* ids of the elements inside the tables met so far
  rows,      \* rows of the current table still to be flattened
  lines,     \* paragraphs: the lines collected
  hasTable,  \* has_table
  outcome    \* reading, converted or rejected (ConversionError)

hwpxVars == <<upload, todo, sec, at, consumed, rows, lines, hasTable, outcome>>

Elems(f) == upload[f].elems
Elem(f, i) == Elems(f)[i]

\* elem.iter(): the element and what is inside it, consecutive in document order.
Iter(f, i) ==
  { j \in DOMAIN Elems(f) : i <= j /\ \A k \in i + 1 .. j : Elem(f, k).up >= i }
Children(f, i, kinds) ==
  { j \in DOMAIN Elems(f) : Elem(f, j).up = i /\ Elem(f, j).kind \in kinds }
Texts == {"t", "tabbed"}

BugBefore(f, g) ==   \* mutant: the files are read in the order of the ZIP
  f < g
\* The order of sorted(.., key=_section_index); a name without number counts as 0.
Before(f, g) ==
  \/ upload[f].number < upload[g].number
  \/ upload[f].number = upload[g].number /\ f < g

Line(i, cells) == [sec |-> sec, elem |-> i, cells |-> cells]
Emit(line) ==
  lines' = IF \E c \in DOMAIN line.cells : line.cells[c] # {} THEN Append(lines, line) ELSE lines
-------------------------------------------------------------------------------
HwpxInit ==
  /\ upload \in Uploads
  /\ todo = DOMAIN upload /\ sec = 0 /\ at = 0
  /\ consumed = {} /\ rows = {} /\ lines = <<>> /\ hasTable = FALSE
  /\ outcome = "reading"

SectionDone == rows = {} /\ (sec # 0 => at = Len(Elems(sec)))

OpenSection ==
  /\ outcome = "reading" /\ SectionDone
  /\ \E f \in todo :
       /\ \A g \in todo \ {f} : Before(f, g)
       /\ todo' = todo \ {f}
       /\ IF upload[f].ok THEN sec' = f /\ at' = 0 /\ consumed' = {} /\ UNCHANGED outcome
                          ELSE outcome' = "rejected" /\ UNCHANGED <<sec, at, consumed>>
  /\ UNCHANGED <<upload, rows, lines, hasTable>>

\* The next element of root.iter().
Visit(i) ==
  /\ outcome = "reading" /\ sec # 0 /\ rows = {}
  /\ i = at + 1 /\ i \in DOMAIN Elems(sec)
  /\ at' = i
  /\ UNCHANGED <<upload, todo, sec, outcome>>

BugSwallowed(f, i) ==   \* mutant: only the paragraphs of a table are consumed
  { j \in Iter(f, i) : Elem(f, j).kind = "p" }
Swallowed(f, i) == Iter(f, i)

BugRowsOf(f, i) ==   \* mutant: rows by iter(), those of nested tables too
  { j \in Iter(f, i) : Elem(f, j).kind = "tr" }
RowsOf(f, i) == Children(f, i, {"tr"})

VisitTable(i) ==
  /\ Visit(i) /\ Elem(sec, i).kind = "tbl" /\ i \notin consumed
  /\ hasTable' = TRUE
  /\ consumed' = consumed \cup Swallowed(sec, i)
  /\ rows' = RowsOf(sec, i)
  /\ UNCHANGED lines

\* One row of it: every text below a direct cell; an empty cell keeps its place.
FlattenRow ==
  /\ outcome = "reading" /\ rows # {}
  /\ \E r \in rows :
       /\ \A s \in rows : r <= s
       /\ Emit(Line(r, [c \in Children(sec, r, {"tc"}) |->
                          { t \in Iter(sec, c) : Elem(sec, t).kind \in Texts }]))
       /\ rows' = rows \ {r}
  /\ UNCHANGED <<upload, todo, sec, at, consumed, hasTable, outcome>>

VisitParagraph(i) ==
  /\ Visit(i) /\ Elem(sec, i).kind = "p" /\ i \notin consumed
  /\ Emit(Line(i, [c \in {i} |-> Children(sec, i, Texts)]))
  /\ UNCHANGED <<consumed, rows, hasTable>>

VisitOther(i) ==
  /\ Visit(i) /\ (i \in consumed \/ Elem(sec, i).kind \notin {"tbl", "p"})
  /\ UNCHANGED <<consumed, rows, lines, hasTable>>

EndOfFile ==
  /\ outcome = "reading" /\ SectionDone /\ todo = {}
  /\ outcome' = IF lines = <<>> THEN "rejected" ELSE "converted"
  /\ UNCHANGED <<upload, todo, sec, at, consumed, rows, lines, hasTable>>

HwpxNext ==
  \/ OpenSection \/ FlattenRow \/ EndOfFile
  \/ VisitTable(at + 1) \/ VisitParagraph(at + 1) \/ VisitOther(at + 1)

HwpxSpec == HwpxInit /\ [][HwpxNext]_hwpxVars
-------------------------------------------------------------------------------
\* The lines follow the document: section files by their number, and within one
\* the paragraphs and table rows in the order of their elements.
DocumentOrder ==
  \A k, l \in DOMAIN lines : k < l =>
    LET f == lines[k].sec   g == lines[l].sec IN
    IF f = g THEN lines[k].elem < lines[l].elem
    ELSE \/ upload[f].number < upload[g].number
         \/ upload[f].number = upload[g].number /\ f < g

\* No text of the document comes out twice, however tables are nested: what a
\* table has flattened is not collected again as a paragraph or an inner table.
TextOnce ==
  \A k, l \in DOMAIN lines : lines[k].sec = lines[l].sec =>
    \A c \in DOMAIN lines[k].cells, d \in DOMAIN lines[l].cells :
      lines[k].cells[c] \cap lines[l].cells[d] # {} => k = l /\ c = d

Extracted(f) ==
  UNION { UNION { lines[k].cells[c] : c \in DOMAIN lines[k].cells } :
          k \in { l \in DOMAIN lines : lines[l].sec = f } }

\* Where text t of file f belongs: its paragraph, or the row and cell of the
\* outermost table around it; nowhere when it is in such a table but in no cell
\* (a caption).
Around(f, t, kind) == { a \in DOMAIN Elems(f) : Elem(f, a).kind = kind /\ t \in Iter(f, a) }
Home(f, t) ==
  LET tables == Around(f, t, "tbl") IN
  IF tables = {} THEN { <<Elem(f, t).up, Elem(f, t).up>> }
  ELSE { h \in Around(f, t, "tr") \X Around(f, t, "tc") :
           /\ Elem(f, h[2]).up = h[1] /\ Elem(f, h[1]).up \in tables
           /\ \A a \in tables : Elem(f, h[1]).up <= a }

\* A converted file has every text exactly where it belongs: the row of a table
\* is kept together, nested tables end up in the cell of the outer one, and the
\* only texts left out are those of captions.
EveryTextAtHome ==
  outcome = "converted" =>
    \A f \in DOMAIN upload : \A t \in { j \in DOMAIN Elems(f) : Elem(f, j).kind \in Texts } :
      Home(f, t) = UNION { { <<lines[k].elem, c>> :
                               c \in { d \in DOMAIN lines[k].cells : t \in lines[k].cells[d] } } :
                           k \in { l \in DOMAIN lines : lines[l].sec = f } }

\* A loss of the conversion is announced (design document, section 8): every
\* string of the document is in a line, or the warning about tables is given.
\* The string behind an inline element of a t breaks it: t.text ends there.
Strings(f) == { <<t, "text">> : t \in { j \in DOMAIN Elems(f) : Elem(f, j).kind \in Texts } }
         \cup { <<t, "tail">> : t \in { j \in DOMAIN Elems(f) : Elem(f, j).kind = "tabbed" } }
LossAnnounced ==
  outcome = "converted" /\ ~hasTable =>
    \A f \in DOMAIN upload :
      Strings(f) \subseteq { <<t, "text">> : t \in Extracted(f) }
===============================================================================
