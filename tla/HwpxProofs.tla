------------------------------- MODULE HwpxProofs -------------------------------
(***************************************************************************)
(* What convert_hwpx guarantees for any file: the lines follow the         *)
(* document, no text comes out twice, however tables are nested, and every *)
(* text is where it belongs.                                               *)
(*                                                                         *)
(* The argument: the elements inside an element are consecutive (Iter), so *)
(* what a table has consumed lies in one piece behind the cursor           *)
(* (NoGaps).  An element the loop still visits as its own is therefore     *)
(* beyond everything any table has consumed, and the rows of a table lie   *)
(* apart from each other and beyond everything collected before.           *)
(*                                                                         *)
(* What is consumed is exactly what the tables behind the cursor contain,  *)
(* so the table the loop flattens is the outermost one around its texts.   *)
(* A line therefore holds only texts at home, and when the loop has passed *)
(* a paragraph or flattened a row, every text at home there is in its line.*)
(***************************************************************************)
EXTENDS Hwpx, TLAPS

CellMaps == UNION { [D -> SUBSET Nat] : D \in SUBSET Nat }
LineSet == [sec : Nat, elem : Nat, cells : CellMaps]

\* Every variable keeps its type, and the cursor stays in a file that was opened.
HwpxTypes ==
  /\ upload \in Uploads
  /\ todo \subseteq DOMAIN upload
  /\ sec = 0 \/ sec \in DOMAIN upload \ todo
  /\ at \in Nat
  /\ sec = 0 => consumed = {} /\ rows = {} /\ lines = <<>>
  /\ sec # 0 => consumed \subseteq DOMAIN Elems(sec) /\ rows \subseteq DOMAIN Elems(sec)
  /\ lines \in Seq(LineSet)

\* The files were opened in order, and the lines come from them in order.
FilesInOrder ==
  /\ \A g \in DOMAIN upload \ todo : \A f \in todo : Before(g, f)
  /\ \A k \in DOMAIN lines :
       /\ lines[k].sec \in DOMAIN upload \ todo
       /\ lines[k].sec = sec \/ Before(lines[k].sec, sec)

\* What the tables of this file have consumed beyond the cursor is one piece.
NoGaps == \A j \in consumed : \A i \in at + 1 .. j : i \in consumed

\* The pending rows are rows of one table, consumed with all they contain.
RowsTogether ==
  /\ \A r \in rows : Iter(sec, r) \subseteq consumed
  /\ \A r, s \in rows : Elem(sec, r).up = Elem(sec, s).up

\* Lines of this file lie before the cursor or in a table, and before every
\* pending row; so do their texts, which no pending row contains.
LinesBehind ==
  \A k \in DOMAIN lines : lines[k].sec = sec =>
    /\ lines[k].elem <= at \/ lines[k].elem \in consumed
    /\ \A r \in rows : lines[k].elem < r
TextsBehind ==
  \A k \in DOMAIN lines : lines[k].sec = sec =>
    \A c \in DOMAIN lines[k].cells : \A t \in lines[k].cells[c] :
      /\ t \in DOMAIN Elems(sec)
      /\ t \in consumed \/ Elem(sec, t).up <= at
      /\ \A r \in rows : t \notin Iter(sec, r)

HwpxInv ==
  /\ HwpxTypes /\ FilesInOrder /\ NoGaps /\ RowsTogether
  /\ LinesBehind /\ TextsBehind
  /\ DocumentOrder /\ TextOnce
-------------------------------------------------------------------------------
\* What UploadsAssumption says of one element.
LEMMA Shape ==
  ASSUME upload \in Uploads, NEW f \in DOMAIN upload
  PROVE  /\ DOMAIN upload = 1 .. Len(upload) /\ Len(upload) \in Nat
         /\ DOMAIN Elems(f) = 1 .. Len(Elems(f)) /\ Len(Elems(f)) \in Nat
         /\ DOMAIN Elems(f) \subseteq Nat /\ f \in Nat /\ f # 0
         /\ upload[f].number \in Int
         /\ \A i \in DOMAIN Elems(f) :
              /\ Elem(f, i).up \in Nat /\ Elem(f, i).up < i
              /\ \A k \in Elem(f, i).up + 1 .. i : Elem(f, k).up >= Elem(f, i).up
<1>1. DOMAIN upload = 1 .. Len(upload) /\ Len(upload) \in Nat /\ IsSection(upload[f])
  BY UploadsAssumption
<1>2. DOMAIN Elems(f) = 1 .. Len(Elems(f)) /\ Len(Elems(f)) \in Nat
  BY <1>1 DEF IsSection, Elems
<1>3. \A i \in DOMAIN Elems(f) :
        /\ Elem(f, i).up \in 0 .. i - 1
        /\ \A k \in Elem(f, i).up + 1 .. i : Elem(f, k).up >= Elem(f, i).up
  BY <1>1 DEF IsSection, Elems, Elem
<1>4. upload[f].number \in Int
  BY <1>1 DEF IsSection
<1> QED  BY <1>1, <1>2, <1>3, <1>4

\* A child is inside its parent, behind it.
LEMMA ChildInside ==
  ASSUME upload \in Uploads, NEW f \in DOMAIN upload, NEW i \in DOMAIN Elems(f),
         NEW kinds, NEW j \in Children(f, i, kinds)
  PROVE  j \in Iter(f, i) /\ i < j /\ j \in DOMAIN Elems(f) /\ Elem(f, j).up = i
BY Shape DEF Children, Iter

\* What is inside an element of another element is inside that one.
LEMMA IterInside ==
  ASSUME upload \in Uploads, NEW f \in DOMAIN upload, NEW i \in DOMAIN Elems(f),
         NEW j \in Iter(f, i)
  PROVE  Iter(f, j) \subseteq Iter(f, i)
<1> SUFFICES ASSUME NEW t \in Iter(f, j)  PROVE t \in Iter(f, i)
  OBVIOUS
<1>1. /\ j \in DOMAIN Elems(f) /\ i <= j /\ t \in DOMAIN Elems(f) /\ j <= t
      /\ \A m \in i + 1 .. j : Elem(f, m).up >= i
      /\ \A m \in j + 1 .. t : Elem(f, m).up >= j
  BY DEF Iter
<1>2. i \in Nat /\ j \in Nat /\ t \in Nat /\ \A k \in 1 .. t : Elem(f, k).up \in Nat
  BY <1>1, Shape
<1>3. ASSUME NEW k \in i + 1 .. t  PROVE Elem(f, k).up >= i
  BY <1>1, <1>2
<1> QED  BY <1>1, <1>2, <1>3 DEF Iter

\* An element that does not hang below an earlier one shares nothing with it.
LEMMA Apart ==
  ASSUME upload \in Uploads, NEW f \in DOMAIN upload,
         NEW r \in DOMAIN Elems(f), NEW s \in DOMAIN Elems(f), r < s, Elem(f, s).up < r
  PROVE  Iter(f, r) \cap Iter(f, s) = {}
<1> SUFFICES ASSUME NEW t \in Iter(f, r), t \in Iter(f, s)  PROVE FALSE
  OBVIOUS
<1>1. s <= t /\ t \in Nat /\ r \in Nat /\ s \in Nat /\ Elem(f, s).up \in Nat
  BY Shape DEF Iter
<1>2. s \in r + 1 .. t
  BY <1>1
<1>3. Elem(f, s).up >= r
  BY <1>2 DEF Iter
<1> QED  BY <1>1, <1>3

\* Siblings share nothing.
LEMMA SiblingsApart ==
  ASSUME upload \in Uploads, NEW f \in DOMAIN upload,
         NEW r \in DOMAIN Elems(f), NEW s \in DOMAIN Elems(f), r # s, Elem(f, r).up = Elem(f, s).up
  PROVE  Iter(f, r) \cap Iter(f, s) = {}
<1>1. /\ r \in Nat /\ s \in Nat /\ Elem(f, r).up \in Nat
      /\ Elem(f, r).up < r /\ Elem(f, s).up < s
  BY Shape
<1>2. CASE r < s
  BY <1>1, <1>2, Apart
<1>3. CASE s < r
  BY <1>1, <1>3, Apart
<1> QED  BY <1>1, <1>2, <1>3

LEMMA LineTypes ==
  ASSUME HwpxTypes, NEW k \in DOMAIN lines
  PROVE  lines[k] \in LineSet /\ lines[k].elem \in Nat /\ lines[k].sec \in Nat
<1>1. lines[k] \in LineSet
  BY DEF HwpxTypes
<1> QED  BY <1>1 DEF LineSet

\* Emit adds the line at the end or leaves it out.
LEMMA EmitAdds ==
  ASSUME lines \in Seq(LineSet), NEW line \in LineSet, Emit(line)
  PROVE  /\ lines' \in Seq(LineSet)
         /\ \A k \in DOMAIN lines' :
              k \in Nat /\ ((k \in DOMAIN lines /\ lines'[k] = lines[k]) \/ lines'[k] = line)
         /\ \A k, l \in DOMAIN lines' : k < l =>
              /\ k \in DOMAIN lines /\ lines'[k] = lines[k]
              /\ (l \in DOMAIN lines /\ lines'[l] = lines[l]) \/ lines'[l] = line
<1>1. CASE lines' = lines
  <2>1. DOMAIN lines = 1 .. Len(lines) /\ Len(lines) \in Nat
    OBVIOUS
  <2> QED  BY <1>1, <2>1
<1>2. CASE lines' = Append(lines, line)
  <2>1. /\ DOMAIN lines = 1 .. Len(lines) /\ Len(lines) \in Nat
        /\ DOMAIN lines' = 1 .. Len(lines) + 1 /\ lines' \in Seq(LineSet)
        /\ lines'[Len(lines) + 1] = line
        /\ \A k \in 1 .. Len(lines) : lines'[k] = lines[k]
    BY <1>2
  <2> QED  BY <2>1
<1> QED  BY <1>1, <1>2 DEF Emit
-------------------------------------------------------------------------------
\* The element visited as its own lies behind everything consumed.
LEMMA BehindConsumed ==
  ASSUME HwpxInv, sec # 0, at + 1 \notin consumed
  PROVE  \A j \in consumed : j \in Nat /\ j < at + 1
<1> SUFFICES ASSUME NEW j \in consumed  PROVE j \in Nat /\ j < at + 1
  OBVIOUS
<1>1. j \in Nat /\ at \in Nat
  BY Shape DEF HwpxInv, HwpxTypes
<1>2. \A i \in at + 1 .. j : i \in consumed
  BY DEF HwpxInv, NoGaps
<1> QED  BY <1>1, <1>2

LEMMA InitInv == HwpxInit => HwpxInv
BY DEF HwpxInit, HwpxInv, HwpxTypes, FilesInOrder, NoGaps, RowsTogether, LinesBehind,
       TextsBehind, DocumentOrder, TextOnce

\* OpenSection: no line is from the new file yet, and it is the next in order.
LEMMA OpenSectionInv ==
  ASSUME HwpxInv, OpenSection
  PROVE  HwpxInv'
<1> USE DEF HwpxInv
<1>1. PICK f \in todo :
        /\ \A g \in todo \ {f} : Before(f, g)
        /\ todo' = todo \ {f}
        /\ IF upload[f].ok THEN sec' = f /\ at' = 0 /\ consumed' = {} /\ UNCHANGED outcome
                           ELSE outcome' = "rejected" /\ UNCHANGED <<sec, at, consumed>>
  BY DEF OpenSection
<1>2. /\ upload' = upload /\ rows' = rows /\ rows = {} /\ lines' = lines
      /\ f \in DOMAIN upload /\ f \in Nat /\ f # 0
  BY Shape DEF OpenSection, SectionDone, HwpxTypes
<1>3. HwpxTypes'
  BY <1>1, <1>2 DEF HwpxTypes, Elems
<1>4. FilesInOrder'
  BY <1>1, <1>2 DEF FilesInOrder, Before
<1>5. NoGaps' /\ RowsTogether'
  BY <1>1, <1>2 DEF NoGaps, RowsTogether
<1>6. LinesBehind' /\ TextsBehind'
  <2>1. CASE sec' = f
    <3>1. \A k \in DOMAIN lines : lines[k].sec # f
      BY DEF FilesInOrder
    <3> QED  BY <1>2, <2>1, <3>1 DEF LinesBehind, TextsBehind
  <2>2. CASE UNCHANGED <<sec, at, consumed>>
    BY <1>2, <2>2 DEF LinesBehind, TextsBehind, Elem, Elems, Iter
  <2> QED  BY <1>1, <2>1, <2>2
<1>7. DocumentOrder' /\ TextOnce'
  BY <1>2 DEF DocumentOrder, TextOnce
<1> QED  BY <1>3, <1>4, <1>5, <1>6, <1>7

\* A table takes what it contains, in one piece right behind the cursor; its rows
\* contain nothing collected before.
LEMMA VisitTableInv ==
  ASSUME HwpxInv, NEW i, i = at + 1, VisitTable(i)
  PROVE  HwpxInv'
<1> USE DEF HwpxInv
<1>1. /\ sec # 0 /\ sec \in DOMAIN upload /\ rows = {} /\ at \in Nat
      /\ i \in DOMAIN Elems(sec) /\ i \in Nat /\ i \notin consumed
      /\ upload' = upload /\ todo' = todo /\ sec' = sec /\ at' = i /\ lines' = lines
      /\ consumed' = consumed \cup Iter(sec, i)
      /\ rows' = Children(sec, i, {"tr"})
  BY DEF VisitTable, Visit, HwpxTypes, Swallowed, RowsOf
<1>2. \A j \in consumed : j \in Nat /\ j < i
  BY <1>1, BehindConsumed
<1>3. \A r \in rows' : /\ r \in Iter(sec, i) /\ i < r /\ r \in DOMAIN Elems(sec) /\ r \in Nat
                       /\ Elem(sec, r).up = i
  BY <1>1, ChildInside, Shape DEF HwpxTypes
<1>4. \A r \in rows' : Iter(sec, r) \subseteq Iter(sec, i)
  BY <1>1, <1>3, IterInside DEF HwpxTypes
<1>5. HwpxTypes'
  BY <1>1, <1>3 DEF HwpxTypes, Iter, Elems
<1>6. FilesInOrder'
  BY <1>1 DEF FilesInOrder, Before
<1>7. NoGaps'
  <2> SUFFICES ASSUME NEW j \in consumed', NEW m \in i + 1 .. j  PROVE m \in Iter(sec, i)
    BY <1>1 DEF NoGaps
  <2>1. j \in Iter(sec, i)
    BY <1>1, <1>2
  <2>2. j \in DOMAIN Elems(sec) /\ DOMAIN Elems(sec) = 1 .. Len(Elems(sec)) /\ j \in Nat
    BY <1>1, <2>1, Shape DEF Iter, HwpxTypes
  <2> QED  BY <1>1, <2>1, <2>2 DEF Iter
<1>8. RowsTogether'
  BY <1>1, <1>3, <1>4 DEF RowsTogether, Iter, Elem, Elems
<1>9. LinesBehind'
  <2> SUFFICES ASSUME NEW k \in DOMAIN lines, lines[k].sec = sec
               PROVE  /\ lines[k].elem <= i \/ lines[k].elem \in consumed'
                      /\ \A r \in rows' : lines[k].elem < r
    BY <1>1 DEF LinesBehind
  <2>1. lines[k].elem \in Nat /\ lines[k].elem < i
    BY <1>1, <1>2, LineTypes DEF LinesBehind
  <2> QED  BY <1>1, <1>3, <2>1
<1>10. TextsBehind'
  <2> SUFFICES ASSUME NEW k \in DOMAIN lines, lines[k].sec = sec,
                      NEW c \in DOMAIN lines[k].cells, NEW t \in lines[k].cells[c]
               PROVE  /\ t \in DOMAIN Elems(sec)
                      /\ t \in consumed' \/ Elem(sec, t).up <= i
                      /\ \A r \in rows' : t \notin Iter(sec, r)
    BY <1>1 DEF TextsBehind, Elem, Elems, Iter
  <2>1. t \in DOMAIN Elems(sec) /\ (t \in consumed \/ Elem(sec, t).up <= at)
    BY DEF TextsBehind
  <2>2. t \in Nat /\ Elem(sec, t).up \in Nat
    BY <1>1, <2>1, Shape DEF HwpxTypes
  <2>3. ASSUME NEW r \in rows', t \in Iter(sec, r)  PROVE FALSE
    <3>1. t \in Iter(sec, i) /\ i < t
      BY <1>1, <1>3, <1>4, <2>2, <2>3 DEF Iter
    <3>2. t \in i + 1 .. t
      BY <1>1, <2>2, <3>1
    <3>3. Elem(sec, t).up >= i
      BY <3>1, <3>2 DEF Iter
    <3> QED  BY <1>1, <1>2, <2>1, <2>2, <3>1, <3>3
  <2> QED  BY <1>1, <2>1, <2>2, <2>3
<1>11. DocumentOrder' /\ TextOnce'
  BY <1>1 DEF DocumentOrder, TextOnce
<1> QED  BY <1>5, <1>6, <1>7, <1>8, <1>9, <1>10, <1>11

\* A line of the current file, behind all others of it and with texts of its own.
LEMMA EmitInv ==
  ASSUME HwpxInv, NEW line \in LineSet, Emit(line),
         upload' = upload, todo' = todo, sec' = sec, sec # 0, line.sec = sec,
         \A k \in DOMAIN lines : lines[k].sec = sec =>
           /\ lines[k].elem < line.elem
           /\ \A c \in DOMAIN lines[k].cells, d \in DOMAIN line.cells :
                lines[k].cells[c] \cap line.cells[d] = {},
         \A c, d \in DOMAIN line.cells : c # d => line.cells[c] \cap line.cells[d] = {}
  PROVE  lines' \in Seq(LineSet) /\ FilesInOrder' /\ DocumentOrder' /\ TextOnce'
<1> USE DEF HwpxInv
<1>1. lines' \in Seq(LineSet)
  BY EmitAdds DEF HwpxTypes
<1>2. /\ \A k \in DOMAIN lines' :
           k \in Nat /\ ((k \in DOMAIN lines /\ lines'[k] = lines[k]) \/ lines'[k] = line)
      /\ \A k, l \in DOMAIN lines' : k < l =>
           /\ k \in DOMAIN lines /\ lines'[k] = lines[k]
           /\ (l \in DOMAIN lines /\ lines'[l] = lines[l]) \/ lines'[l] = line
  BY EmitAdds DEF HwpxTypes
<1>3. FilesInOrder'
  BY <1>2 DEF FilesInOrder, Before, HwpxTypes
<1>4. DocumentOrder'
  <2> SUFFICES ASSUME NEW k \in DOMAIN lines', NEW l \in DOMAIN lines', k < l
               PROVE  LET f == lines'[k].sec   g == lines'[l].sec IN
                      IF f = g THEN lines'[k].elem < lines'[l].elem ELSE Before(f, g)
    BY DEF DocumentOrder, Before
  <2>1. CASE l \in DOMAIN lines /\ lines'[l] = lines[l]
    BY <1>2, <2>1 DEF DocumentOrder, Before
  <2>2. CASE lines'[l] = line
    BY <1>2, <2>2 DEF FilesInOrder
  <2> QED  BY <1>2, <2>1, <2>2
<1>5. TextOnce'
  <2> SUFFICES ASSUME NEW k \in DOMAIN lines', NEW l \in DOMAIN lines',
                      lines'[k].sec = lines'[l].sec,
                      NEW c \in DOMAIN lines'[k].cells, NEW d \in DOMAIN lines'[l].cells,
                      lines'[k].cells[c] \cap lines'[l].cells[d] # {}
               PROVE  k = l /\ c = d
    BY DEF TextOnce
  <2>1. k \in Nat /\ l \in Nat
    BY <1>2
  <2>2. CASE k = l
    BY <1>2, <2>2 DEF TextOnce
  <2>3. CASE k < l
    BY <1>2, <2>1, <2>3 DEF TextOnce
  <2>4. CASE l < k
    BY <1>2, <2>1, <2>4 DEF TextOnce
  <2> QED  BY <2>1, <2>2, <2>3, <2>4
<1> QED  BY <1>1, <1>3, <1>4, <1>5

\* The first pending row: its cells share nothing, neither with each other nor
\* with the rows that wait nor with what was collected before.
LEMMA FlattenRowInv ==
  ASSUME HwpxInv, FlattenRow
  PROVE  HwpxInv'
<1> USE DEF HwpxInv
<1>1. PICK r \in rows :
        /\ \A s \in rows : r <= s
        /\ Emit(Line(r, [c \in Children(sec, r, {"tc"}) |->
                           { t \in Iter(sec, c) : Elem(sec, t).kind \in Texts }]))
        /\ rows' = rows \ {r}
  BY DEF FlattenRow
<1> DEFINE tcs   == Children(sec, r, {"tc"})
           cells == [c \in tcs |-> { t \in Iter(sec, c) : Elem(sec, t).kind \in Texts }]
           line  == Line(r, cells)
<1>2. /\ sec # 0 /\ sec \in DOMAIN upload /\ upload \in Uploads /\ at \in Nat
      /\ r \in DOMAIN Elems(sec) /\ rows \subseteq DOMAIN Elems(sec)
      /\ DOMAIN Elems(sec) \subseteq Nat /\ sec \in Nat
      /\ upload' = upload /\ todo' = todo /\ sec' = sec /\ at' = at /\ consumed' = consumed
  BY <1>1, Shape DEF FlattenRow, HwpxTypes
<1>3. \A c \in tcs : /\ c \in DOMAIN Elems(sec) /\ Elem(sec, c).up = r /\ r < c
                     /\ Iter(sec, c) \subseteq Iter(sec, r)
  BY <1>2, ChildInside, IterInside
<1>4. Iter(sec, r) \subseteq consumed /\ Iter(sec, r) \subseteq DOMAIN Elems(sec)
  BY <1>1 DEF RowsTogether, Iter
<1>5. /\ line \in LineSet /\ line.sec = sec /\ line.elem = r /\ line.cells = cells
      /\ DOMAIN cells = tcs /\ \A c \in tcs : cells[c] \subseteq Iter(sec, c)
  <2>1. cells \in [tcs -> SUBSET Nat] /\ tcs \in SUBSET Nat
    BY <1>2, <1>3, <1>4
  <2>2. cells \in CellMaps
    BY <2>1 DEF CellMaps
  <2> HIDE DEF cells
  <2>3. line \in LineSet /\ line.sec = sec /\ line.elem = r /\ line.cells = cells
    BY <1>2, <2>2 DEF Line, LineSet
  <2> QED  BY <2>3 DEF cells
<1>6. \A c, d \in tcs : c # d => cells[c] \cap cells[d] = {}
  <2> SUFFICES ASSUME NEW c \in tcs, NEW d \in tcs, c # d  PROVE cells[c] \cap cells[d] = {}
    OBVIOUS
  <2>1. Iter(sec, c) \cap Iter(sec, d) = {}
    BY <1>2, <1>3, SiblingsApart
  <2> QED  BY <1>5, <2>1
<1>7. \A k \in DOMAIN lines : lines[k].sec = sec =>
        /\ lines[k].elem < r
        /\ \A c \in DOMAIN lines[k].cells, d \in tcs : lines[k].cells[c] \cap cells[d] = {}
  BY <1>1, <1>3, <1>5 DEF LinesBehind, TextsBehind
<1>8. Emit(line)
  BY <1>1
<1> HIDE DEF cells, line
<1>9. lines' \in Seq(LineSet) /\ FilesInOrder' /\ DocumentOrder' /\ TextOnce'
  BY <1>2, <1>5, <1>6, <1>7, <1>8, EmitInv
<1>10. \A k \in DOMAIN lines' : (k \in DOMAIN lines /\ lines'[k] = lines[k]) \/ lines'[k] = line
  BY <1>5, <1>8, EmitAdds DEF HwpxTypes
<1>11. HwpxTypes' /\ NoGaps'
  BY <1>1, <1>2, <1>9 DEF HwpxTypes, NoGaps, Elems
<1>12. RowsTogether'
  BY <1>1, <1>2 DEF RowsTogether, Iter, Elem, Elems
<1>13. LinesBehind'
  <2>1. \A s \in rows' : s \in Nat /\ r < s
    BY <1>1, <1>2
  <2>2. r \in consumed
    <3>1. r \in Iter(sec, r)
      BY <1>2 DEF Iter
    <3> QED  BY <1>4, <3>1
  <2> QED  BY <1>1, <1>2, <1>5, <1>10, <2>1, <2>2 DEF LinesBehind
<1>14. TextsBehind'
  <2> SUFFICES ASSUME NEW k \in DOMAIN lines', lines'[k].sec = sec,
                      NEW c \in DOMAIN lines'[k].cells, NEW t \in lines'[k].cells[c]
               PROVE  /\ t \in DOMAIN Elems(sec)
                      /\ t \in consumed \/ Elem(sec, t).up <= at
                      /\ \A s \in rows' : t \notin Iter(sec, s)
    BY <1>2 DEF TextsBehind, Elem, Elems, Iter
  <2>1. CASE k \in DOMAIN lines /\ lines'[k] = lines[k]
    BY <1>1, <2>1 DEF TextsBehind
  <2>2. CASE lines'[k] = line
    <3>1. t \in Iter(sec, r)
      BY <1>3, <1>5, <2>2
    <3>2. \A s \in rows' : Iter(sec, r) \cap Iter(sec, s) = {}
      BY <1>1, <1>2, SiblingsApart DEF RowsTogether
    <3> QED  BY <1>4, <3>1, <3>2
  <2> QED  BY <1>10, <2>1, <2>2
<1> QED  BY <1>9, <1>11, <1>12, <1>13, <1>14

\* A paragraph outside every table: nothing of it was collected by one.
LEMMA VisitParagraphInv ==
  ASSUME HwpxInv, NEW i, i = at + 1, VisitParagraph(i)
  PROVE  HwpxInv'
<1> USE DEF HwpxInv
<1> DEFINE texts == Children(sec, i, Texts)
           cells == [c \in {i} |-> texts]
           line  == Line(i, cells)
<1>1. /\ sec # 0 /\ sec \in DOMAIN upload /\ upload \in Uploads /\ rows = {} /\ at \in Nat
      /\ i \in DOMAIN Elems(sec) /\ i \in Nat /\ i \notin consumed
      /\ DOMAIN Elems(sec) \subseteq Nat /\ sec \in Nat
      /\ upload' = upload /\ todo' = todo /\ sec' = sec /\ at' = i
      /\ consumed' = consumed /\ rows' = rows /\ Emit(line)
  BY Shape DEF VisitParagraph, Visit, HwpxTypes
<1>2. \A j \in consumed : j \in Nat /\ j < i
  BY <1>1, BehindConsumed
<1>3. \A t \in texts : t \in DOMAIN Elems(sec) /\ t \in Nat /\ i < t /\ Elem(sec, t).up = i
  BY <1>1, ChildInside
<1>4. /\ line \in LineSet /\ line.sec = sec /\ line.elem = i /\ line.cells = cells
      /\ DOMAIN cells = {i} /\ \A c \in {i} : cells[c] = texts
  <2>1. cells \in [{i} -> SUBSET Nat] /\ {i} \in SUBSET Nat
    BY <1>1, <1>3
  <2>2. cells \in CellMaps
    BY <2>1 DEF CellMaps
  <2> HIDE DEF cells
  <2>3. line \in LineSet /\ line.sec = sec /\ line.elem = i /\ line.cells = cells
    BY <1>1, <2>2 DEF Line, LineSet
  <2> QED  BY <2>3 DEF cells
<1> HIDE DEF cells, line, texts
<1>5. ASSUME NEW k \in DOMAIN lines, lines[k].sec = sec
      PROVE  /\ lines[k].elem < i
             /\ \A c \in DOMAIN lines[k].cells, d \in {i} : lines[k].cells[c] \cap cells[d] = {}
  <2>1. lines[k].elem < i
    BY <1>1, <1>2, <1>5, LineTypes DEF LinesBehind
  <2>2. \A c \in DOMAIN lines[k].cells : \A t \in lines[k].cells[c] :
          t \in consumed \/ Elem(sec, t).up <= at
    BY <1>5 DEF TextsBehind
  <2>3. \A t \in texts : t \notin consumed /\ ~(Elem(sec, t).up <= at)
    BY <1>1, <1>2, <1>3
  <2> QED  BY <1>4, <2>1, <2>2, <2>3
<1>6. lines' \in Seq(LineSet) /\ FilesInOrder' /\ DocumentOrder' /\ TextOnce'
  BY <1>1, <1>4, <1>5, EmitInv
<1>7. \A k \in DOMAIN lines' : (k \in DOMAIN lines /\ lines'[k] = lines[k]) \/ lines'[k] = line
  BY <1>1, <1>4, EmitAdds DEF HwpxTypes
<1>8. HwpxTypes' /\ NoGaps' /\ RowsTogether'
  BY <1>1, <1>2, <1>6 DEF HwpxTypes, NoGaps, RowsTogether, Elems
<1>9. LinesBehind'
  BY <1>1, <1>4, <1>5, <1>7, LineTypes DEF LinesBehind
<1>10. TextsBehind'
  <2> SUFFICES ASSUME NEW k \in DOMAIN lines', lines'[k].sec = sec,
                      NEW c \in DOMAIN lines'[k].cells, NEW t \in lines'[k].cells[c]
               PROVE  t \in DOMAIN Elems(sec) /\ (t \in consumed \/ Elem(sec, t).up <= i)
    BY <1>1 DEF TextsBehind, Elem, Elems, Iter
  <2>1. CASE k \in DOMAIN lines /\ lines'[k] = lines[k]
    <3>1. t \in DOMAIN Elems(sec) /\ (t \in consumed \/ Elem(sec, t).up <= at)
      BY <2>1 DEF TextsBehind
    <3>2. Elem(sec, t).up \in Nat
      BY <1>1, <3>1, Shape
    <3> QED  BY <1>1, <3>1, <3>2
  <2>2. CASE lines'[k] = line
    BY <1>1, <1>3, <1>4, <2>2
  <2> QED  BY <1>7, <2>1, <2>2
<1> QED  BY <1>6, <1>8, <1>9, <1>10

\* Any other element only moves the cursor.
LEMMA VisitOtherInv ==
  ASSUME HwpxInv, NEW i, i = at + 1, VisitOther(i)
  PROVE  HwpxInv'
<1> USE DEF HwpxInv
<1>1. /\ sec # 0 /\ sec \in DOMAIN upload /\ upload \in Uploads /\ at \in Nat /\ rows = {}
      /\ upload' = upload /\ todo' = todo /\ sec' = sec /\ at' = i
      /\ consumed' = consumed /\ rows' = rows /\ lines' = lines
  BY DEF VisitOther, Visit, HwpxTypes
<1>2. HwpxTypes' /\ FilesInOrder' /\ RowsTogether' /\ DocumentOrder' /\ TextOnce'
  BY <1>1 DEF HwpxTypes, FilesInOrder, Before, RowsTogether, DocumentOrder, TextOnce, Elems
<1>3. NoGaps'
  <2> SUFFICES ASSUME NEW j \in consumed, NEW m \in i + 1 .. j  PROVE m \in consumed
    BY <1>1 DEF NoGaps
  <2>1. j \in Nat
    BY <1>1, Shape DEF HwpxTypes
  <2>2. m \in at + 1 .. j
    BY <1>1, <2>1
  <2> QED  BY <2>2 DEF NoGaps
<1>4. LinesBehind'
  BY <1>1, LineTypes DEF LinesBehind
<1>5. TextsBehind'
  <2> SUFFICES ASSUME NEW k \in DOMAIN lines, lines[k].sec = sec,
                      NEW c \in DOMAIN lines[k].cells, NEW t \in lines[k].cells[c]
               PROVE  t \in DOMAIN Elems(sec) /\ (t \in consumed \/ Elem(sec, t).up <= i)
    BY <1>1 DEF TextsBehind, Elem, Elems, Iter
  <2>1. t \in DOMAIN Elems(sec) /\ (t \in consumed \/ Elem(sec, t).up <= at)
    BY DEF TextsBehind
  <2>2. Elem(sec, t).up \in Nat
    BY <1>1, <2>1, Shape
  <2> QED  BY <1>1, <2>1, <2>2
<1> QED  BY <1>2, <1>3, <1>4, <1>5

\* What does not touch what the invariant is about.
LEMMA UntouchedInv ==
  ASSUME HwpxInv, UNCHANGED <<upload, todo, sec, at, consumed, rows, lines>>
  PROVE  HwpxInv'
BY DEF HwpxInv, HwpxTypes, FilesInOrder, Before, NoGaps, RowsTogether, LinesBehind, TextsBehind,
       DocumentOrder, TextOnce, Elem, Elems, Iter

\* The inductive invariant holds for every file.
THEOREM HwpxInvHolds == HwpxSpec => []HwpxInv
<1>1. HwpxInv /\ [HwpxNext]_hwpxVars => HwpxInv'
  <2> SUFFICES ASSUME HwpxInv, [HwpxNext]_hwpxVars  PROVE HwpxInv'
    OBVIOUS
  <2>1. CASE OpenSection
    BY <2>1, OpenSectionInv
  <2>2. CASE FlattenRow
    BY <2>2, FlattenRowInv
  <2>3. CASE EndOfFile
    BY <2>3, UntouchedInv DEF EndOfFile
  <2>4. CASE VisitTable(at + 1)
    BY <2>4, VisitTableInv
  <2>5. CASE VisitParagraph(at + 1)
    BY <2>5, VisitParagraphInv
  <2>6. CASE VisitOther(at + 1)
    BY <2>6, VisitOtherInv
  <2>7. CASE UNCHANGED hwpxVars
    BY <2>7, UntouchedInv DEF hwpxVars
  <2> QED  BY <2>1, <2>2, <2>3, <2>4, <2>5, <2>6, <2>7 DEF HwpxNext
<1> QED  BY InitInv, <1>1, PTL DEF HwpxSpec

\* The lines of any file follow its section files by number and its elements.
THEOREM LinesFollowDocument == HwpxSpec => []DocumentOrder
<1>1. HwpxInv => DocumentOrder
  BY DEF HwpxInv
<1> QED  BY HwpxInvHolds, <1>1, PTL

\* No text of any file is collected twice, whatever the nesting of its tables.
THEOREM NothingDoubled == HwpxSpec => []TextOnce
<1>1. HwpxInv => TextOnce
  BY DEF HwpxInv
<1> QED  BY HwpxInvHolds, <1>1, PTL
-------------------------------------------------------------------------------
\* The texts of a file.
TextElems(f) == { t \in DOMAIN Elems(f) : Elem(f, t).kind \in Texts }

\* Text t of file f belongs in cell c of the line of element e.
HomeAt(f, t, e, c) ==
  \/ Around(f, t, "tbl") = {} /\ e = Elem(f, t).up /\ c = e
  \/ /\ e \in Around(f, t, "tr") /\ c \in Around(f, t, "tc") /\ Elem(f, c).up = e
     /\ Elem(f, e).up \in Around(f, t, "tbl")
     /\ \A a \in Around(f, t, "tbl") : Elem(f, e).up <= a

\* .. and is there.
Put(f, t, e, c) ==
  \E k \in DOMAIN lines :
    /\ lines[k].sec = f /\ lines[k].elem = e
    /\ c \in DOMAIN lines[k].cells /\ t \in lines[k].cells[c]

\* The loop is done with paragraph or row e of file f.
Passed(f, e) ==
  \/ f # sec
  \/ Elem(f, e).kind = "p" /\ e <= at
  \/ Elem(f, e).kind = "tr" /\ Elem(f, e).up <= at /\ e \notin rows

IsTable(b) == b \in DOMAIN Elems(sec) /\ Elem(sec, b).kind = "tbl"

AllAtHome ==
  \A k \in DOMAIN lines : \A c \in DOMAIN lines[k].cells : \A t \in lines[k].cells[c] :
    t \in TextElems(lines[k].sec) /\ HomeAt(lines[k].sec, t, lines[k].elem, c)
AllCollected ==
  outcome # "rejected" =>
    \A f \in DOMAIN upload \ todo : \A t \in TextElems(f) : \A e, c \in DOMAIN Elems(f) :
      HomeAt(f, t, e, c) /\ Passed(f, e) => Put(f, t, e, c)

\* The tables behind the cursor are consumed with all they contain, and nothing else is.
TablesConsumed ==
  sec # 0 => \A b : IsTable(b) /\ b <= at => Iter(sec, b) \subseteq consumed
ConsumedByTables == \A j \in consumed : \E b : IsTable(b) /\ b <= at /\ j \in Iter(sec, b)

\* The pending rows are those of a table that no other table contains.
RowsOutermost ==
  \A r \in rows :
    /\ Elem(sec, r).kind = "tr" /\ IsTable(Elem(sec, r).up) /\ Elem(sec, r).up <= at
    /\ \A b : IsTable(b) /\ b < Elem(sec, r).up => Elem(sec, r).up \notin Iter(sec, b)

ReadToTheEnd == outcome = "converted" => todo = {} /\ SectionDone

HomeInv ==
  /\ HwpxInv
  /\ AllAtHome /\ AllCollected /\ TablesConsumed /\ ConsumedByTables /\ RowsOutermost
  /\ ReadToTheEnd
-------------------------------------------------------------------------------
LEMMA InsideTypes ==
  ASSUME upload \in Uploads, NEW f \in DOMAIN upload, NEW i, NEW j \in Iter(f, i)
  PROVE  j \in DOMAIN Elems(f) /\ j \in Nat /\ i <= j
BY Shape DEF Iter

\* What lies between an element and something inside it is inside it too.
LEMMA Between ==
  ASSUME upload \in Uploads, NEW f \in DOMAIN upload, NEW i \in DOMAIN Elems(f),
         NEW t \in Iter(f, i), NEW m \in DOMAIN Elems(f), i <= m, m <= t
  PROVE  m \in Iter(f, i)
<1>1. i \in Nat /\ m \in Nat /\ t \in Nat
  BY Shape, InsideTypes
<1>2. \A k \in i + 1 .. m : k \in i + 1 .. t
  BY <1>1
<1> QED  BY <1>2 DEF Iter

LEMMA Itself ==
  ASSUME upload \in Uploads, NEW f \in DOMAIN upload, NEW i \in DOMAIN Elems(f)
  PROVE  i \in Iter(f, i)
BY Shape DEF Iter

\* A child inside an element is that element or has its parent inside it.
LEMMA ParentInside ==
  ASSUME upload \in Uploads, NEW f \in DOMAIN upload, NEW i \in DOMAIN Elems(f),
         NEW j \in Iter(f, i), j # i
  PROVE  i <= Elem(f, j).up
<1>1. i \in Nat /\ j \in Nat /\ i <= j
  BY Shape, InsideTypes
<1>2. j \in i + 1 .. j
  BY <1>1
<1> QED  BY <1>1, <1>2 DEF Iter

LEMMA TextShape ==
  ASSUME upload \in Uploads, NEW f \in DOMAIN upload, NEW t \in TextElems(f)
  PROVE  /\ t \in DOMAIN Elems(f) /\ Elem(f, t).kind \in Texts /\ Elem(f, t).kind \notin {"p", "tbl", "tr", "tc"}
         /\ Elem(f, t).up \in DOMAIN Elems(f) /\ Elem(f, Elem(f, t).up).kind = "p"
         /\ t \in Children(f, Elem(f, t).up, Texts)
<1>1. t \in DOMAIN upload[f].elems /\ upload[f].elems[t].kind \in {"t", "tabbed"}
  BY DEF TextElems, Elems, Elem, Texts
<1>2. /\ upload[f].elems[t].up \in DOMAIN upload[f].elems
      /\ upload[f].elems[upload[f].elems[t].up].kind = "p"
  BY <1>1, TextsAssumption
<1> QED  BY <1>1, <1>2 DEF TextElems, Elems, Elem, Texts, Children

\* The file does not change, nor what is said of it alone.
LEMMA SameFile ==
  ASSUME upload' = upload
  PROVE  /\ \A f : Elems(f)' = Elems(f) /\ TextElems(f)' = TextElems(f)
         /\ \A f, i : Elem(f, i)' = Elem(f, i) /\ Iter(f, i)' = Iter(f, i)
         /\ \A f, t, e, c : HomeAt(f, t, e, c)' <=> HomeAt(f, t, e, c)
<1>1. \A f : Elems(f)' = Elems(f)
  BY DEF Elems
<1>2. \A f, i : Elem(f, i)' = Elem(f, i)
  BY <1>1 DEF Elem
<1>3. \A f : TextElems(f)' = TextElems(f)
  BY <1>1, <1>2 DEF TextElems
<1>4. \A f, i : Iter(f, i)' = Iter(f, i)
  BY <1>1, <1>2 DEF Iter
<1>5. \A f, t, kind : Around(f, t, kind)' = Around(f, t, kind)
  BY <1>1, <1>2, <1>4 DEF Around
<1>6. \A f, t, e, c : HomeAt(f, t, e, c)' <=> HomeAt(f, t, e, c)
  BY <1>2, <1>5 DEF HomeAt
<1> QED  BY <1>1, <1>2, <1>3, <1>4, <1>6

\* Emit keeps the lines there are and adds one that is not empty.
LEMMA EmitKeeps ==
  ASSUME lines \in Seq(LineSet), NEW line \in LineSet, Emit(line)
  PROVE  /\ \A k \in DOMAIN lines : k \in DOMAIN lines' /\ lines'[k] = lines[k]
         /\ (\E c \in DOMAIN line.cells : line.cells[c] # {}) => \E k \in DOMAIN lines' : lines'[k] = line
<1>1. CASE lines' = lines /\ ~\E c \in DOMAIN line.cells : line.cells[c] # {}
  BY <1>1
<1>2. CASE lines' = Append(lines, line)
  <2>1. /\ DOMAIN lines = 1 .. Len(lines) /\ Len(lines) \in Nat
        /\ DOMAIN lines' = 1 .. Len(lines) + 1
        /\ lines'[Len(lines) + 1] = line
        /\ \A k \in 1 .. Len(lines) : lines'[k] = lines[k]
    BY <1>2
  <2> QED  BY <2>1
<1> QED  BY <1>1, <1>2 DEF Emit

\* What was collected stays; what the step passes has to be collected by it.
LEMMA CollectedStays ==
  ASSUME AllCollected, upload' = upload, todo' = todo, sec' = sec, outcome = "reading",
         \A k \in DOMAIN lines : k \in DOMAIN lines' /\ lines'[k] = lines[k],
         \A t \in TextElems(sec) : \A e, c \in DOMAIN Elems(sec) :
           HomeAt(sec, t, e, c) /\ Passed(sec, e)' /\ ~Passed(sec, e) => Put(sec, t, e, c)'
  PROVE  AllCollected'
<1>1. SUFFICES ASSUME NEW f \in DOMAIN upload \ todo, NEW t \in TextElems(f),
                      NEW e \in DOMAIN Elems(f), NEW c \in DOMAIN Elems(f),
                      HomeAt(f, t, e, c), Passed(f, e)'
               PROVE  Put(f, t, e, c)'
  BY SameFile DEF AllCollected
<1>2. CASE Passed(f, e)
  <2>1. Put(f, t, e, c)
    BY <1>1, <1>2 DEF AllCollected
  <2> QED  BY <2>1 DEF Put
<1>3. CASE ~Passed(f, e)
  <2>1. f = sec
    BY <1>3 DEF Passed
  <2> QED  BY <1>1, <1>3, <2>1
<1> QED  BY <1>2, <1>3

LEMMA InitHome == HwpxInit => HomeInv
<1> SUFFICES ASSUME HwpxInit  PROVE HomeInv
  OBVIOUS
<1>1. /\ AllAtHome /\ AllCollected /\ TablesConsumed /\ ConsumedByTables /\ RowsOutermost
      /\ ReadToTheEnd
  BY DEF HwpxInit, AllAtHome, AllCollected, TablesConsumed, ConsumedByTables, RowsOutermost,
         ReadToTheEnd
<1> QED  BY <1>1, InitInv DEF HomeInv

\* A file that was read to its end is passed; of the new one nothing is.
LEMMA OpenSectionHome ==
  ASSUME HomeInv, OpenSection
  PROVE  HomeInv'
<1>1. /\ HwpxInv' /\ HwpxTypes /\ upload' = upload /\ rows' = rows /\ lines' = lines /\ rows = {}
      /\ outcome = "reading" /\ (sec # 0 => at = Len(Elems(sec)))
  BY OpenSectionInv DEF HomeInv, HwpxInv, OpenSection, SectionDone
<1>2. PICK f \in todo :
        /\ todo' = todo \ {f}
        /\ \/ /\ sec' = f /\ at' = 0 /\ consumed' = {} /\ outcome' = "reading"
           \/ outcome' = "rejected" /\ UNCHANGED <<sec, at, consumed>>
  BY <1>1 DEF OpenSection
<1>3. AllAtHome'
  BY <1>1, SameFile DEF HomeInv, AllAtHome
<1>4. RowsOutermost' /\ ReadToTheEnd'
  BY <1>1, <1>2 DEF RowsOutermost, ReadToTheEnd
<1>5. CASE outcome' = "rejected" /\ UNCHANGED <<sec, at, consumed>>
  <2>1. AllCollected'
    BY <1>5 DEF AllCollected
  <2>2. TablesConsumed' /\ ConsumedByTables'
    BY <1>1, <1>5, SameFile DEF HomeInv, TablesConsumed, ConsumedByTables, IsTable
  <2> QED  BY <1>1, <1>3, <1>4, <2>1, <2>2 DEF HomeInv
<1>6. CASE sec' = f /\ at' = 0 /\ consumed' = {} /\ outcome' = "reading"
  <2>0. /\ upload \in Uploads /\ f \in DOMAIN upload /\ f # sec /\ f # 0
        /\ (sec = 0 \/ sec \in DOMAIN upload)
    BY <1>1, Shape DEF HwpxTypes
  <2>1. ConsumedByTables'
    BY <1>6 DEF ConsumedByTables
  <2>2. TablesConsumed'
    <3>1. \A b \in DOMAIN Elems(f) : ~(b <= 0)
      BY <2>0, Shape
    <3> QED  BY <1>1, <1>6, <3>1, SameFile DEF TablesConsumed, IsTable
  <2>3. AllCollected'
    <3> SUFFICES ASSUME NEW g \in DOMAIN upload \ todo', NEW t \in TextElems(g),
                        NEW e \in DOMAIN Elems(g), NEW c \in DOMAIN Elems(g),
                        HomeAt(g, t, e, c), Passed(g, e)'
                 PROVE  Put(g, t, e, c)'
      BY <1>1, SameFile DEF AllCollected
    <3>1. CASE g = f
      <4>1. e \in Nat /\ e # 0 /\ (Elem(f, e).up <= 0 => Elem(f, e).up = 0)
        BY <2>0, <3>1, Shape
      <4>2. Elem(f, e).kind # "p" /\ Elem(f, e).kind = "tr" /\ Elem(f, e).up = 0
        BY <1>1, <1>6, <3>1, <4>1, SameFile DEF Passed
      <4>3. Elem(f, e).up \in DOMAIN Elems(f)
        BY <2>0, <3>1, <4>2, TextShape DEF HomeAt, Around
      <4> QED  BY <2>0, <4>2, <4>3, Shape
    <3>2. CASE g # f
      <4>1. g \in DOMAIN upload \ todo
        BY <1>2, <3>2
      <4>2. Passed(g, e)
        <5>1. CASE g # sec
          BY <5>1 DEF Passed
        <5>2. CASE g = sec
          <6>1. e <= at /\ Elem(g, e).up <= at
            BY <1>1, <2>0, <5>2, Shape
          <6>2. Elem(g, e).kind = "p" \/ Elem(g, e).kind = "tr"
            BY <2>0, <4>1, TextShape DEF HomeAt, Around
          <6> QED  BY <1>1, <6>1, <6>2 DEF Passed
        <5> QED  BY <5>1, <5>2
      <4>3. Put(g, t, e, c)
        BY <1>1, <4>1, <4>2 DEF HomeInv, AllCollected
      <4> QED  BY <1>1, <4>3 DEF Put
    <3> QED  BY <3>1, <3>2
  <2> QED  BY <1>1, <1>3, <1>4, <2>1, <2>2, <2>3 DEF HomeInv
<1> QED  BY <1>2, <1>5, <1>6

\* The table at the cursor is in no other, or it had been consumed.
LEMMA VisitTableHome ==
  ASSUME HomeInv, NEW i, i = at + 1, VisitTable(i)
  PROVE  HomeInv'
<1>1. /\ HwpxInv' /\ upload \in Uploads /\ sec # 0 /\ sec \in DOMAIN upload /\ rows = {} /\ at \in Nat
      /\ i \in DOMAIN Elems(sec) /\ i \in Nat /\ i \notin consumed /\ Elem(sec, i).kind = "tbl"
      /\ upload' = upload /\ todo' = todo /\ sec' = sec /\ at' = i /\ lines' = lines
      /\ consumed' = consumed \cup Iter(sec, i) /\ outcome = "reading" /\ outcome' = outcome
      /\ rows' = Children(sec, i, {"tr"})
  BY VisitTableInv DEF HomeInv, HwpxInv, VisitTable, Visit, HwpxTypes, Swallowed, RowsOf
<1>2. AllAtHome' /\ ReadToTheEnd'
  BY <1>1, SameFile DEF HomeInv, AllAtHome, ReadToTheEnd
<1>3. \A b \in DOMAIN Elems(sec) : b \in Nat /\ (b <= i <=> b <= at \/ b = i)
  BY <1>1, Shape
<1>4. TablesConsumed'
  BY <1>1, <1>3, SameFile DEF HomeInv, TablesConsumed, IsTable
<1>5. ConsumedByTables'
  <2> SUFFICES ASSUME NEW j \in consumed'
               PROVE  \E b \in DOMAIN Elems(sec) :
                        Elem(sec, b).kind = "tbl" /\ b <= i /\ j \in Iter(sec, b)
    BY <1>1, SameFile DEF ConsumedByTables, IsTable
  <2>1. CASE j \in consumed
    BY <1>3, <2>1 DEF HomeInv, ConsumedByTables, IsTable
  <2>2. CASE j \in Iter(sec, i)
    BY <1>1, <1>3, <2>2
  <2> QED  BY <1>1, <2>1, <2>2
<1>6. RowsOutermost'
  <2> SUFFICES ASSUME NEW r \in Children(sec, i, {"tr"})
               PROVE  /\ Elem(sec, r).kind = "tr" /\ Elem(sec, r).up = i
                      /\ \A b \in DOMAIN Elems(sec) :
                           Elem(sec, b).kind = "tbl" /\ b < i => i \notin Iter(sec, b)
    BY <1>1, <1>3, SameFile DEF RowsOutermost, IsTable
  <2>1. Elem(sec, r).kind = "tr" /\ Elem(sec, r).up = i
    BY DEF Children
  <2>2. ASSUME NEW b \in DOMAIN Elems(sec), Elem(sec, b).kind = "tbl", b < i  PROVE i \notin Iter(sec, b)
    <3>1. b <= at
      BY <1>1, <1>3, <2>2
    <3> QED  BY <1>1, <2>2, <3>1 DEF HomeInv, TablesConsumed, IsTable
  <2> QED  BY <2>1, <2>2
<1>7. AllCollected'
  <2>1. ASSUME NEW t \in TextElems(sec), NEW e \in DOMAIN Elems(sec), NEW c \in DOMAIN Elems(sec),
               HomeAt(sec, t, e, c), Passed(sec, e)', ~Passed(sec, e)
        PROVE  FALSE
    <3>1. \/ Elem(sec, e).kind = "p" /\ e <= i /\ ~(e <= at)
          \/ Elem(sec, e).kind = "tr" /\ Elem(sec, e).up <= i /\ e \notin rows' /\ ~(Elem(sec, e).up <= at)
      BY <1>1, <2>1, SameFile DEF Passed
    <3>2. CASE Elem(sec, e).kind = "p"
      BY <1>1, <1>3, <3>1, <3>2
    <3>3. CASE Elem(sec, e).kind = "tr"
      <4>1. Elem(sec, e).up = i
        BY <1>1, <3>1, <3>3, Shape
      <4> QED  BY <1>1, <3>1, <3>3, <4>1 DEF Children
    <3> QED  BY <3>1, <3>2, <3>3
  <2> QED  BY <1>1, <2>1, CollectedStays DEF HomeInv
<1> QED  BY <1>1, <1>2, <1>4, <1>5, <1>6, <1>7 DEF HomeInv

\* A row: its table is the outermost one around the texts of its cells.
LEMMA FlattenRowHome ==
  ASSUME HomeInv, FlattenRow
  PROVE  HomeInv'
<1>1. PICK r \in rows :
        /\ Emit(Line(r, [c \in Children(sec, r, {"tc"}) |->
                           { t \in Iter(sec, c) : Elem(sec, t).kind \in Texts }]))
        /\ rows' = rows \ {r}
  BY DEF FlattenRow
<1> DEFINE tcs   == Children(sec, r, {"tc"})
           cells == [c \in tcs |-> { t \in Iter(sec, c) : Elem(sec, t).kind \in Texts }]
           line  == Line(r, cells)
           tab   == Elem(sec, r).up
<1>2. /\ HwpxInv' /\ upload \in Uploads /\ sec # 0 /\ sec \in DOMAIN upload /\ at \in Nat
      /\ r \in DOMAIN Elems(sec) /\ r \in Nat /\ rows \subseteq DOMAIN Elems(sec) /\ sec \in Nat
      /\ DOMAIN Elems(sec) \subseteq Nat
      /\ upload' = upload /\ todo' = todo /\ sec' = sec /\ at' = at /\ consumed' = consumed
      /\ outcome = "reading" /\ outcome' = outcome /\ lines \in Seq(LineSet)
  BY <1>1, FlattenRowInv, Shape DEF FlattenRow, HomeInv, HwpxInv, HwpxTypes
<1>3. \A c \in tcs : /\ c \in DOMAIN Elems(sec) /\ Elem(sec, c).up = r /\ Elem(sec, c).kind = "tc"
                     /\ c \in Iter(sec, r) /\ Iter(sec, c) \subseteq Iter(sec, r)
  BY <1>2, ChildInside, IterInside DEF Children
<1>4. /\ Elem(sec, r).kind = "tr" /\ tab \in DOMAIN Elems(sec) /\ Elem(sec, tab).kind = "tbl"
      /\ \A b : IsTable(b) /\ b < tab => tab \notin Iter(sec, b)
      /\ r \in Iter(sec, tab) /\ Iter(sec, r) \subseteq Iter(sec, tab)
  <2>1. /\ Elem(sec, r).kind = "tr" /\ tab \in DOMAIN Elems(sec) /\ Elem(sec, tab).kind = "tbl"
        /\ \A b : IsTable(b) /\ b < tab => tab \notin Iter(sec, b)
    BY <1>1 DEF HomeInv, RowsOutermost, IsTable
  <2>2. r \in Children(sec, tab, {"tr"})
    BY <1>2, <2>1 DEF Children
  <2>3. r \in Iter(sec, tab)
    BY <1>2, <2>1, <2>2, ChildInside
  <2> QED  BY <1>2, <2>1, <2>3, IterInside
<1>5. /\ line \in LineSet /\ line.sec = sec /\ line.elem = r /\ DOMAIN line.cells = tcs
      /\ \A c \in tcs : line.cells[c] = { t \in Iter(sec, c) : Elem(sec, t).kind \in Texts }
  <2>0. \A c \in tcs : Iter(sec, c) \subseteq Nat
    BY <1>2 DEF Iter
  <2>1. cells \in [tcs -> SUBSET Nat] /\ tcs \in SUBSET Nat
    BY <1>2, <1>3, <2>0
  <2>2. cells \in CellMaps
    BY <2>1 DEF CellMaps
  <2>3. DOMAIN cells = tcs /\ \A c \in tcs : cells[c] = { t \in Iter(sec, c) : Elem(sec, t).kind \in Texts }
    OBVIOUS
  <2> HIDE DEF cells, tcs
  <2>4. line \in LineSet /\ line.sec = sec /\ line.elem = r /\ line.cells = cells
    BY <1>2, <2>2 DEF Line, LineSet
  <2> QED  BY <2>3, <2>4
<1>6. Emit(line)
  BY <1>1
<1> HIDE DEF cells, line, tcs
<1>7. \A c \in tcs : \A t \in line.cells[c] : t \in TextElems(sec) /\ HomeAt(sec, t, r, c)
  <2> SUFFICES ASSUME NEW c \in tcs, NEW t \in line.cells[c]
               PROVE  t \in TextElems(sec) /\ HomeAt(sec, t, r, c)
    OBVIOUS
  <2>1. t \in Iter(sec, c) /\ Elem(sec, t).kind \in Texts /\ t \in DOMAIN Elems(sec)
    BY <1>5 DEF Iter
  <2>2. t \in Iter(sec, r) /\ t \in Iter(sec, tab)
    BY <1>3, <1>4, <2>1
  <2>3. ASSUME NEW a \in Around(sec, t, "tbl")  PROVE tab <= a
    <3>1. a \in DOMAIN Elems(sec) /\ Elem(sec, a).kind = "tbl" /\ t \in Iter(sec, a)
      BY DEF Around
    <3>2. a \in Nat /\ tab \in Nat /\ tab <= t
      BY <1>2, <1>4, <2>2, <3>1, InsideTypes
    <3>3. CASE a < tab
      <4>1. tab \in Iter(sec, a)
        BY <1>2, <1>4, <3>1, <3>2, <3>3, Between
      <4> QED  BY <1>4, <3>1, <3>3, <4>1 DEF IsTable
    <3> QED  BY <3>2, <3>3
  <2> QED  BY <1>2, <1>3, <1>4, <2>1, <2>2, <2>3 DEF TextElems, HomeAt, Around
<1>8. AllAtHome'
  <2> SUFFICES ASSUME NEW k \in DOMAIN lines', NEW c \in DOMAIN lines'[k].cells,
                      NEW t \in lines'[k].cells[c]
               PROVE  t \in TextElems(lines'[k].sec) /\ HomeAt(lines'[k].sec, t, lines'[k].elem, c)
    BY <1>2, SameFile DEF AllAtHome
  <2>1. (k \in DOMAIN lines /\ lines'[k] = lines[k]) \/ lines'[k] = line
    BY <1>2, <1>5, <1>6, EmitAdds
  <2>2. CASE k \in DOMAIN lines /\ lines'[k] = lines[k]
    BY <2>2 DEF HomeInv, AllAtHome
  <2>3. CASE lines'[k] = line
    BY <1>5, <1>7, <2>3
  <2> QED  BY <2>1, <2>2, <2>3
<1>9. AllCollected'
  <2>1. ASSUME NEW t \in TextElems(sec), NEW e \in DOMAIN Elems(sec), NEW c \in DOMAIN Elems(sec),
               HomeAt(sec, t, e, c), Passed(sec, e)', ~Passed(sec, e)
        PROVE  Put(sec, t, e, c)'
    <3>1. e = r
      BY <1>1, <1>2, <2>1, SameFile DEF Passed
    <3>2. /\ c \in DOMAIN Elems(sec) /\ Elem(sec, c).kind = "tc" /\ t \in Iter(sec, c)
          /\ Elem(sec, c).up = r
      BY <1>2, <1>4, <2>1, <3>1, TextShape DEF HomeAt, Around
    <3>3. c \in tcs
      BY <3>2 DEF tcs, Children
    <3>4. t \in line.cells[c]
      BY <1>5, <3>2, <3>3 DEF TextElems
    <3>5. PICK k \in DOMAIN lines' : lines'[k] = line
      BY <1>2, <1>5, <1>6, <3>3, <3>4, EmitKeeps
    <3> QED  BY <1>2, <1>5, <3>1, <3>3, <3>4, <3>5 DEF Put
  <2>2. \A k \in DOMAIN lines : k \in DOMAIN lines' /\ lines'[k] = lines[k]
    BY <1>2, <1>5, <1>6, EmitKeeps
  <2> QED  BY <1>2, <2>1, <2>2, CollectedStays DEF HomeInv
<1>10. /\ TablesConsumed' /\ ConsumedByTables' /\ RowsOutermost' /\ ReadToTheEnd'
  BY <1>1, <1>2, SameFile DEF HomeInv, TablesConsumed, ConsumedByTables, RowsOutermost,
                              ReadToTheEnd, IsTable
<1> QED  BY <1>2, <1>8, <1>9, <1>10 DEF HomeInv

\* A paragraph the loop visits as its own is in no table.
LEMMA VisitParagraphHome ==
  ASSUME HomeInv, NEW i, i = at + 1, VisitParagraph(i)
  PROVE  HomeInv'
<1> DEFINE texts == Children(sec, i, Texts)
           cells == [c \in {i} |-> texts]
           line  == Line(i, cells)
<1>1. /\ HwpxInv' /\ upload \in Uploads /\ sec # 0 /\ sec \in DOMAIN upload /\ sec \in Nat
      /\ rows = {} /\ at \in Nat /\ DOMAIN Elems(sec) \subseteq Nat
      /\ i \in DOMAIN Elems(sec) /\ i \in Nat /\ i \notin consumed /\ Elem(sec, i).kind = "p"
      /\ upload' = upload /\ todo' = todo /\ sec' = sec /\ at' = i /\ lines \in Seq(LineSet)
      /\ consumed' = consumed /\ rows' = rows /\ outcome = "reading" /\ outcome' = outcome
      /\ Emit(line)
  BY VisitParagraphInv, Shape DEF HomeInv, HwpxInv, VisitParagraph, Visit, HwpxTypes
<1>2. /\ line \in LineSet /\ line.sec = sec /\ line.elem = i /\ DOMAIN line.cells = {i}
      /\ line.cells[i] = texts
  <2>1. cells \in [{i} -> SUBSET Nat] /\ {i} \in SUBSET Nat
    BY <1>1 DEF Children
  <2>2. cells \in CellMaps
    BY <2>1 DEF CellMaps
  <2>3. DOMAIN cells = {i} /\ cells[i] = texts
    OBVIOUS
  <2> HIDE DEF cells, texts
  <2>4. line \in LineSet /\ line.sec = sec /\ line.elem = i /\ line.cells = cells
    BY <1>1, <2>2 DEF Line, LineSet
  <2> QED  BY <2>3, <2>4
<1> HIDE DEF cells, line, texts
<1>3. \A b \in DOMAIN Elems(sec) : b \in Nat /\ (b <= i <=> b <= at \/ b = i)
  BY <1>1, Shape
<1>4. \A b : IsTable(b) /\ b <= i => b <= at /\ i \notin Iter(sec, b)
  BY <1>1, <1>3 DEF HomeInv, TablesConsumed, IsTable
<1>5. \A t \in texts : t \in TextElems(sec) /\ HomeAt(sec, t, i, i)
  <2> SUFFICES ASSUME NEW t \in texts  PROVE t \in TextElems(sec) /\ HomeAt(sec, t, i, i)
    OBVIOUS
  <2>1. /\ t \in DOMAIN Elems(sec) /\ Elem(sec, t).up = i /\ Elem(sec, t).kind \in Texts
        /\ t \in Nat /\ i < t
    BY <1>1, ChildInside DEF texts, Children
  <2>2. ASSUME NEW a \in Around(sec, t, "tbl")  PROVE FALSE
    <3>1. a \in DOMAIN Elems(sec) /\ Elem(sec, a).kind = "tbl" /\ t \in Iter(sec, a) /\ a # t
      BY <2>1 DEF Around, Texts
    <3>2. a <= i
      BY <1>1, <2>1, <3>1, ParentInside
    <3>3. i \in Iter(sec, a)
      BY <1>1, <2>1, <3>1, <3>2, Between
    <3> QED  BY <1>4, <3>1, <3>2, <3>3 DEF IsTable
  <2> QED  BY <2>1, <2>2 DEF TextElems, HomeAt
<1>6. AllAtHome'
  <2> SUFFICES ASSUME NEW k \in DOMAIN lines', NEW c \in DOMAIN lines'[k].cells,
                      NEW t \in lines'[k].cells[c]
               PROVE  t \in TextElems(lines'[k].sec) /\ HomeAt(lines'[k].sec, t, lines'[k].elem, c)
    BY <1>1, SameFile DEF AllAtHome
  <2>1. (k \in DOMAIN lines /\ lines'[k] = lines[k]) \/ lines'[k] = line
    BY <1>1, <1>2, EmitAdds
  <2>2. CASE k \in DOMAIN lines /\ lines'[k] = lines[k]
    BY <2>2 DEF HomeInv, AllAtHome
  <2>3. CASE lines'[k] = line
    BY <1>2, <1>5, <2>3
  <2> QED  BY <2>1, <2>2, <2>3
<1>7. AllCollected'
  <2>1. ASSUME NEW t \in TextElems(sec), NEW e \in DOMAIN Elems(sec), NEW c \in DOMAIN Elems(sec),
               HomeAt(sec, t, e, c), Passed(sec, e)', ~Passed(sec, e)
        PROVE  Put(sec, t, e, c)'
    <3>1. \/ Elem(sec, e).kind = "p" /\ e = i
          \/ Elem(sec, e).kind = "tr" /\ Elem(sec, e).up = i
      <4>1. \/ Elem(sec, e).kind = "p" /\ e <= i /\ ~(e <= at)
            \/ Elem(sec, e).kind = "tr" /\ Elem(sec, e).up <= i /\ ~(Elem(sec, e).up <= at)
        BY <1>1, <2>1, SameFile DEF Passed
      <4> QED  BY <1>1, <1>3, <4>1, Shape
    <3>2. CASE Elem(sec, e).kind = "tr" /\ Elem(sec, e).up = i
      <4>1. Elem(sec, i).kind = "tbl"
        BY <1>1, <2>1, <3>2, TextShape DEF HomeAt, Around
      <4> QED  BY <1>1, <4>1
    <3>3. CASE Elem(sec, e).kind = "p" /\ e = i
      <4>1. Elem(sec, t).up = i /\ c = i
        BY <2>1, <3>3 DEF HomeAt, Around
      <4>2. t \in line.cells[i]
        BY <1>1, <1>2, <4>1, TextShape DEF texts
      <4>3. PICK k \in DOMAIN lines' : lines'[k] = line
        BY <1>1, <1>2, <4>2, EmitKeeps
      <4> QED  BY <1>1, <1>2, <3>3, <4>1, <4>2, <4>3 DEF Put
    <3> QED  BY <3>1, <3>2, <3>3
  <2>2. \A k \in DOMAIN lines : k \in DOMAIN lines' /\ lines'[k] = lines[k]
    BY <1>1, <1>2, EmitKeeps
  <2> QED  BY <1>1, <2>1, <2>2, CollectedStays DEF HomeInv
<1>8. TablesConsumed'
  BY <1>1, <1>4, SameFile DEF HomeInv, TablesConsumed, IsTable
<1>9. ConsumedByTables'
  <2> SUFFICES ASSUME NEW j \in consumed
               PROVE  \E b \in DOMAIN Elems(sec) :
                        Elem(sec, b).kind = "tbl" /\ b <= i /\ j \in Iter(sec, b)
    BY <1>1, SameFile DEF ConsumedByTables, IsTable
  <2> QED  BY <1>3 DEF HomeInv, ConsumedByTables, IsTable
<1>10. RowsOutermost' /\ ReadToTheEnd'
  BY <1>1 DEF RowsOutermost, ReadToTheEnd
<1> QED  BY <1>1, <1>6, <1>7, <1>8, <1>9, <1>10 DEF HomeInv

\* What a table has consumed has no line of its own, and holds no home of a text.
LEMMA VisitOtherHome ==
  ASSUME HomeInv, NEW i, i = at + 1, VisitOther(i)
  PROVE  HomeInv'
<1>1. /\ HwpxInv' /\ upload \in Uploads /\ sec # 0 /\ sec \in DOMAIN upload
      /\ rows = {} /\ at \in Nat /\ i \in DOMAIN Elems(sec) /\ i \in Nat
      /\ i \in consumed \/ Elem(sec, i).kind \notin {"tbl", "p"}
      /\ upload' = upload /\ todo' = todo /\ sec' = sec /\ at' = i /\ lines' = lines
      /\ consumed' = consumed /\ rows' = rows /\ outcome = "reading" /\ outcome' = outcome
  BY VisitOtherInv DEF HomeInv, HwpxInv, VisitOther, Visit, HwpxTypes
<1>2. \A b \in DOMAIN Elems(sec) : b \in Nat /\ (b <= i <=> b <= at \/ b = i)
  BY <1>1, Shape
<1>3. AllAtHome' /\ RowsOutermost' /\ ReadToTheEnd'
  BY <1>1, SameFile DEF HomeInv, AllAtHome, RowsOutermost, ReadToTheEnd
<1>4. ConsumedByTables'
  <2> SUFFICES ASSUME NEW j \in consumed
               PROVE  \E b \in DOMAIN Elems(sec) :
                        Elem(sec, b).kind = "tbl" /\ b <= i /\ j \in Iter(sec, b)
    BY <1>1, SameFile DEF ConsumedByTables, IsTable
  <2> QED  BY <1>2 DEF HomeInv, ConsumedByTables, IsTable
<1>5. ASSUME i \in consumed
      PROVE  \E b : IsTable(b) /\ b < i /\ Iter(sec, b) \subseteq consumed /\ Iter(sec, i) \subseteq Iter(sec, b)
  <2>1. PICK b : IsTable(b) /\ b <= at /\ i \in Iter(sec, b)
    BY <1>5 DEF HomeInv, ConsumedByTables
  <2>2. b \in DOMAIN Elems(sec) /\ b < i
    BY <1>1, <1>2, <2>1 DEF IsTable
  <2>3. Iter(sec, b) \subseteq consumed
    BY <1>1, <2>1 DEF HomeInv, TablesConsumed
  <2>4. Iter(sec, i) \subseteq Iter(sec, b)
    BY <1>1, <2>1, <2>2, IterInside
  <2> QED  BY <2>1, <2>2, <2>3, <2>4
<1>6. TablesConsumed'
  <2> SUFFICES ASSUME NEW b, IsTable(b), b <= i  PROVE Iter(sec, b) \subseteq consumed
    BY <1>1, SameFile DEF TablesConsumed, IsTable
  <2>1. CASE b <= at
    BY <1>1, <2>1 DEF HomeInv, TablesConsumed
  <2>2. CASE b = i
    BY <1>1, <1>5, <2>2 DEF IsTable
  <2> QED  BY <1>2, <2>1, <2>2 DEF IsTable
<1>7. AllCollected'
  <2>1. ASSUME NEW t \in TextElems(sec), NEW e \in DOMAIN Elems(sec), NEW c \in DOMAIN Elems(sec),
               HomeAt(sec, t, e, c), Passed(sec, e)', ~Passed(sec, e)
        PROVE  FALSE
    <3>1. \/ Elem(sec, e).kind = "p" /\ e = i
          \/ Elem(sec, e).kind = "tr" /\ Elem(sec, e).up = i
      <4>1. \/ Elem(sec, e).kind = "p" /\ e <= i /\ ~(e <= at)
            \/ Elem(sec, e).kind = "tr" /\ Elem(sec, e).up <= i /\ ~(Elem(sec, e).up <= at)
        BY <1>1, <2>1, SameFile DEF Passed
      <4> QED  BY <1>1, <1>2, <4>1, Shape
    <3>2. CASE Elem(sec, e).kind = "p" /\ e = i
      <4>1. Around(sec, t, "tbl") = {} /\ Elem(sec, t).up = i
        BY <2>1, <3>2 DEF HomeAt, Around
      <4>2. PICK b : IsTable(b) /\ Iter(sec, i) \subseteq Iter(sec, b)
        BY <1>1, <1>5, <3>2
      <4>3. t \in Children(sec, i, Texts)
        BY <1>1, <4>1, TextShape
      <4>4. t \in Iter(sec, b)
        BY <1>1, <4>2, <4>3, ChildInside
      <4> QED  BY <4>1, <4>2, <4>4 DEF Around, IsTable
    <3>3. CASE Elem(sec, e).kind = "tr" /\ Elem(sec, e).up = i
      <4>1. /\ Elem(sec, i).kind = "tbl" /\ t \in Iter(sec, i)
            /\ \A a \in Around(sec, t, "tbl") : i <= a
        BY <1>1, <2>1, <3>3, TextShape DEF HomeAt, Around
      <4>2. PICK b : IsTable(b) /\ b < i /\ Iter(sec, i) \subseteq Iter(sec, b)
        BY <1>1, <1>5, <4>1
      <4>3. b \in Around(sec, t, "tbl")
        BY <4>1, <4>2 DEF Around, IsTable
      <4> QED  BY <1>1, <1>2, <4>1, <4>2, <4>3 DEF IsTable
    <3> QED  BY <3>1, <3>2, <3>3
  <2> QED  BY <1>1, <2>1, CollectedStays DEF HomeInv
<1> QED  BY <1>1, <1>3, <1>4, <1>6, <1>7 DEF HomeInv

LEMMA EndOfFileHome ==
  ASSUME HomeInv, EndOfFile
  PROVE  HomeInv'
<1>1. /\ UNCHANGED <<upload, todo, sec, at, consumed, rows, lines>>
      /\ outcome = "reading" /\ todo = {} /\ SectionDone
  BY DEF EndOfFile
<1>2. HwpxInv'
  BY <1>1, UntouchedInv DEF HomeInv
<1>3. ReadToTheEnd'
  BY <1>1 DEF ReadToTheEnd, SectionDone, Elems
<1>4. AllAtHome' /\ TablesConsumed' /\ ConsumedByTables' /\ RowsOutermost'
  BY <1>1, SameFile DEF HomeInv, AllAtHome, TablesConsumed, ConsumedByTables, RowsOutermost, IsTable
<1>5. AllCollected'
  BY <1>1, SameFile DEF HomeInv, AllCollected, Passed, Put
<1> QED  BY <1>2, <1>3, <1>4, <1>5 DEF HomeInv

LEMMA HomeNext ==
  ASSUME HomeInv, [HwpxNext]_hwpxVars
  PROVE  HomeInv'
<1>1. CASE OpenSection
  BY <1>1, OpenSectionHome
<1>2. CASE FlattenRow
  BY <1>2, FlattenRowHome
<1>3. CASE EndOfFile
  BY <1>3, EndOfFileHome
<1>4. CASE VisitTable(at + 1)
  BY <1>4, VisitTableHome
<1>5. CASE VisitParagraph(at + 1)
  BY <1>5, VisitParagraphHome
<1>6. CASE VisitOther(at + 1)
  BY <1>6, VisitOtherHome
<1>7. CASE UNCHANGED hwpxVars
  <2>1. UNCHANGED <<upload, todo, sec, at, consumed, rows, lines, outcome>>
    BY <1>7 DEF hwpxVars
  <2>2. HwpxInv'
    BY <2>1, UntouchedInv DEF HomeInv
  <2>3. AllAtHome' /\ TablesConsumed' /\ ConsumedByTables' /\ RowsOutermost'
    BY <2>1, SameFile DEF HomeInv, AllAtHome, TablesConsumed, ConsumedByTables, RowsOutermost, IsTable
  <2>4. AllCollected'
    BY <2>1, SameFile DEF HomeInv, AllCollected, Passed, Put
  <2>5. ReadToTheEnd'
    BY <2>1 DEF HomeInv, ReadToTheEnd, SectionDone, Elems
  <2> QED  BY <2>2, <2>3, <2>4, <2>5 DEF HomeInv
<1> QED  BY <1>1, <1>2, <1>3, <1>4, <1>5, <1>6, <1>7 DEF HwpxNext

\* At the end of the file everything is passed.
LEMMA HomeAtTheEnd ==
  ASSUME HomeInv
  PROVE  EveryTextAtHome
<1> SUFFICES ASSUME outcome = "converted", NEW f \in DOMAIN upload, NEW t \in TextElems(f)
             PROVE  Home(f, t) =
                      UNION { { <<lines[k].elem, c>> :
                                  c \in { d \in DOMAIN lines[k].cells : t \in lines[k].cells[d] } } :
                              k \in { l \in DOMAIN lines : lines[l].sec = f } }
  BY DEF EveryTextAtHome, TextElems
<1> DEFINE There == UNION { { <<lines[k].elem, c>> :
                                c \in { d \in DOMAIN lines[k].cells : t \in lines[k].cells[d] } } :
                            k \in { l \in DOMAIN lines : lines[l].sec = f } }
<1>1. \A h : h \in There <=> \E e, c : h = <<e, c>> /\ Put(f, t, e, c)
  BY DEF Put
<1>2. \A h : h \in Home(f, t) <=> \E e, c : h = <<e, c>> /\ HomeAt(f, t, e, c)
  <2>1. CASE Around(f, t, "tbl") = {}
    <3>1. Home(f, t) = { <<Elem(f, t).up, Elem(f, t).up>> }
      BY <2>1 DEF Home
    <3>2. \A e, c : HomeAt(f, t, e, c) <=> e = Elem(f, t).up /\ c = e
      BY <2>1 DEF HomeAt
    <3> QED  BY <3>1, <3>2
  <2>2. CASE Around(f, t, "tbl") # {}
    <3>1. Home(f, t) = { h \in Around(f, t, "tr") \X Around(f, t, "tc") :
                           /\ Elem(f, h[2]).up = h[1] /\ Elem(f, h[1]).up \in Around(f, t, "tbl")
                           /\ \A a \in Around(f, t, "tbl") : Elem(f, h[1]).up <= a }
      BY <2>2 DEF Home
    <3>2. \A e, c : HomeAt(f, t, e, c) <=>
            /\ e \in Around(f, t, "tr") /\ c \in Around(f, t, "tc")
            /\ Elem(f, c).up = e /\ Elem(f, e).up \in Around(f, t, "tbl")
            /\ \A a \in Around(f, t, "tbl") : Elem(f, e).up <= a
      BY <2>2 DEF HomeAt
    <3> QED  BY <3>1, <3>2
  <2> QED  BY <2>1, <2>2
<1>3. ASSUME NEW e, NEW c, Put(f, t, e, c)  PROVE HomeAt(f, t, e, c)
  BY <1>3 DEF HomeInv, AllAtHome, Put
<1>4. ASSUME NEW e, NEW c, HomeAt(f, t, e, c)  PROVE Put(f, t, e, c)
  <2>1. /\ upload \in Uploads /\ todo = {} /\ rows = {} /\ (sec # 0 => at = Len(Elems(sec)))
    BY DEF HomeInv, HwpxInv, HwpxTypes, ReadToTheEnd, SectionDone
  <2>2. e \in DOMAIN Elems(f) /\ c \in DOMAIN Elems(f) /\ Elem(f, e).kind \in {"p", "tr"}
    BY <1>4, <2>1, TextShape DEF HomeAt, Around
  <2>3. Passed(f, e)
    <3>1. CASE f # sec
      BY <3>1 DEF Passed
    <3>2. CASE f = sec
      <4>1. f # 0 /\ e <= at /\ Elem(f, e).up <= at
        BY <2>1, <2>2, <3>2, Shape
      <4> QED  BY <2>1, <2>2, <4>1 DEF Passed
    <3> QED  BY <3>1, <3>2
  <2> QED  BY <1>4, <2>1, <2>2, <2>3 DEF HomeInv, AllCollected
<1> HIDE DEF There
<1>5. \A h : h \in Home(f, t) <=> h \in There
  BY <1>1, <1>2, <1>3, <1>4
<1> QED  BY <1>5 DEF There

\* Every text of any file whose texts stand in paragraphs is in the line, and in
\* the cell, it belongs to, and in no other; only captions are left out.
THEOREM EveryTextComesHome == HwpxSpec => []EveryTextAtHome
BY InitHome, HomeNext, HomeAtTheEnd, PTL DEF HwpxSpec
===============================================================================
