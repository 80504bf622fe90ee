------------------------------- MODULE Highlight --------------------------------
(***************************************************************************)
(* app/static/app.js: highlightSource.  The quotes of the findings are     *)
(* searched in the source, each put at its first occurrence that overlaps  *)
(* no mark yet; the source is then written out with the marks.             *)
(*                                                                         *)
(* Source and quotes are sequences of tokens.  Positions count from 0, a   *)
(* mark covers start .. end - 1, as in the code.                           *)
(***************************************************************************)
EXTENDS Integers, SequencesExt

Slice(s, a, b) == SubSeq(s, a + 1, b)     \* s.slice(a, b)

\* Where q occurs, also overlapping itself.
Occurrences(text, q) ==
  { a \in 0 .. Len(text) - Len(q) : Slice(text, a, a + Len(q)) = q }

BugOverlaps(a, b, mark) ==   \* mutant: only the start is looked at
  mark.start <= a /\ a < mark.end
Overlaps(a, b, mark) == a < mark.end /\ b > mark.start

BugPlaced(marks, text, idx, q) ==   \* mutant: only the first occurrence is tried
  LET all == Occurrences(text, q) IN
  IF all = {} \/ \E m \in marks : Overlaps(Min(all), Min(all) + Len(q), m) THEN marks
  ELSE marks \cup { [start |-> Min(all), end |-> Min(all) + Len(q), idx |-> idx] }
\* One quote of finding idx; without a free occurrence it gets no mark.
Placed(marks, text, idx, q) ==
  LET free == { a \in Occurrences(text, q) :
                  \A m \in marks : ~Overlaps(a, a + Len(q), m) } IN
  IF free = {} THEN marks
  ELSE marks \cup { [start |-> Min(free), end |-> Min(free) + Len(q), idx |-> idx] }

\* The quotes of one finding, and all of them, finding by finding.
QuotesPlaced(marks, text, idx, quotes) ==
  LET placed[k \in 0 .. Len(quotes)] ==
        IF k = 0 THEN marks ELSE Placed(placed[k - 1], text, idx, quotes[k])
  IN  placed[Len(quotes)]
AllMarks(text, quotesOf) ==
  LET marked[n \in 0 .. Len(quotesOf)] ==
        IF n = 0 THEN {} ELSE QuotesPlaced(marked[n - 1], text, n, quotesOf[n])
  IN  marked[Len(quotesOf)]

\* The pieces are put together in the order of the marks.
Leftmost(marks) == CHOOSE m \in marks : \A n \in marks : m.start <= n.start
Beyond(text, acc, m) ==
  [out  |-> acc.out \o Slice(text, acc.pos, m.start) \o Slice(text, m.start, m.end),
   pos  |-> m.end,
   left |-> acc.left \ {m}]
Rendered(text, marks) ==
  LET written[k \in 0 .. Cardinality(marks)] ==
        IF k = 0 THEN [out |-> <<>>, pos |-> 0, left |-> marks]
        ELSE Beyond(text, written[k - 1], Leftmost(written[k - 1].left))
      last == written[Cardinality(marks)]
  IN  last.out \o Slice(text, last.pos, Len(text))
===============================================================================
