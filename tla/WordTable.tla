----------------------------- MODULE WordTable -----------------------------
(***************************************************************************)
(* Tables in services/docx_export.py and services/docx_import.py.           *)
(*                                                                         *)
(* The editor's table is rows of cells [text, head, colspan, rowspan],      *)
(* placed by what the rows above leave free.  Word's is rows [head, cells]  *)
(* that each fill the whole grid: its cells are [text, span, merge], and a  *)
(* cell merged downwards continues in every row it covers.                  *)
(***************************************************************************)
EXTENDS Integers, Sequences, SequencesExt, FiniteSets, FiniteSetsExt

EmptyCell == [text |-> "", head |-> FALSE, colspan |-> 1, rowspan |-> 1]

(* The grid fields of a cell placed at this row and column.                 *)
Covers(p) ==
  (p.row .. p.row + p.cell.rowspan - 1) \X (p.column .. p.column + p.cell.colspan - 1)

AllCovered(placed) == UNION {Covers(placed[i]) : i \in DOMAIN placed}

(* _layout: each cell takes the first column free from where its row is.    *)
Layout(rows) ==
  LET free(state, r) ==
        Min({c \in state.column .. state.column + Cardinality(state.covered) :
               <<r, c>> \notin state.covered})
      put(state, r, cell) ==
        LET p == [row |-> r, column |-> free(state, r), cell |-> cell] IN
        [placed |-> Append(state.placed, p), covered |-> state.covered \cup Covers(p),
         column |-> p.column + cell.colspan]
      row(state, r) ==
        FoldLeft(LAMBDA s, cell : put(s, r, cell), [state EXCEPT !.column = 0], rows[r])
  IN  FoldLeft(row, [placed |-> <<>>, covered |-> {}, column |-> 0],
               [r \in DOMAIN rows |-> r]).placed

Width(rows) ==
  Max({0} \cup {field[2] + 1 : field \in {f \in AllCovered(Layout(rows)) : f[1] \in DOMAIN rows}})

(* _Writer.table, and python-docx's merge: a row's fields from left to      *)
(* right, one for each cell that covers part of the row and one for each    *)
(* grid field that none does.  A rowspan ends with the table.               *)
WriteTable(rows) ==
  LET placed == Layout(rows)
      over(r, c) == {p \in ToSet(placed) : <<r, c>> \in Covers(p)}
      last(p) == Min({p.row + p.cell.rowspan, Len(rows) + 1}) - 1
      field(r, p) == [text |-> p.cell.text, span |-> p.cell.colspan,
                      merge |-> CASE last(p) = p.row -> "none"
                                  [] r = p.row -> "restart"
                                  [] OTHER -> "continue"]
      at(r, c) == IF over(r, c) = {} THEN <<[text |-> "", span |-> 1, merge |-> "none"]>>
                  ELSE LET p == CHOOSE q \in over(r, c) : TRUE IN
                       IF p.column = c THEN <<field(r, p)>> ELSE <<>>
  IN  [r \in DOMAIN rows |->
        [head |-> rows[r] # <<>> /\ \A k \in DOMAIN rows[r] : rows[r][k].head,
         cells |-> FlattenSeq([c \in 1 .. Width(rows) |-> at(r, c - 1)])]]

(* _rectangular: rows padded to the widest, counting what cells of the rows *)
(* above cover of them.                                                     *)
Rectangular(rows) ==
  LET own(r) == FoldLeft(LAMBDA sum, cell : sum + cell.colspan, 0, rows[r])
      reaching(r, s) == SelectSeq(rows[r], LAMBDA cell : r + cell.rowspan > s)
      covered(s) == FoldLeft(LAMBDA sum, r : FoldLeft(LAMBDA n, cell : n + cell.colspan,
                                                      sum, reaching(r, s)),
                             0, [r \in 1 .. s - 1 |-> r])
      target == Max({own(r) + covered(r) : r \in DOMAIN rows})
  IN  [r \in DOMAIN rows |->
        rows[r] \o [i \in 1 .. target - own(r) - covered(r) |-> EmptyCell]]

(* _Reader.table: a field that continues a merge makes the cell above it a  *)
(* row taller.  open has the cell each column last began a merge with, by   *)
(* its row and index; a row with no cell of its own adds nothing.           *)
ReadTable(file) ==
  LET begun(state, column) == {o \in state.open : o.column = column}
      taller(rows, origins, by) ==
        [r \in DOMAIN rows |-> [k \in DOMAIN rows[r] |->
           IF \E o \in origins : o.row = r /\ o.index = k
             THEN [rows[r][k] EXCEPT !.rowspan = @ + by] ELSE rows[r][k]]]
      cell(state, head, field) ==
        LET origin == begun(state, state.column)
            next == state.column + field.span
            new == [column |-> state.column, row |-> Len(state.rows) + 1,
                    index |-> Len(state.cells) + 1]
        IN  IF field.merge = "continue" /\ origin # {}
              THEN [state EXCEPT !.rows = taller(@, origin, 1), !.column = next,
                                 !.extended = @ \cup origin]
              ELSE [state EXCEPT
                      !.cells = Append(@, [text |-> field.text, head |-> head,
                                           colspan |-> field.span, rowspan |-> 1]),
                      !.open = (@ \ origin) \cup (IF field.merge = "none" THEN {} ELSE {new}),
                      !.column = next]
      row(state, tr) ==
        LET end == FoldLeft(LAMBDA s, field : cell(s, tr.head, field),
                            [state EXCEPT !.column = 0, !.cells = <<>>, !.extended = {}],
                            tr.cells)
        IN  IF end.cells # <<>> THEN [end EXCEPT !.rows = Append(@, end.cells)]
            ELSE [end EXCEPT !.rows = taller(@, end.extended, -1)]
  IN  Rectangular(FoldLeft(row, [rows |-> <<>>, open |-> {}, column |-> 0, cells |-> <<>>,
                                 extended |-> {}], file).rows)

-----------------------------------------------------------------------------
(* What should come back.                                                   *)

(* No two cells share a field: nothing for the editor to repair but width.  *)
NoOverlap(rows) ==
  LET placed == Layout(rows) IN
  \A i, j \in DOMAIN placed : i < j => Covers(placed[i]) \cap Covers(placed[j]) = {}

(* The cells fill the grid, each once.                                      *)
FillsGrid(rows) ==
  /\ NoOverlap(rows)
  /\ AllCovered(Layout(rows)) = (1 .. Len(rows)) \X (0 .. Width(rows) - 1)

CellTexts(rows) ==
  SelectSeq([i \in DOMAIN Layout(rows) |-> Layout(rows)[i].cell.text], LAMBDA t : t # "")

WholeHeads(rows) ==
  \A r \in DOMAIN rows : \A k, l \in DOMAIN rows[r] : rows[r][k].head = rows[r][l].head

(* A table comes back filling its grid with its cells in their order, and,  *)
(* if it filled its grid and every row has a cell, as it was.               *)
TableComesBack(rows, back) ==
  /\ FillsGrid(back)
  /\ CellTexts(back) = CellTexts(rows)
  /\ FillsGrid(rows) /\ WholeHeads(rows) /\ (\A r \in DOMAIN rows : rows[r] # <<>>)
       => back = rows
============================================================================
