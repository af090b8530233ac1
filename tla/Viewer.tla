-------------------------------- MODULE Viewer --------------------------------
(***************************************************************************)
(* The result table of gui/DramViewer (MainWindow.axaml.cs): it loads a    *)
(* result file and lists its rows under a filter.  A file is the sequence  *)
(* of its lines, each with its number of fields, its result and the        *)
(* corrections in its 11th field; a file that does not exist is <<>>, and  *)
(* so is an empty one, which has no rows to show either.                   *)
(***************************************************************************)
EXTENDS Naturals, SequencesExt

VARIABLES
    loaded,     \* a file was loaded: HeaderText is set
    rows,       \* _rows: the rows of the file
    filter,     \* FilterBox.SelectedIndex
    view        \* RowsList.ItemsSource

viewer_vars == <<loaded, rows, filter, view>>

\* The window shows "all" of no rows at first.
ViewerInit == loaded = FALSE /\ rows = <<>> /\ filter = 0 /\ view = <<>>

\* The row of a line, if there is one.
ParseLine(f) ==
    IF f.fields < 11 THEN <<>>
    ELSE <<[result |-> f.result, is_escape |-> f.result = "PASS" /\ f.ecc_corr > 0]>>

\* The rows of all lines but the first.
Parsed(lines) == FlattenSeq([k \in 1 .. Len(lines) - 1 |-> ParseLine(lines[k + 1])])

Kept(row, index) ==
    \/ index = 0
    \/ index = 1 /\ row.is_escape
    \/ index = 2 /\ row.result = "PASS"
    \/ index = 3 /\ row.result = "FAIL"

\* The rows a choice of the filter keeps, in their order.
Listed(table, index) ==
    FlattenSeq([k \in DOMAIN table |->
                   IF Kept(table[k], index) THEN <<table[k]>> ELSE <<>>])

Redraw == view' = Listed(rows', filter')

OnLoadClick(lines) ==
    /\ lines # <<>>
    /\ loaded' = TRUE
    /\ rows' = Parsed(lines)
    /\ UNCHANGED filter
    /\ Redraw

OnViewChanged ==
    /\ filter' \in 0 .. 3 /\ filter' # filter
    /\ UNCHANGED <<loaded, rows>>
    /\ Redraw

==============================================================================
