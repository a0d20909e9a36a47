----------------------------- MODULE StatusRows -----------------------------
(***************************************************************************)
(* The rows of one Status display (nabat/status.go, status_model.go):      *)
(* goroutines started by the work function create and update rows while    *)
(* the Bubble Tea loop draws frames.  A frame is not one atomic read:      *)
(* rowSnapshots copies the slice of rows under Status.mu, then locks each  *)
(* row to read its visibility and priority, sorts, and then locks each     *)
(* row again to copy it.  Goroutines run between any two of those locks.   *)
(***************************************************************************)
EXTENDS StatusRow, Sequences, FiniteSets

CONSTANTS
  Workers,      \* goroutines that call the handle
  MaxCalls,     \* bound: calls all goroutines make together
  MaxTime,      \* bound: clock readings 0..MaxTime
  Heights,      \* terminal heights a WindowSizeMsg can report
  ExtraReserve  \* 0..2: one line for the title, one for the column headers

ASSUME StatusAssumption ==
  /\ MaxCalls \in Nat
  /\ MaxTime \in Nat
  /\ Heights \subseteq Nat
  /\ ExtraReserve \in 0..2

VARIABLES
  rows,     \* Status.rows: the rows in insertion order
  rowIdx,   \* Status.rowIdx: key -> index in rows, 0 when absent
  held,     \* the row each goroutine got from Row, 0 before
  calls,    \* calls made so far
  now,      \* the clock
  height,   \* statusModel.height
  view,     \* where the renderer is: "idle", "scan", "snap" or "draw"
  copied,   \* length of the renderer's copy of rows
  scan,     \* what the first pass read of each row of the copy
  order,    \* the visible ones in display order
  snaps,    \* snapshots taken so far
  screen,   \* the rows of the last frame drawn
  touched   \* history: rows updated since the frame being built was begun

callVars == <<rows, rowIdx, held, calls>>
viewVars == <<view, copied, scan, order, snaps, screen>>
vars == <<callVars, now, height, viewVars, touched>>

Init ==
  /\ rows = <<>>
  /\ rowIdx = [k \in Keys |-> 0]
  /\ held = [w \in Workers |-> 0]
  /\ calls = 0
  /\ now = 0
  /\ height = 0
  /\ view = "idle"
  /\ copied = 0
  /\ scan = <<>>
  /\ order = <<>>
  /\ snaps = <<>>
  /\ screen = <<>>
  /\ touched = {}

-----------------------------------------------------------------------------
(* The goroutines.                                                         *)

Call ==
  /\ calls < MaxCalls
  /\ calls' = calls + 1
  /\ UNCHANGED <<now, height, viewVars>>

\* Status.Row: look the key up or append a new row, under Status.mu.
GetRow(w, k) ==
  /\ Call
  /\ IF rowIdx[k] # 0
     THEN /\ held' = [held EXCEPT ![w] = rowIdx[k]]
          /\ UNCHANGED <<rows, rowIdx>>
     ELSE /\ rows' = Append(rows, NewRow(k, now))
          /\ rowIdx' = [rowIdx EXCEPT ![k] = Len(rows) + 1]
          /\ held' = [held EXCEPT ![w] = Len(rows) + 1]
  /\ UNCHANGED touched

\* A locked method of the row the goroutine holds replaces its record by r.
Update(w, r) ==
  /\ Call
  /\ rows' = [rows EXCEPT ![held[w]] = r]
  /\ touched' = IF view = "idle" THEN {} ELSE touched \cup {held[w]}
  /\ UNCHANGED <<rowIdx, held>>

Holds(w) == held[w] # 0

SetText(w, v) ==
  Holds(w) /\ Update(w, [rows[held[w]] EXCEPT !.text = v])

Priority(w, n) ==
  Holds(w) /\ Update(w, [rows[held[w]] EXCEPT !.priority = n])

Finish(w, s) == Holds(w) /\ Update(w, Finished(rows[held[w]], s, now))

Active(w) == Holds(w) /\ Update(w, Activated(rows[held[w]]))

Hide(w) == Holds(w) /\ Update(w, HiddenRow(rows[held[w]], now))

Show(w) == Holds(w) /\ Update(w, ShownRow(rows[held[w]]))

-----------------------------------------------------------------------------
(* The renderer: statusModel.View and Status.rowSnapshots.                 *)

\* The slice of rows is copied under Status.mu.
ViewBegin ==
  /\ view = "idle"
  /\ view' = "scan"
  /\ copied' = Len(rows)
  /\ UNCHANGED <<callVars, now, height, scan, order, snaps, screen, touched>>

\* (A mutant: the first pass does not look at the hidden flag.)
ScanRowHidden ==
  LET i == Len(scan) + 1
  IN  /\ view = "scan"
      /\ i <= copied
      /\ scan' = Append(scan, [row |-> i, hidden |-> FALSE,
                               priority |-> rows[i].priority])
      /\ UNCHANGED <<callVars, now, height, view, copied, order, snaps, screen,
                     touched>>

\* First pass: the rows of the copy are locked one after the other.
ScanRow ==
  LET i == Len(scan) + 1
  IN  /\ view = "scan"
      /\ i <= copied
      /\ scan' = Append(scan, [row |-> i, hidden |-> rows[i].hidden,
                               priority |-> rows[i].priority])
      /\ UNCHANGED <<callVars, now, height, view, copied, order, snaps, screen,
                     touched>>

\* Prioritized rows first, by priority and then by insertion; the others
\* after them, by insertion.
Before(a, b) ==
  \/ a.priority # Nil /\ b.priority = Nil
  \/ a.priority # Nil /\ b.priority # Nil /\ a.priority < b.priority
  \/ a.priority = b.priority /\ a.row < b.row

\* (A mutant: a row without a priority sorts as priority 0.)
SortedNilAsZero(V) ==
  LET P(x) == IF x.priority = Nil THEN 0 ELSE x.priority
  IN  {s \in [1..Cardinality(V) -> V] :
         \A i, j \in 1..Cardinality(V) : i < j =>
           P(s[i]) < P(s[j]) \/ (P(s[i]) = P(s[j]) /\ s[i].row < s[j].row)}

\* The ways to list the set V in that order: there is exactly one.
Sorted(V) ==
  {s \in [1..Cardinality(V) -> V] :
     /\ {s[i] : i \in 1..Cardinality(V)} = V
     /\ \A i, j \in 1..Cardinality(V) : i < j => Before(s[i], s[j])}

SortRows ==
  /\ view = "scan"
  /\ Len(scan) = copied
  /\ view' = "snap"
  /\ order' \in Sorted({scan[i] : i \in {j \in 1..copied : ~scan[j].hidden}})
  /\ UNCHANGED <<callVars, now, height, copied, scan, snaps, screen, touched>>

\* Second pass: the rows are locked again, one after the other, and copied.
SnapRow ==
  LET i == order[Len(snaps) + 1].row
  IN  /\ view = "snap"
      /\ Len(snaps) < Len(order)
      /\ snaps' = Append(snaps, Snapshot(i, rows[i], now))
      /\ UNCHANGED <<callVars, now, height, view, copied, scan, order, screen, touched>>

\* rowSnapshots returns; no goroutine can move the result any more.
Collected ==
  /\ view = "snap"
  /\ Len(snaps) = Len(order)
  /\ view' = "draw"
  /\ UNCHANGED <<callVars, now, height, copied, scan, order, snaps, screen, touched>>

MaxRows == LET free == height - (3 + ExtraReserve)
           IN  IF free > 1 THEN free ELSE 1

visibleRows(s) ==
  IF height = 0 \/ Len(s) <= MaxRows THEN s ELSE SubSeq(s, 1, MaxRows)

\* (A mutant: a frame without rows is not drawn.)
DrawNonEmpty ==
  /\ view = "draw"
  /\ screen' = IF snaps = <<>> THEN screen ELSE visibleRows(snaps)
  /\ view' = "idle"
  /\ copied' = 0
  /\ scan' = <<>>
  /\ order' = <<>>
  /\ snaps' = <<>>
  /\ touched' = {}
  /\ UNCHANGED <<callVars, now, height>>

Draw ==
  /\ view = "draw"
  /\ screen' = visibleRows(snaps)
  /\ view' = "idle"
  /\ copied' = 0
  /\ scan' = <<>>
  /\ order' = <<>>
  /\ snaps' = <<>>
  /\ touched' = {}
  /\ UNCHANGED <<callVars, now, height>>

\* statusModel.Update on a WindowSizeMsg; the loop calls Update and View in
\* turn, so no frame is being collected.
Resize(h) ==
  /\ view = "idle"
  /\ height' = h
  /\ UNCHANGED <<callVars, now, viewVars, touched>>

Tick ==
  /\ now < MaxTime
  /\ now' = now + 1
  /\ UNCHANGED <<callVars, height, viewVars, touched>>

-----------------------------------------------------------------------------

WorkerStep(w) ==
  \/ \E k \in Keys : GetRow(w, k)
  \/ \E v \in Texts : SetText(w, v)
  \/ \E n \in Prios : Priority(w, n)
  \/ \E s \in Ends : Finish(w, s)
  \/ Active(w)
  \/ Hide(w)
  \/ Show(w)

ViewStep == ViewBegin \/ ScanRow \/ SortRows \/ SnapRow \/ Collected \/ Draw

Next ==
  \/ \E w \in Workers : WorkerStep(w)
  \/ ViewStep
  \/ \E h \in Heights : Resize(h)
  \/ Tick

Spec == Init /\ [][Next]_vars

\* The spinner's tick message keeps the event loop drawing while the
\* display is up, so the renderer never stops for good.
FairSpec == Spec /\ WF_vars(ViewStep)

-----------------------------------------------------------------------------
(* Properties.                                                             *)

Rows == DOMAIN rows

\* The variables hold the values the Go types and the bounds allow.
TypeOK ==
  /\ rows \in Seq(Row)
  /\ rowIdx \in [Keys -> Nat]
  /\ held \in [Workers -> 0..Len(rows)]
  /\ calls \in 0..MaxCalls
  /\ now \in 0..MaxTime
  /\ height \in Heights \cup {0}
  /\ view \in {"idle", "scan", "snap", "draw"}
  /\ copied \in 0..Len(rows)
  /\ scan \in Seq([row : 1..copied, hidden : BOOLEAN, priority : Prios \cup {Nil}])
  /\ order \in Seq([row : 1..copied, hidden : {FALSE}, priority : Prios \cup {Nil}])
  /\ Len(scan) <= copied
  /\ snaps \in Seq([row : 1..copied, text : Texts \cup {Nil}, state : RowState,
                   elapsed : 0..MaxTime])
  /\ Len(snaps) <= Len(order)
  /\ screen \in Seq([row : Rows, text : Texts \cup {Nil}, state : RowState,
                    elapsed : 0..MaxTime])
  /\ touched \subseteq Rows

\* Each key has at most one row and the map finds it: concurrent calls of
\* Status.Row with one key never make two rows.
OneRowPerKey ==
  /\ \A i \in Rows : rowIdx[rows[i].key] = i
  /\ \A k \in Keys : rowIdx[k] # 0 => /\ rowIdx[k] \in Rows
                                      /\ rows[rowIdx[k]].key = k

Stopped(r) == r.state \in Terminal \/ r.hidden

\* The elapsed time of a row tells the truth, whatever calls of whichever
\* goroutines follow each other: it never goes back, across freezes and
\* resumes, and stands still while the row is finished or hidden, also when a
\* second terminal call, Hide or Show meets a stopped row.
TimersTellTime ==
  [][\A i \in Rows :
       /\ Elapsed(rows[i], now) <= Elapsed(rows[i], now)'
       /\ Stopped(rows[i]) /\ Stopped(rows[i])'
            => Elapsed(rows[i], now)' = Elapsed(rows[i], now)]_vars

\* The rows a frame under construction shows, and the place of each in it.
Shown == {snaps[p].row : p \in DOMAIN snaps}
Settled == (1..copied) \ touched
Place(i) == CHOOSE p \in DOMAIN snaps : snaps[p].row = i

\* A frame holds every row that was visible while it was collected and none
\* that was hidden all that time, and no row twice, although goroutines
\* update rows between the two passes of rowSnapshots.
VisibleRowsShown ==
  view = "draw" =>
    /\ \A i \in Settled : i \in Shown <=> ~rows[i].hidden
    /\ \A p, q \in DOMAIN snaps : snaps[p].row = snaps[q].row => p = q

\* Any two rows left alone during the collection appear in the order their
\* priorities ask for, wherever the rows around them moved to.
DisplayOrder ==
  view = "draw" =>
    \A i, j \in Settled \cap Shown :
      Before([row |-> i, priority |-> rows[i].priority],
             [row |-> j, priority |-> rows[j].priority])
        => Place(i) < Place(j)

\* When the goroutines are done, the display settles on what they wrote: no
\* last update, row or Hide is lost to the frame being built meanwhile.
ScreenUpToDate ==
  LET Visible == {i \in Rows : ~rows[i].hidden}
  IN  /\ height = 0 => Visible = {screen[p].row : p \in DOMAIN screen}
      /\ \A p \in DOMAIN screen :
           /\ screen[p].row \in Visible
           /\ screen[p].state = rows[screen[p].row].state
           /\ screen[p].text = rows[screen[p].row].text
ScreenCatchesUp == <>[]ScreenUpToDate
=============================================================================
