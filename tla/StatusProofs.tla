---------------------------- MODULE StatusProofs ----------------------------
(* Proofs about StatusRows, for every number of goroutines, rows, calls and  *)
(* clock readings, and about StatusRun, for every choice of its constants.   *)
(* Rows: one that is finished or hidden has a frozen timer, and a frozen     *)
(* timer never shows more than the time since the row was made; what the     *)
(* first pass read of a row is what the row still says unless somebody       *)
(* touched it, so that the order made of it is the order the untouched rows  *)
(* ask for. The call: the function, the event loop and the caller meet in a  *)
(* few facts: which of them has started when, that every trace of            *)
(* statusDoneMsg (the message, the Quit it leads to, the fields of the       *)
(* model) is one of a function that has returned, and that a loop that ended *)
(* by itself drew its last header after it had seen the result.              *)
EXTENDS StatusRows, StatusRun, FiniteSetTheorems, SequenceTheorems, TLAPS

-----------------------------------------------------------------------------
(* The rows and their frames: StatusRows.                                   *)

RowsOK ==
  /\ rows \in Seq(Row)
  /\ rowIdx \in [Keys -> Nat]
  /\ held \in [Workers -> 0..Len(rows)]
  /\ now \in Nat

TimerOK(r, t) ==
  /\ r.created <= t
  /\ r.frozen => r.frozenAt <= t - r.created
  /\ Stopped(r) => r.frozen

RowsInv ==
  /\ RowsOK
  /\ OneRowPerKey
  /\ \A i \in Rows : TimerOK(rows[i], now)

-----------------------------------------------------------------------------
(* The records of the rows.                                                  *)

\* What a method of a row may make of its record r at time t.
Kept(r, s, t) ==
  /\ s \in Row
  /\ s.key = r.key
  /\ TimerOK(s, t)
  /\ Elapsed(r, t) <= Elapsed(s, t)
  /\ Stopped(r) /\ Stopped(s) => Elapsed(s, t) = Elapsed(r, t)

LEMMA MethodsKeep ==
  ASSUME NEW r \in Row, NEW t \in Nat, TimerOK(r, t)
  PROVE  /\ \A v \in Texts : Kept(r, [r EXCEPT !.text = v], t)
         /\ \A n \in Prios : Kept(r, [r EXCEPT !.priority = n], t)
         /\ \A s \in Ends : Kept(r, Finished(r, s, t), t)
         /\ Kept(r, Activated(r), t)
         /\ Kept(r, HiddenRow(r, t), t)
         /\ Kept(r, ShownRow(r), t)
<1> USE RowAssumption
<1>1. /\ r.state \in RowState /\ r.hidden \in BOOLEAN /\ r.frozen \in BOOLEAN
      /\ r.created \in Nat /\ r.frozenAt \in Nat
      /\ r.created <= t
      /\ r.frozen => r.frozenAt <= t - r.created
      /\ r.state \in Terminal \/ r.hidden => r.frozen
      /\ t - r.created \in Nat
  <2>1. r.created \in Nat /\ r.created <= t /\ t - r.created \in Nat
    BY DEF TimerOK, Row
  <2>2. QED
    BY <2>1 DEF TimerOK, Stopped, Row
<1>2. ASSUME NEW s \in Row, s.key = r.key, s.created = r.created,
             \/ s.frozen = r.frozen /\ s.frozenAt = r.frozenAt
             \/ s.frozen = TRUE /\ ~r.frozen /\ s.frozenAt = t - r.created
             \/ s.frozen = FALSE,
             \/ s.frozen = TRUE
             \/ s.state \notin Terminal /\ s.hidden = FALSE
             \/ s.state = r.state /\ s.frozen = r.frozen /\ s.hidden \in {r.hidden, FALSE}
      PROVE  Kept(r, s, t)
  <2>1. Elapsed(s, t) \in Nat /\ Elapsed(r, t) \in Nat /\ Elapsed(r, t) <= Elapsed(s, t)
    BY <1>1, <1>2 DEF Elapsed
  <2>2. TimerOK(s, t)
    <3>1. s.created <= t /\ (s.frozen => s.frozenAt <= t - s.created)
      BY <1>1, <1>2
    <3>2. s.hidden \in BOOLEAN /\ s.frozen \in BOOLEAN
      BY DEF Row
    <3>3. s.state \in Terminal \/ s.hidden => s.frozen
      BY <1>1, <1>2, <3>2
    <3>4. QED
      BY <3>1, <3>3 DEF TimerOK, Stopped
  <2>3. Stopped(r) /\ Stopped(s) => Elapsed(s, t) = Elapsed(r, t)
    BY <1>1, <1>2, <2>2 DEF Elapsed, Stopped, TimerOK
  <2>4. QED
    BY <1>2, <2>1, <2>2, <2>3 DEF Kept
<1>3. ASSUME NEW v \in Texts PROVE Kept(r, [r EXCEPT !.text = v], t)
  <2>1. [r EXCEPT !.text = v] \in Row
    BY DEF Row
  <2>2. QED
    BY <1>2, <2>1 DEF Row
<1>4. ASSUME NEW n \in Prios PROVE Kept(r, [r EXCEPT !.priority = n], t)
  <2>1. [r EXCEPT !.priority = n] \in Row
    BY DEF Row
  <2>2. QED
    BY <1>2, <2>1 DEF Row
<1>5. ASSUME NEW s \in Ends PROVE Kept(r, Finished(r, s, t), t)
  <2>1. CASE r.frozen
    <3>1. Finished(r, s, t) = [r EXCEPT !.state = s]
      BY <2>1 DEF Finished, freezeTimer, Row
    <3>2. [r EXCEPT !.state = s] \in Row
      BY DEF Row, RowState
    <3>3. QED
      BY <1>1, <1>2, <2>1, <3>1, <3>2 DEF Row
  <2>2. CASE ~r.frozen
    <3> DEFINE f == [r EXCEPT !.state = s, !.frozen = TRUE, !.frozenAt = t - r.created]
    <3>1. Finished(r, s, t) = f
      BY <2>2 DEF Finished, freezeTimer, Row
    <3>2. f \in Row
      <4>1. t - r.created \in Nat /\ s \in RowState
        BY <1>1 DEF RowState
      <4> HIDE DEF RowState
      <4>2. QED
        BY <4>1 DEF Row
    <3>3. f.key = r.key /\ f.created = r.created /\ f.frozen = TRUE /\ f.frozenAt = t - r.created
      BY DEF Row
    <3> HIDE DEF f
    <3>4. QED
      BY <1>2, <2>2, <3>1, <3>2, <3>3
  <2>3. QED
    BY <2>1, <2>2
<1>6. Kept(r, Activated(r), t)
  <2>1. Activated(r) = [r EXCEPT !.state = "Active", !.frozen = FALSE, !.frozenAt = 0,
                                 !.hidden = FALSE]
    BY DEF Activated, resumeTimer, Row
  <2> DEFINE f == [r EXCEPT !.state = "Active", !.frozen = FALSE, !.frozenAt = 0,
                            !.hidden = FALSE]
  <2>2. f \in Row
    BY DEF Row, RowState
  <2>3. /\ f.key = r.key /\ f.created = r.created /\ f.frozen = FALSE
        /\ f.state \notin Terminal /\ f.hidden = FALSE
    BY DEF Row, Terminal
  <2> HIDE DEF f
  <2>4. Kept(r, f, t)
    BY <1>2, <2>2, <2>3
  <2>5. QED
    BY <2>1, <2>4 DEF f
<1>7. Kept(r, HiddenRow(r, t), t)
  <2>1. CASE r.frozen
    <3>1. HiddenRow(r, t) = [r EXCEPT !.hidden = TRUE]
      BY <2>1 DEF HiddenRow, freezeTimer, Row
    <3>2. [r EXCEPT !.hidden = TRUE] \in Row
      BY DEF Row
    <3>3. QED
      BY <1>1, <1>2, <2>1, <3>1, <3>2 DEF Row
  <2>2. CASE ~r.frozen
    <3> DEFINE f == [r EXCEPT !.hidden = TRUE, !.frozen = TRUE, !.frozenAt = t - r.created]
    <3>1. HiddenRow(r, t) = f
      BY <2>2 DEF HiddenRow, freezeTimer, Row
    <3>2. f \in Row
      <4>1. t - r.created \in Nat
        BY <1>1
      <4>2. QED
        BY <4>1 DEF Row
    <3>3. f.key = r.key /\ f.created = r.created /\ f.frozen = TRUE /\ f.frozenAt = t - r.created
      BY DEF Row
    <3> HIDE DEF f
    <3>4. QED
      BY <1>2, <2>2, <3>1, <3>2, <3>3
  <2>3. QED
    BY <2>1, <2>2
<1>8. Kept(r, ShownRow(r), t)
  <2>1. [r EXCEPT !.hidden = FALSE] \in Row
    BY DEF Row
  <2>2. QED
    BY <1>2, <2>1 DEF ShownRow, Row
<1>9. QED
  BY <1>3, <1>4, <1>5, <1>6, <1>7, <1>8

\* Every step of a goroutine gets a row or keeps what a method must keep.
LEMMA WorkerCases ==
  ASSUME RowsInv, NEW w \in Workers, WorkerStep(w)
  PROVE  \/ \E k \in Keys : GetRow(w, k)
         \/ /\ held[w] \in Rows
            /\ \E r : Kept(rows[held[w]], r, now) /\ Update(w, r)
<1>1. ASSUME Holds(w)
      PROVE  held[w] \in Rows /\ rows[held[w]] \in Row /\ TimerOK(rows[held[w]], now)
             /\ now \in Nat
  BY <1>1 DEF Holds, RowsInv, RowsOK, Rows
<1>2. QED
  BY <1>1, MethodsKeep DEF WorkerStep, SetText, Priority, Finish, Active, Hide, Show

\* A new row goes to the end, where the map finds it.
LEMMA GetRowInv ==
  ASSUME RowsInv, NEW w \in Workers, NEW k \in Keys, GetRow(w, k)
  PROVE  /\ RowsInv'
         /\ Rows \subseteq Rows'
         /\ \A i \in Rows : rows'[i] = rows[i]
         /\ now' = now
<1> USE DEF RowsInv, RowsOK, GetRow, Call, Rows
<1>1. CASE rowIdx[k] # 0
  <2>1. rowIdx[k] \in 0..Len(rows)
    BY DEF OneRowPerKey
  <2>2. QED
    BY <1>1, <2>1 DEF OneRowPerKey
<1>2. CASE rowIdx[k] = 0
  <2>1. NewRow(k, now) \in Row /\ NewRow(k, now).key = k /\ TimerOK(NewRow(k, now), now)
    BY DEF NewRow, Row, RowState, TimerOK, Stopped, Terminal
  <2>2. /\ rows' = Append(rows, NewRow(k, now))
        /\ rowIdx' = [rowIdx EXCEPT ![k] = Len(rows) + 1]
        /\ held' = [held EXCEPT ![w] = Len(rows) + 1]
        /\ now' = now
    BY <1>2
  <2>3. /\ rows' \in Seq(Row) /\ Len(rows') = Len(rows) + 1
        /\ rows'[Len(rows) + 1] = NewRow(k, now)
        /\ \A i \in 1..Len(rows) : rows'[i] = rows[i]
    BY <2>1, <2>2
  <2>4. RowsOK'
    BY <2>2, <2>3
  <2>5. OneRowPerKey'
    <3>1. rowIdx'[k] = Len(rows) + 1 /\ \A j \in Keys \ {k} : rowIdx'[j] = rowIdx[j]
      BY <2>2
    <3>2. \A i \in 1..Len(rows) : rows[i].key # k /\ rows[i].key \in Keys
      <4> SUFFICES ASSUME NEW i \in 1..Len(rows) PROVE rows[i].key # k /\ rows[i].key \in Keys
        OBVIOUS
      <4>1. rows[i] \in Row /\ i # 0
        OBVIOUS
      <4>2. rowIdx[rows[i].key] = i
        BY DEF OneRowPerKey
      <4>3. QED
        BY <1>2, <4>1, <4>2 DEF Row
    <3>3. \A i \in Rows' : rowIdx'[rows'[i].key] = i
      BY <2>1, <2>3, <3>1, <3>2 DEF OneRowPerKey
    <3>4. ASSUME NEW j \in Keys, rowIdx'[j] # 0
          PROVE  rowIdx'[j] \in Rows' /\ rows'[rowIdx'[j]].key = j
      BY <2>1, <2>3, <3>1, <3>4 DEF OneRowPerKey
    <3>5. QED
      BY <3>3, <3>4 DEF OneRowPerKey
  <2>6. \A i \in Rows' : TimerOK(rows'[i], now')
    BY <2>1, <2>2, <2>3
  <2>7. QED
    BY <2>2, <2>3, <2>4, <2>5, <2>6
<1>3. QED
  BY <1>1, <1>2

LEMMA UpdateInv ==
  ASSUME RowsInv, NEW w \in Workers, held[w] \in Rows,
         NEW r, Kept(rows[held[w]], r, now), Update(w, r)
  PROVE  /\ RowsInv'
         /\ Rows' = Rows
         /\ rows' = [rows EXCEPT ![held[w]] = r]
         /\ now' = now
<1> USE DEF RowsInv, RowsOK, Update, Call, Rows, Kept
<1>1. /\ rows' = [rows EXCEPT ![held[w]] = r] /\ rows' \in Seq(Row) /\ Len(rows') = Len(rows)
      /\ UNCHANGED <<rowIdx, held, now>>
  OBVIOUS
<1>2. RowsOK'
  BY <1>1
<1>3. OneRowPerKey'
  BY <1>1 DEF OneRowPerKey
<1>4. \A i \in Rows' : TimerOK(rows'[i], now')
  BY <1>1
<1>5. QED
  BY <1>1, <1>2, <1>3, <1>4

LEMMA TickTimers ==
  ASSUME NEW r \in Row, NEW t \in Nat, TimerOK(r, t)
  PROVE  TimerOK(r, t + 1)
  BY DEF TimerOK, Row

LEMMA RowsInitInv == Init => RowsInv
<1> SUFFICES ASSUME Init PROVE RowsInv
  OBVIOUS
<1>1. QED
  BY DEF Init, RowsInv, RowsOK, OneRowPerKey, Rows

LEMMA RowsNextInv == RowsInv /\ [Next]_vars => RowsInv'
<1> SUFFICES ASSUME RowsInv, [Next]_vars PROVE RowsInv'
  OBVIOUS
<1>1. ASSUME NEW w \in Workers, WorkerStep(w) PROVE RowsInv'
  BY <1>1, WorkerCases, GetRowInv, UpdateInv
<1>2. CASE Tick
  <2>1. UNCHANGED <<rows, rowIdx, held>> /\ now' = now + 1
    BY <1>2 DEF Tick, callVars
  <2>2. RowsOK' /\ OneRowPerKey'
    BY <2>1 DEF RowsInv, RowsOK, OneRowPerKey, Rows
  <2>3. \A i \in Rows' : TimerOK(rows'[i], now')
    BY <2>1, TickTimers DEF RowsInv, RowsOK, Rows
  <2>4. QED
    BY <2>2, <2>3 DEF RowsInv
<1>3. CASE UNCHANGED <<callVars, now>>
  BY <1>3 DEF callVars, RowsInv, RowsOK, OneRowPerKey, Rows
<1>4. QED
  BY <1>1, <1>2, <1>3
     DEF Next, ViewStep, ViewBegin, ScanRow, SortRows, SnapRow, Collected, Draw, Resize, vars

\* One step of the timers.
LEMMA StepTellsTime ==
  ASSUME RowsInv, [Next]_vars, NEW i \in Rows
  PROVE  /\ Elapsed(rows[i], now) <= Elapsed(rows[i], now)'
         /\ Stopped(rows[i]) /\ Stopped(rows[i])'
              => Elapsed(rows[i], now)' = Elapsed(rows[i], now)
<1>1. /\ rows[i] \in Row /\ now \in Nat /\ TimerOK(rows[i], now)
  BY DEF RowsInv, RowsOK, Rows
<1>2. Elapsed(rows[i], now) \in Int
  BY <1>1 DEF Elapsed, Row
<1>3. CASE rows'[i] = rows[i] /\ now' = now
  BY <1>2, <1>3 DEF Elapsed, Stopped
<1>4. CASE rows'[i] = rows[i] /\ now' = now + 1
  BY <1>1, <1>4 DEF Elapsed, Stopped, TimerOK, Row
<1>5. ASSUME NEW w \in Workers, WorkerStep(w)
      PROVE  now' = now /\ (rows'[i] = rows[i] \/ Kept(rows[i], rows'[i], now))
  <2>1. CASE \E k \in Keys : GetRow(w, k)
    BY <2>1, GetRowInv
  <2>2. ASSUME held[w] \in Rows, NEW r, Kept(rows[held[w]], r, now), Update(w, r)
        PROVE  now' = now /\ (rows'[i] = rows[i] \/ Kept(rows[i], rows'[i], now))
    <3>1. now' = now /\ rows' = [rows EXCEPT ![held[w]] = r]
      BY <2>2, UpdateInv
    <3>2. rows \in Seq(Row)
      BY DEF RowsInv, RowsOK
    <3>3. QED
      BY <2>2, <3>1, <3>2 DEF Rows
  <2>3. QED
    BY <1>5, <2>1, <2>2, WorkerCases
<1>6. CASE now' = now /\ Kept(rows[i], rows'[i], now)
  BY <1>6 DEF Kept, Elapsed, Stopped
<1>7. \/ \E w \in Workers : WorkerStep(w)
      \/ rows'[i] = rows[i] /\ now' = now
      \/ rows'[i] = rows[i] /\ now' = now + 1
  BY DEF Next, ViewStep, ViewBegin, ScanRow, SortRows, SnapRow, Collected, Draw, Resize,
         Tick, callVars, vars
<1>8. QED
  BY <1>3, <1>4, <1>5, <1>6, <1>7

-----------------------------------------------------------------------------
(* The frame.                                                                *)

Scanned == [row : Nat, hidden : BOOLEAN, priority : Prios \cup {Nil}]
Seen == {scan[i] : i \in {j \in 1..copied : ~scan[j].hidden}}

FrameInv ==
  /\ copied \in Nat /\ copied <= Len(rows)
  /\ scan \in Seq(Scanned) /\ Len(scan) <= copied
  /\ view = "idle" => scan = <<>>
  /\ view \in {"idle", "scan"} => snaps = <<>>
  /\ \A j \in 1..Len(scan) : scan[j].row = j
  /\ \A j \in 1..Len(scan) : \/ j \in touched
                             \/ /\ scan[j].hidden = rows[j].hidden
                                /\ scan[j].priority = rows[j].priority
  /\ view \in {"snap", "draw"} => /\ Len(scan) = copied
                                 /\ order \in Sorted(Seen)
                                 /\ Len(snaps) <= Len(order)
  /\ snaps \in Seq([row : Nat, text : Texts \cup {Nil}, state : RowState, elapsed : Int])
  /\ \A p \in 1..Len(snaps) : snaps[p].row = order[p].row
  /\ view = "draw" => Len(snaps) = Len(order)

\* The display order is strict.
LEMMA BeforeStrict ==
  ASSUME NEW x \in [row : Nat, priority : Prios \cup {Nil}],
         NEW y \in [row : Nat, priority : Prios \cup {Nil}],
         Before(x, y)
  PROVE  ~Before(y, x)
<1>1. /\ x.row \in Nat /\ y.row \in Nat
      /\ x.priority # Nil => x.priority \in Int
      /\ y.priority # Nil => y.priority \in Int
  BY RowAssumption
<1>2. QED
  BY <1>1 DEF Before

\* Only the row and the priority count in it.
LEMMA BeforeOf ==
  ASSUME NEW x, NEW y
  PROVE  Before(x, y) <=> Before([row |-> x.row, priority |-> x.priority],
                                 [row |-> y.row, priority |-> y.priority])
  BY DEF Before

\* The order is a listing of what the first pass saw, without repetition.
LEMMA OrderLists ==
  ASSUME copied \in Nat, scan \in Seq(Scanned), Len(scan) = copied, order \in Sorted(Seen)
  PROVE  /\ Len(order) \in Nat /\ DOMAIN order = 1..Len(order)
         /\ \A p \in 1..Len(order) : \E j \in 1..copied : ~scan[j].hidden /\ order[p] = scan[j]
         /\ \A j \in 1..copied : ~scan[j].hidden => \E p \in 1..Len(order) : order[p] = scan[j]
         /\ \A p, q \in 1..Len(order) : p < q => Before(order[p], order[q])
<1> DEFINE I == {j \in 1..copied : ~scan[j].hidden}
           f == [i \in I |-> scan[i]]
<1>1. IsFiniteSet(I)
  <2>1. IsFiniteSet(1..copied) /\ I \in SUBSET (1..copied)
    BY FS_Interval
  <2>2. QED
    BY <2>1, FS_Subset
<1>2. f \in Surjection(I, Seen)
  BY DEF Surjection, Seen
<1>3. IsFiniteSet(Seen)
  BY <1>1, <1>2, FS_Surjection DEF ExistsSurjection
<1>4. Cardinality(Seen) \in Nat
  BY <1>3, FS_CardinalityType
<1> DEFINE N == Cardinality(Seen)
<1> HIDE DEF N
<1>5. /\ N \in Nat /\ order \in [1..N -> Seen]
      /\ {order[i] : i \in 1..N} = Seen
      /\ \A i, j \in 1..N : i < j => Before(order[i], order[j])
  BY <1>4 DEF Sorted, N
<1>6. order \in Seq(Seen)
  BY <1>5, SeqDef
<1>7. Len(order) = N /\ DOMAIN order = 1..N
  BY <1>5, <1>6
<1>8. QED
  BY <1>5, <1>7 DEF Seen

\* A step of the renderer, or of what it does not read.
LEMMA ViewInv ==
  ASSUME RowsInv, FrameInv, [ViewStep \/ Tick \/ (\E h \in Heights : Resize(h))]_vars
  PROVE  FrameInv'
<1> USE DEF callVars, FrameInv
<1>1. CASE ViewBegin
  BY <1>1 DEF ViewBegin, RowsInv, RowsOK
<1>2. CASE ScanRow
  <2> DEFINE i == Len(scan) + 1
             e == [row |-> i, hidden |-> rows[i].hidden, priority |-> rows[i].priority]
  <2>1. /\ view = "scan" /\ i \in 1..copied /\ scan' = Append(scan, e)
        /\ UNCHANGED <<rows, view, copied, order, snaps, touched>>
    BY <1>2 DEF ScanRow
  <2>2. rows[i] \in Row
    BY <2>1 DEF RowsInv, RowsOK
  <2>3. e \in Scanned
    BY <2>1, <2>2 DEF Scanned, Row
  <2>4. /\ scan' \in Seq(Scanned) /\ Len(scan') = i
        /\ scan'[i] = e /\ \A j \in 1..Len(scan) : scan'[j] = scan[j]
    BY <2>1, <2>3
  <2>5. QED
    BY <2>1, <2>4
<1>3. CASE SortRows
  <2>1. order' \in Sorted(Seen)
    BY <1>3 DEF SortRows, Seen
  <2>2. /\ view = "scan" /\ view' = "snap" /\ Len(scan) = copied /\ snaps = <<>>
        /\ UNCHANGED <<rows, copied, scan, snaps, touched>>
    BY <1>3 DEF SortRows
  <2>3. order' \in Sorted(Seen)'
    BY <2>1, <2>2 DEF Seen
  <2>4. Len(order') \in Nat
    BY <2>2, <2>3, OrderLists
  <2>5. QED
    BY <2>2, <2>3, <2>4
<1>4. CASE SnapRow
  <2> DEFINE m == Len(snaps) + 1
             i == order[m].row
  <2>1. /\ view = "snap" /\ m <= Len(order) /\ snaps' = Append(snaps, Snapshot(i, rows[i], now))
        /\ UNCHANGED <<rows, view, copied, scan, order, touched>>
    BY <1>4, OrderLists DEF SnapRow
  <2>2. PICK j \in 1..copied : order[m] = scan[j]
    BY <2>1, OrderLists
  <2>3. i = j /\ rows[i] \in Row
    BY <2>1, <2>2 DEF RowsInv, RowsOK
  <2>4. /\ Snapshot(i, rows[i], now) \in [row : Nat, text : Texts \cup {Nil},
                                          state : RowState, elapsed : Int]
        /\ Snapshot(i, rows[i], now).row = i
    <3> HIDE DEF i
    <3>1. rows[i] \in Row /\ i \in Nat /\ now \in Int
      BY <2>3 DEF RowsInv, RowsOK
    <3>2. /\ Elapsed(rows[i], now) \in Int
          /\ rows[i].text \in Texts \cup {Nil} /\ rows[i].state \in RowState
      BY <3>1 DEF Elapsed, Row
    <3>3. QED
      BY <3>1, <3>2 DEF Snapshot
  <2>5. Seen' = Seen
    BY <2>1 DEF Seen
  <2> DEFINE e == Snapshot(i, rows[i], now)
  <2>6. e.row = order[m].row
    BY <2>4
  <2> HIDE DEF i, e
  <2>7. /\ snaps' = Append(snaps, e)
        /\ e \in [row : Nat, text : Texts \cup {Nil}, state : RowState, elapsed : Int]
    BY <2>1, <2>4 DEF e
  <2>8. /\ snaps' \in Seq([row : Nat, text : Texts \cup {Nil}, state : RowState, elapsed : Int])
        /\ Len(snaps') = m /\ snaps'[m] = e
        /\ \A p \in 1..Len(snaps) : snaps'[p] = snaps[p]
    BY <2>7
  <2>9. \A p \in 1..Len(snaps') : snaps'[p].row = order'[p].row
    <3>1. Len(snaps) \in Nat /\ \A p \in 1..Len(snaps) : snaps[p].row = order[p].row
      OBVIOUS
    <3>2. \A p \in 1..m : p = m \/ p \in 1..Len(snaps)
      BY <3>1
    <3> HIDE DEF m, FrameInv
    <3>3. QED
      BY <2>1, <2>6, <2>8, <3>1, <3>2
  <2> HIDE DEF m
  <2>10. Len(snaps') <= Len(order')
    BY <2>1, <2>8
  <2>11. QED
    BY <2>1, <2>5, <2>8, <2>9, <2>10
<1>5. CASE Collected
  BY <1>5 DEF Collected, Seen
<1>6. CASE Draw
  BY <1>6 DEF Draw, RowsInv, RowsOK
<1>7. CASE UNCHANGED <<rows, viewVars, touched>>
  BY <1>7 DEF viewVars, Seen
<1>8. QED
  BY <1>1, <1>2, <1>3, <1>4, <1>5, <1>6, <1>7 DEF ViewStep, Tick, Resize, vars

\* Status.Row leaves the rows there are in their places.
LEMMA RowsGrow ==
  ASSUME RowsInv, NEW w \in Workers, \E k \in Keys : GetRow(w, k)
  PROVE  /\ Len(rows) \in Nat /\ Len(rows') \in Nat
         /\ Len(rows) <= Len(rows')
         /\ \A i \in 1..Len(rows) : rows'[i] = rows[i]
<1>1. Rows \subseteq Rows' /\ \A i \in Rows : rows'[i] = rows[i]
  BY GetRowInv
<1>2. RowsInv'
  BY GetRowInv
<1>3. /\ DOMAIN rows = 1..Len(rows) /\ Len(rows) \in Nat
  BY DEF RowsInv, RowsOK
<1>4. /\ DOMAIN rows' = 1..Len(rows') /\ Len(rows') \in Nat
  BY <1>2 DEF RowsInv, RowsOK
<1>5. 1..Len(rows) \subseteq 1..Len(rows')
  BY <1>1, <1>3, <1>4 DEF Rows
<1>6. Len(rows) <= Len(rows')
  BY <1>3, <1>4, <1>5
<1>7. QED
  BY <1>1, <1>3, <1>4, <1>6 DEF Rows

\* A step of a goroutine: rows it changes are touched, rows it adds are not
\* of the frame.
LEMMA WorkerFrame ==
  ASSUME RowsInv, FrameInv, NEW w \in Workers, WorkerStep(w)
  PROVE  FrameInv'
<1> USE DEF FrameInv
<1>1. CASE \E k \in Keys : GetRow(w, k)
  <2>1. UNCHANGED <<viewVars, touched>>
    BY <1>1 DEF GetRow, Call
  <2>2. Len(rows) <= Len(rows') /\ \A i \in 1..Len(rows) : rows'[i] = rows[i]
    BY <1>1, RowsGrow
  <2>3. Len(rows) \in Nat /\ Len(rows') \in Nat
    BY <1>1, RowsGrow
  <2>4. /\ UNCHANGED <<copied, scan, order, snaps, view>> /\ Seen' = Seen
    BY <2>1 DEF viewVars, Seen
  <2>5. \A j \in 1..Len(scan) : rows'[j] = rows[j]
    BY <2>2, <2>3
  <2>6. copied' <= Len(rows')
    BY <2>2, <2>3, <2>4
  <2> HIDE DEF Seen
  <2>7. QED
    BY <2>1, <2>4, <2>5, <2>6
<1>2. ASSUME held[w] \in Rows, NEW r, Kept(rows[held[w]], r, now), Update(w, r)
      PROVE  FrameInv'
  <2>1. /\ rows' = [rows EXCEPT ![held[w]] = r] /\ Len(rows') = Len(rows)
        /\ UNCHANGED viewVars
        /\ touched' = IF view = "idle" THEN {} ELSE touched \cup {held[w]}
    BY <1>2, UpdateInv DEF Update, Call, RowsInv, RowsOK, Rows
  <2>2. \A j \in 1..Len(scan) : \/ j \in touched'
                                \/ /\ scan[j].hidden = rows'[j].hidden
                                   /\ scan[j].priority = rows'[j].priority
    BY <2>1 DEF RowsInv, RowsOK
  <2>3. QED
    BY <2>1, <2>2 DEF viewVars, Seen
<1>3. QED
  BY <1>1, <1>2, WorkerCases

Inv == RowsInv /\ FrameInv

LEMMA InitInv == Init => Inv
<1>1. Init => FrameInv
  BY DEF Init, FrameInv
<1>2. QED
  BY <1>1, RowsInitInv DEF Inv

LEMMA NextInv == Inv /\ [Next]_vars => Inv'
<1>1. ASSUME RowsInv, FrameInv, [Next]_vars PROVE FrameInv'
  BY <1>1, ViewInv, WorkerFrame DEF Next
<1>2. QED
  BY <1>1, RowsNextInv DEF Inv

\* What a frame that is ready to be drawn holds.
LEMMA FrameHolds ==
  ASSUME Inv, view = "draw"
  PROVE  /\ \A p \in DOMAIN snaps : \E j \in 1..copied :
              ~scan[j].hidden /\ order[p] = scan[j] /\ snaps[p].row = j
         /\ \A j \in 1..copied : ~scan[j].hidden => \E p \in DOMAIN snaps : snaps[p].row = j
         /\ \A p, q \in DOMAIN snaps : p < q => Before(order[p], order[q])
         /\ DOMAIN snaps \subseteq Nat
<1> USE DEF Inv, FrameInv
<1>1. DOMAIN snaps = 1..Len(order) /\ Len(order) \in Nat
  BY OrderLists
<1>2. \A p \in DOMAIN snaps : snaps[p].row = order[p].row
  BY <1>1
<1>3. /\ \A p \in 1..Len(order) : \E j \in 1..copied : ~scan[j].hidden /\ order[p] = scan[j]
      /\ \A j \in 1..copied : ~scan[j].hidden => \E p \in 1..Len(order) : order[p] = scan[j]
      /\ \A p, q \in 1..Len(order) : p < q => Before(order[p], order[q])
  BY OrderLists
<1>4. \A j \in 1..copied : scan[j].row = j
  OBVIOUS
<1> HIDE DEF Inv, FrameInv
<1>5. ASSUME NEW p \in DOMAIN snaps
      PROVE  \E j \in 1..copied : ~scan[j].hidden /\ order[p] = scan[j] /\ snaps[p].row = j
  <2>1. PICK j \in 1..copied : ~scan[j].hidden /\ order[p] = scan[j]
    BY <1>1, <1>3
  <2>2. snaps[p].row = j
    BY <1>2, <1>4, <2>1
  <2>3. QED
    BY <2>1, <2>2
<1>6. ASSUME NEW j \in 1..copied, ~scan[j].hidden
      PROVE  \E p \in DOMAIN snaps : snaps[p].row = j
  <2>1. PICK p \in 1..Len(order) : order[p] = scan[j]
    BY <1>3, <1>6
  <2>2. p \in DOMAIN snaps /\ snaps[p].row = j
    BY <1>1, <1>2, <1>4, <2>1
  <2>3. QED
    BY <2>2
<1>7. (\A p, q \in DOMAIN snaps : p < q => Before(order[p], order[q])) /\ DOMAIN snaps \subseteq Nat
  BY <1>1, <1>3
<1>8. QED
  BY <1>5, <1>6, <1>7

LEMMA InvRowsShown == Inv => VisibleRowsShown
<1> SUFFICES ASSUME Inv, view = "draw"
             PROVE  /\ \A i \in Settled : i \in Shown <=> ~rows[i].hidden
                    /\ \A p, q \in DOMAIN snaps : snaps[p].row = snaps[q].row => p = q
  BY DEF VisibleRowsShown
<1>1. ASSUME NEW i \in Settled PROVE i \in Shown <=> ~rows[i].hidden
  <2>1. i \in 1..copied /\ scan[i].hidden = rows[i].hidden
    BY DEF Settled, Inv, FrameInv
  <2>2. i \in Shown => ~scan[i].hidden
    BY FrameHolds DEF Shown
  <2>3. ~scan[i].hidden => i \in Shown
    BY <2>1, FrameHolds DEF Shown
  <2>4. QED
    BY <2>1, <2>2, <2>3
<1>2. ASSUME NEW p \in DOMAIN snaps, NEW q \in DOMAIN snaps, snaps[p].row = snaps[q].row, p < q
      PROVE  FALSE
  <2>1. PICK j \in 1..copied : order[p] = scan[j] /\ order[q] = scan[j]
    BY <1>2, FrameHolds
  <2>2. scan[j] \in Scanned
    BY DEF Inv, FrameInv
  <2>3. Before(scan[j], scan[j])
    BY <1>2, <2>1, FrameHolds
  <2>4. [row |-> scan[j].row, priority |-> scan[j].priority]
          \in [row : Nat, priority : Prios \cup {Nil}]
    BY <2>2 DEF Scanned
  <2>5. QED
    BY <2>3, <2>4, BeforeOf, BeforeStrict
<1>3. QED
  BY <1>1, <1>2, FrameHolds

LEMMA InvDisplayOrder == Inv => DisplayOrder
<1> DEFINE asIs(i) == [row |-> i, priority |-> rows[i].priority]
<1> SUFFICES ASSUME Inv, view = "draw", NEW i \in Settled \cap Shown,
                    NEW j \in Settled \cap Shown, Before(asIs(i), asIs(j))
             PROVE  Place(i) < Place(j)
  BY DEF DisplayOrder
<1>1. ASSUME NEW n \in Settled \cap Shown
      PROVE  /\ Place(n) \in DOMAIN snaps
             /\ order[Place(n)] = scan[n]
             /\ [row |-> scan[n].row, priority |-> scan[n].priority] = asIs(n)
             /\ asIs(n) \in [row : Nat, priority : Prios \cup {Nil}]
  <2>1. PICK p \in DOMAIN snaps : snaps[p].row = n
    BY DEF Shown
  <2>2. Place(n) \in DOMAIN snaps /\ snaps[Place(n)].row = n
    BY <2>1 DEF Place
  <2>3. n \in 1..copied /\ n \notin touched /\ order[Place(n)] = scan[n]
    BY <2>2, FrameHolds DEF Settled
  <2>4. scan[n].row = n /\ scan[n].priority = rows[n].priority /\ scan[n] \in Scanned
    BY <2>3 DEF Inv, FrameInv
  <2>5. QED
    BY <2>2, <2>3, <2>4 DEF Scanned
<1> HIDE DEF asIs
<1>2. ~Before(asIs(j), asIs(i)) /\ asIs(i) # asIs(j)
  BY <1>1, BeforeStrict
<1>3. ~Before(order[Place(j)], order[Place(i)])
  BY <1>1, <1>2, BeforeOf
<1>4. Place(i) # Place(j)
  BY <1>1, <1>2
<1>5. QED
  BY <1>1, <1>3, <1>4, FrameHolds

-----------------------------------------------------------------------------

\* However many goroutines ask for rows, a key has one row and the map finds
\* it.
THEOREM StatusOneRowPerKey == Spec => []OneRowPerKey
<1>1. Inv => OneRowPerKey
  BY DEF Inv, RowsInv
<1>2. QED
  BY InitInv, NextInv, <1>1, PTL DEF Spec

\* The elapsed time of a row never goes back and stands still while the row
\* is finished or hidden.
THEOREM StatusTimersTellTime == Spec => TimersTellTime
<1>1. Inv /\ [Next]_vars =>
        \A i \in Rows :
          /\ Elapsed(rows[i], now) <= Elapsed(rows[i], now)'
          /\ Stopped(rows[i]) /\ Stopped(rows[i])'
               => Elapsed(rows[i], now)' = Elapsed(rows[i], now)
  BY StepTellsTime DEF Inv
<1>2. QED
  BY InitInv, NextInv, <1>1, PTL DEF Spec, TimersTellTime

\* A frame shows each row that stayed visible while it was collected, none
\* that stayed hidden, and none twice.
THEOREM StatusVisibleRowsShown == Spec => []VisibleRowsShown
  BY InitInv, NextInv, InvRowsShown, PTL DEF Spec

\* Untouched rows of a frame stand in the order their priorities ask for.
THEOREM StatusDisplayOrder == Spec => []DisplayOrder
  BY InitInv, NextInv, InvDisplayOrder, PTL DEF Spec

-----------------------------------------------------------------------------
(* One call of Context.Status: StatusRun.                                   *)

\* Where the caller is tells what runs.
FnInv ==
  /\ pc = "options" => fn = "ready" /\ ui = "off"
  /\ pc = "plain" => ~tty /\ fn # "ready" /\ ui = "off"
  /\ pc = "ui" => tty /\ fn # "ready" /\ ui # "off"
  /\ fn # "returned" => fnErr = NoErr

\* The messages and the model tell of the function only what it has done.
LoopInv ==
  /\ ui = "off" => inbox = {} /\ ~mdone /\ header = "none"
  /\ "done" \in inbox => fn = "returned"
  /\ "quit" \in inbox => mdone
  /\ mdone => fn = "returned" /\ merr = fnErr
  /\ header \notin {"none", "spinner"} => mdone
  /\ ui = "down" /\ runErr = "none" => mdone /\ (titled => header \in Told)

\* The icon asked for, once the function has returned, is among those that
\* tell the outcome.
AskedInv == fn = "returned" /\ ret = Pending => completion \in asked

\* What the call has returned when it has.
ReturnInv ==
  /\ pc = "returned" /\ fn # "returned" => fn = "ready" /\ ret \in {ConfigErr, WriteErr}
  /\ pc = "returned" /\ fn = "returned" /\ tty => ui = "down"

StatusInv ==
  /\ StatusTypeOK
  /\ FnInv
  /\ LoopInv
  /\ AskedInv
  /\ ReturnInv
  /\ SuccessIsEarned
  /\ HeaderTellsOutcome

-----------------------------------------------------------------------------

LEMMA StatusInitInv == StatusInit => StatusInv
<1> SUFFICES ASSUME StatusInit PROVE StatusInv
  OBVIOUS
<1> USE StatusRunAssumption DEF StatusInit, FnErrors, OwnErrors
<1>1. StatusTypeOK
  BY DEF StatusTypeOK
<1>2. FnInv /\ LoopInv /\ AskedInv /\ ReturnInv
  BY DEF FnInv, LoopInv, AskedInv, ReturnInv
<1>3. SuccessIsEarned /\ HeaderTellsOutcome
  BY DEF SuccessIsEarned, HeaderTellsOutcome
<1>4. QED
  BY <1>1, <1>2, <1>3 DEF StatusInv

\* A step of the loop that leaves the function, the header, the model and
\* the end of the program alone.
LEMMA MessagesInv ==
  ASSUME StatusInv, ui = "up",
         inbox' \subseteq {"done", "ctrl+c", "quit", "interrupt"}, waiting' \in BOOLEAN,
         "done" \in inbox' => fn = "returned",
         "quit" \in inbox' => mdone,
         UNCHANGED <<config, pc, fn, fnErr, completion, ctx, ui, mdone, merr, header,
                     runErr, asked, ret>>
  PROVE  StatusInv'
<1> USE DEF StatusInv, config
<1>1. StatusTypeOK'
  BY DEF StatusTypeOK
<1>2. FnInv' /\ LoopInv' /\ AskedInv' /\ ReturnInv'
  BY DEF FnInv, LoopInv, AskedInv, ReturnInv, Told
<1>3. SuccessIsEarned' /\ HeaderTellsOutcome'
  BY DEF SuccessIsEarned, HeaderTellsOutcome, Told
<1>4. QED
  BY <1>1, <1>2, <1>3

\* The icon of the header is one of those there are, and a completed one
\* tells the outcome.
LEMMA IconTells ==
  ASSUME StatusInv
  PROVE  /\ HeaderIcon \in {"none", "spinner", "Success", "Error"} \cup Completions
         /\ HeaderIcon \notin {"none", "spinner"} =>
              mdone /\ fn = "returned" /\ completionState(completion, fnErr) = HeaderIcon
         /\ titled /\ mdone => HeaderIcon = completionState(completion, fnErr)
         /\ titled /\ mdone /\ ret = Pending => HeaderIcon \in Told
         /\ HeaderIcon \notin {"none", "spinner"} /\ ret = Pending => HeaderIcon \in Told
<1>1. /\ HeaderIcon \in {"none", "spinner", "Success", "Error"} \cup Completions
      /\ HeaderIcon \notin {"none", "spinner"} =>
           mdone /\ fn = "returned" /\ completionState(completion, fnErr) = HeaderIcon
      /\ titled /\ mdone => HeaderIcon = completionState(completion, fnErr)
  BY DEF StatusInv, StatusTypeOK, LoopInv, HeaderIcon, completionState
<1>2. fn = "returned" /\ ret = Pending => completionState(completion, fnErr) \in Told
  BY DEF StatusInv, AskedInv, Told
<1>3. mdone => fn = "returned"
  BY DEF StatusInv, LoopInv
<1>4. QED
  BY <1>1, <1>2, <1>3

\* The program ends and draws nothing, or its last view if it ends well.
LEMMA EndInv ==
  ASSUME StatusInv, NEW e \in {"none", "interrupted", "killed", "other"}, RunEnds(e),
         e = "none" => mdone /\ header' = HeaderIcon,
         e # "none" => header' = header
  PROVE  StatusInv'
<1> USE DEF StatusInv, RunEnds, config, model
<1>1. header' = HeaderIcon \/ header' = header
  OBVIOUS
<1>2. StatusTypeOK'
  BY <1>1, IconTells DEF StatusTypeOK
<1>3. Told' = Told /\ ret = Pending
  BY DEF Told, StatusTypeOK
<1>4. FnInv' /\ LoopInv' /\ AskedInv' /\ ReturnInv'
  BY <1>1, <1>3, IconTells DEF StatusTypeOK, FnInv, LoopInv, AskedInv, ReturnInv
<1>5. ret' # NoErr
  BY StatusRunAssumption DEF StatusTypeOK
<1>6. SuccessIsEarned' /\ HeaderTellsOutcome'
  BY <1>1, <1>3, <1>5, IconTells DEF StatusTypeOK, SuccessIsEarned, HeaderTellsOutcome
<1>7. QED
  BY <1>2, <1>4, <1>6

\* Success after the program has ended is the function's and the loop's.
LEMMA ResultType ==
  ASSUME StatusInv, pc = "ui", ui = "down", fn = "returned"
  PROVE  /\ Result \in FnErrors \cup OwnErrors \cup {NoErr}
         /\ fnErr # NoErr => Result = fnErr
         /\ fnErr = NoErr => Result \in OwnErrors \cup {NoErr}
         /\ Result = NoErr => fnErr = NoErr /\ runErr = "none" /\ mdone
<1> USE StatusRunAssumption DEF StatusInv, Result, FnErrors, OwnErrors
<1>1. CASE fnErr # NoErr
  BY <1>1 DEF StatusTypeOK
<1>2. CASE fnErr = NoErr
  <2>1. ~(mdone /\ merr # NoErr)
    BY <1>2 DEF LoopInv
  <2>2. runErr = "none" => mdone
    BY DEF LoopInv
  <2>3. QED
    BY <1>2, <2>1, <2>2 DEF StatusTypeOK
<1>3. QED
  BY <1>1, <1>2

\* Every step keeps the invariant.
LEMMA StatusNextInv == StatusInv /\ [StatusNext]_statusVars => StatusInv'
<1> SUFFICES ASSUME StatusInv, [StatusNext]_statusVars PROVE StatusInv'
  OBVIOUS
<1> USE StatusRunAssumption DEF config, model
<1>1. ASSUME NEW e \in FnErrors \cup {NoErr}, FnReturns(e) PROVE StatusInv'
  <2> USE DEF StatusInv
  <2>1. StatusTypeOK'
    BY <1>1 DEF FnReturns, StatusTypeOK
  <2>2. ~mdone /\ pc # "returned" /\ ret # NoErr
    BY <1>1 DEF FnReturns, StatusTypeOK, LoopInv, AskedInv, ReturnInv, Told
  <2>3. FnInv' /\ LoopInv' /\ AskedInv' /\ ReturnInv'
    BY <1>1, <2>2 DEF FnReturns, StatusTypeOK, FnInv, LoopInv, AskedInv, ReturnInv, Told
  <2>4. SuccessIsEarned' /\ HeaderTellsOutcome'
    BY <1>1, <2>2 DEF FnReturns, LoopInv, SuccessIsEarned, HeaderTellsOutcome, Told
  <2>5. QED
    BY <2>1, <2>3, <2>4
<1>2. ASSUME NEW s \in Completions, SetCompletion(s) PROVE StatusInv'
  <2> USE DEF StatusInv
  <2>1. StatusTypeOK'
    BY <1>2 DEF SetCompletion, StatusTypeOK
  <2>2. Told \subseteq Told' /\ asked \subseteq asked'
    BY <1>2 DEF SetCompletion, Told
  <2>3. FnInv' /\ ReturnInv'
    BY <1>2 DEF SetCompletion, StatusTypeOK, FnInv, ReturnInv
  <2>4. LoopInv' /\ AskedInv'
    BY <1>2, <2>2 DEF SetCompletion, StatusTypeOK, LoopInv, AskedInv
  <2>5. SuccessIsEarned' /\ HeaderTellsOutcome'
    BY <1>2, <2>2 DEF SetCompletion, SuccessIsEarned, HeaderTellsOutcome
  <2>6. QED
    BY <2>1, <2>3, <2>4, <2>5
<1>3. ASSUME NEW e \in {Canceled, Deadline}, ContextEnds(e) PROVE StatusInv'
  BY <1>3 DEF ContextEnds, StatusInv, StatusTypeOK, FnInv, LoopInv,
              AskedInv, ReturnInv, Told, SuccessIsEarned,
              HeaderTellsOutcome
<1>4. CASE CtrlC
  BY <1>4, MessagesInv DEF CtrlC, StatusInv, StatusTypeOK, LoopInv
<1>5. CASE BadOption
  BY <1>5 DEF BadOption, StatusInv, StatusTypeOK, FnInv, LoopInv,
              AskedInv, ReturnInv, Told, SuccessIsEarned,
              HeaderTellsOutcome, OwnErrors
<1>6. ASSUME NEW ok \in BOOLEAN, PlainTitle(ok) PROVE StatusInv'
  <2> USE DEF StatusInv
  <2>1. StatusTypeOK'
    BY <1>6 DEF PlainTitle, StatusTypeOK, OwnErrors
  <2>2. FnInv' /\ LoopInv' /\ AskedInv' /\ ReturnInv'
    BY <1>6 DEF PlainTitle, StatusTypeOK, FnInv, LoopInv, AskedInv, ReturnInv, Told
  <2>3. SuccessIsEarned' /\ HeaderTellsOutcome'
    BY <1>6 DEF PlainTitle, StatusTypeOK, FnInv, LoopInv, SuccessIsEarned, HeaderTellsOutcome, Told,
                OwnErrors
  <2>4. QED
    BY <2>1, <2>2, <2>3
<1>7. ASSUME NEW ok \in BOOLEAN, PlainTable(ok) PROVE StatusInv'
  <2> USE DEF StatusInv
  <2>1. StatusTypeOK'
    BY <1>7 DEF PlainTable, StatusTypeOK, OwnErrors
  <2>2. FnInv' /\ LoopInv' /\ AskedInv' /\ ReturnInv'
    BY <1>7 DEF PlainTable, StatusTypeOK, FnInv, LoopInv, AskedInv, ReturnInv, Told
  <2>3. SuccessIsEarned' /\ HeaderTellsOutcome'
    BY <1>7 DEF PlainTable, StatusTypeOK, FnInv, LoopInv, SuccessIsEarned, HeaderTellsOutcome, Told,
                OwnErrors
  <2>4. QED
    BY <2>1, <2>2, <2>3
<1>8. CASE StartUI
  BY <1>8 DEF StartUI, StatusInv, StatusTypeOK, FnInv, LoopInv,
              AskedInv, ReturnInv, Told, SuccessIsEarned,
              HeaderTellsOutcome
<1>9. CASE SendDone
  BY <1>9, MessagesInv DEF SendDone, StatusInv, StatusTypeOK, LoopInv
<1>10. CASE UpdateDone
  <2> USE DEF StatusInv
  <2>1. fn = "returned" /\ ret # NoErr
    BY <1>10 DEF UpdateDone, StatusTypeOK, LoopInv
  <2>2. StatusTypeOK'
    BY <1>10 DEF UpdateDone, StatusTypeOK
  <2>3. FnInv' /\ LoopInv' /\ AskedInv' /\ ReturnInv'
    BY <1>10, <2>1 DEF UpdateDone, StatusTypeOK, FnInv, LoopInv, AskedInv, ReturnInv, Told
  <2>4. SuccessIsEarned' /\ HeaderTellsOutcome'
    BY <1>10, <2>1 DEF UpdateDone, SuccessIsEarned, HeaderTellsOutcome, Told
  <2>5. QED
    BY <2>2, <2>3, <2>4
<1>11. CASE UpdateCtrlC
  BY <1>11, MessagesInv DEF UpdateCtrlC, StatusInv, StatusTypeOK, LoopInv
<1>12. CASE Render
  <2> USE DEF StatusInv
  <2>1. StatusTypeOK'
    BY <1>12, IconTells DEF Render, StatusTypeOK
  <2>2. FnInv' /\ LoopInv' /\ AskedInv' /\ ReturnInv'
    BY <1>12, IconTells DEF Render, StatusTypeOK, FnInv, LoopInv, AskedInv, ReturnInv, Told
  <2>3. SuccessIsEarned' /\ HeaderTellsOutcome'
    BY <1>12, IconTells DEF Render, StatusTypeOK, SuccessIsEarned, HeaderTellsOutcome, Told
  <2>4. QED
    BY <2>1, <2>2, <2>3
<1>13. CASE Quit
  <2>1. mdone
    BY <1>13 DEF Quit, StatusInv, LoopInv
  <2>2. QED
    BY <1>13, <2>1, EndInv DEF Quit
<1>14. CASE Interrupted
  BY <1>14, EndInv DEF Interrupted
<1>15. CASE Killed
  BY <1>15, EndInv DEF Killed
<1>16. CASE Fails
  BY <1>16, EndInv DEF Fails
<1>17. CASE Return
  <2> USE DEF StatusInv
  <2>1. StatusTypeOK'
    BY <1>17, ResultType DEF Return, StatusTypeOK
  <2>2. FnInv' /\ LoopInv' /\ AskedInv' /\ ReturnInv'
    BY <1>17, ResultType DEF Return, StatusTypeOK, FnInv, LoopInv, AskedInv, ReturnInv, Told
  <2>3. SuccessIsEarned'
    BY <1>17, ResultType DEF Return, SuccessIsEarned
  <2>4. HeaderTellsOutcome'
    BY <1>17, ResultType, IconTells DEF Return, LoopInv, HeaderTellsOutcome, Told
  <2>5. QED
    BY <2>1, <2>2, <2>3, <2>4
<1>18. CASE UNCHANGED statusVars
  BY <1>18 DEF statusVars, StatusInv, StatusTypeOK, FnInv, LoopInv,
              AskedInv, ReturnInv, Told, SuccessIsEarned,
              HeaderTellsOutcome
<1>19. QED
  BY <1>1, <1>2, <1>3, <1>4, <1>5, <1>6, <1>7, <1>8, <1>9, <1>10, <1>11, <1>12,
     <1>13, <1>14, <1>15, <1>16, <1>17, <1>18 DEF StatusNext, Caller, Program

\* Every step is one of the abstract call, or leaves its state alone.
LEMMA NextCall == StatusInv /\ [StatusNext]_statusVars => [Promise!CallNext]_Promise!callVars
<1> SUFFICES ASSUME StatusInv, [StatusNext]_statusVars PROVE [Promise!CallNext]_Promise!callVars
  OBVIOUS
<1> USE StatusRunAssumption
    DEF config, model, Promise!CallNext, Promise!callVars, Promise!Refuse, Promise!Start,
        Promise!FnReturns, Promise!Return
<1>1. ASSUME NEW e \in FnErrors \cup {NoErr}, FnReturns(e) PROVE Promise!CallNext
  BY <1>1 DEF FnReturns
<1>2. CASE BadOption
  BY <1>2 DEF BadOption, StatusInv, StatusTypeOK, FnInv, OwnErrors
<1>3. ASSUME NEW ok \in BOOLEAN, PlainTitle(ok) PROVE Promise!CallNext
  BY <1>3 DEF PlainTitle, StatusInv, StatusTypeOK, FnInv, OwnErrors
<1>4. ASSUME NEW ok \in BOOLEAN, PlainTable(ok) PROVE Promise!CallNext
  BY <1>4 DEF PlainTable, StatusInv, StatusTypeOK, OwnErrors
<1>5. CASE StartUI
  BY <1>5 DEF StartUI, StatusInv, StatusTypeOK, FnInv
<1>6. CASE Return
  BY <1>6, ResultType DEF Return, StatusInv, StatusTypeOK
<1>7. CASE UNCHANGED <<fn, fnErr, ret>>
  BY <1>7
<1>8. \/ UNCHANGED <<fn, fnErr, ret>>
      \/ Caller
      \/ \E e \in FnErrors \cup {NoErr} : FnReturns(e)
  BY DEF StatusNext, SetCompletion, ContextEnds, CtrlC, Program, SendDone, UpdateDone,
         UpdateCtrlC, Render, Quit, Interrupted, Killed, Fails, RunEnds, statusVars
<1>9. QED
  BY <1>1, <1>2, <1>3, <1>4, <1>5, <1>6, <1>7, <1>8 DEF Caller

-----------------------------------------------------------------------------

\* The variables of a Status call keep their types, the program is up only
\* inside Status and Status has an answer exactly when it has returned.
THEOREM StatusRunTypeOK == StatusSpec => []StatusTypeOK
<1>1. StatusInv => StatusTypeOK
  BY DEF StatusInv
<1>2. QED
  BY StatusInitInv, StatusNextInv, <1>1, PTL DEF StatusSpec

\* A Status call that returns nil has earned it: the function's nil and, on
\* a terminal, a display that ended by itself after it had seen the result.
THEOREM StatusSuccessIsEarned == StatusSpec => []SuccessIsEarned
<1>1. StatusInv => SuccessIsEarned
  BY DEF StatusInv
<1>2. QED
  BY StatusInitInv, StatusNextInv, <1>1, PTL DEF StatusSpec

\* A completed header tells the outcome of a function that has returned, or
\* the state that SetCompletion asked for last, and a call that returns nil
\* has left one on the screen.
THEOREM StatusHeaderTellsOutcome == StatusSpec => []HeaderTellsOutcome
<1>1. StatusInv => HeaderTellsOutcome
  BY DEF StatusInv
<1>2. QED
  BY StatusInitInv, StatusNextInv, <1>1, PTL DEF StatusSpec

\* The safety part of LiveCall: every step of a Status call is a step of
\* the abstract call or changes nothing it speaks of.
THEOREM StatusRefinesLiveCall ==
  StatusSpec => Promise!CallInit /\ [][Promise!CallNext]_Promise!callVars
<1>1. StatusInit => Promise!CallInit
  BY DEF StatusInit, Promise!CallInit
<1>2. StatusInv /\ [StatusNext]_statusVars => [Promise!CallNext]_Promise!callVars
  BY NextCall
<1>3. QED
  BY StatusInitInv, StatusNextInv, <1>1, <1>2, PTL DEF StatusSpec
=============================================================================
