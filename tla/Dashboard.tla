------------------------------ MODULE Dashboard ------------------------------
(***************************************************************************)
(* The dashboard builder of internal/tools/grafana: one session of the     *)
(* SessionManager, the tools that add, move and delete its rows and        *)
(* panels, the flow layout that places them, the export, and the import of *)
(* an exported dashboard.                                                  *)
(*                                                                         *)
(* Every tool works on a clone of the session under the manager's lock and *)
(* saves it, so tools do not interleave.  What can go wrong is in the long *)
(* run: cursors that are kept and never recomputed, IDs that count up over *)
(* deletes, moves and restarts, saves that fail in silence, and positions  *)
(* of 32 bits shifted by signed differences.                               *)
(*                                                                         *)
(* Of a panel the model keeps its ID and its rectangle; what it shows is   *)
(* its tag, which no tool changes.                                         *)
(***************************************************************************)
EXTENDS Integers, SequencesExt, FiniteSetsExt

CONSTANTS
  Columns,          \* of the grid
  Word,             \* what uint32 wraps at
  Boxes,            \* the sizes <<w, h>> of panels
  Coords,           \* explicit coordinates <<x, y>> a client may ask for, Auto for none
  MaxPanels, MaxRows, MaxOps, MaxFaults,
  Auto, Gone, Torn
ASSUME DashboardAssumption ==
  /\ Columns \in Nat \ {0} /\ Word \in Nat \ {0}
  /\ Boxes \subseteq (1..Columns) \X (Nat \ {0})
  /\ <<Auto, Auto>> \in Coords

VARIABLES
  s,       \* the DashboardSession in memory, or Gone
  file,    \* <id>.json: a session, Torn, or Gone
  ops,     \* tool calls so far
  faults,  \* saves, removals and loads that failed
  \* history, for the properties only
  made,    \* panels ever made
  alive,   \* tags of those no client has deleted
  named,   \* the <<ID, tag>> clients were told
  loose    \* a client gave coordinates, or an import left a panel above its row

vars == <<s, file, ops, faults, made, alive, named, loose>>

Top == 0   \* stands for the dashboard where a row is named by its ID

NewSession == [panels |-> <<>>, rows |-> <<>>, nextX |-> 0, nextY |-> 0, line |-> 0,
               nextPanel |-> 0, nextRow |-> 0]

Panels(t) == t.panels \o FlattenSeq([i \in DOMAIN t.rows |-> t.rows[i].panels])
Tags(t) == {p.tag : p \in ToSet(Panels(t))}
RowIds(t) == {r.id : r \in ToSet(t.rows)}

Init ==
  /\ s = NewSession /\ file = NewSession
  /\ ops = 0 /\ faults = 0
  /\ made = 0 /\ alive = {} /\ named = {} /\ loose = FALSE

-----------------------------------------------------------------------------
(* SessionManager.                                                         *)

\* os.WriteFile truncates, writes and may fail at either; save tells nobody.
Save(t) ==
  \/ file' = t /\ UNCHANGED faults
  \/ /\ faults < MaxFaults /\ faults' = faults + 1
     /\ file' \in {file, Torn}

\* Update: the clone the tool has changed replaces the session.
Update(t) ==
  /\ s # Gone /\ ops < MaxOps /\ ops' = ops + 1
  /\ s' = t
  /\ Save(t)

\* export_dashboard, the layout and the resources read the session, and so touch it.
Get == Update(s) /\ UNCHANGED <<made, alive, named, loose>>

\* Mutant: the counters are not among the fields that are saved.
LoadedWithoutCounters(f) ==
  IF f \in {Gone, Torn} THEN Gone ELSE [f EXCEPT !.nextPanel = 0, !.nextRow = 0]

\* loadAll skips what it cannot parse.
Loaded(f) == IF f = Torn THEN Gone ELSE f

\* The process ends and the next one loads the directory, unless it cannot read it.
\* Where it does not get the session, what clients were told since is void.
Restart ==
  /\ \/ s' = Loaded(file) /\ UNCHANGED faults
     \/ file # Gone /\ s' = Gone /\ faults < MaxFaults /\ faults' = faults + 1
  /\ IF s' = s THEN UNCHANGED <<alive, named>>
     ELSE /\ alive' = IF s' = Gone THEN {} ELSE Tags(s')
          /\ named' = IF s' = Gone THEN {} ELSE {<<p.id, p.tag>> : p \in ToSet(Panels(s'))}
  /\ UNCHANGED <<file, ops, made, loose>>

\* cleanup: untouched for the TTL; a removal that fails is dropped.
Evict ==
  /\ s # Gone /\ s' = Gone
  /\ \/ file' = Gone /\ UNCHANGED faults
     \/ faults < MaxFaults /\ faults' = faults + 1 /\ UNCHANGED file
  /\ UNCHANGED <<ops, made, alive, named, loose>>

-----------------------------------------------------------------------------
(* placePanel.  A row and the dashboard each have a cursor: the column, the *)
(* height of the current line, and nextY, which is where the line begins in *)
(* a row but the lowest extent of everything in the dashboard.              *)

\* Sums of uint32.
Plus(a, b) == (a + b) % Word
Larger(a, b) == IF a > b THEN a ELSE b
Bottom(p) == Plus(p.y, p.h)

\* Mutant: the line begins anew, at the height of the one before.
InRowSameLine(t, r, box, c) ==
  LET wraps == c[1] = Auto /\ r.nextX + box.w > Columns
      q == IF wraps THEN [r EXCEPT !.nextX = 0, !.line = 0] ELSE r
      x == IF c[1] = Auto THEN q.nextX ELSE c[1]
      y == IF c[2] = Auto THEN q.nextY ELSE c[2]
  IN  [row |-> IF c[1] # Auto THEN q
               ELSE [q EXCEPT !.nextX = Plus(@, box.w), !.line = Larger(@, box.h)],
       x |-> x, y |-> y, nextY |-> Larger(t.nextY, Plus(y, box.h))]

\* placePanelInRow: the row with its cursor moved, the position, and the extent.
InRow(t, r, box, c) ==
  LET r0 == IF r.nextY = 0 THEN [r EXCEPT !.nextY = t.nextY] ELSE r
      wraps == c[1] = Auto /\ Plus(r0.nextX, box.w) > Columns
      q == IF wraps
           THEN [r0 EXCEPT !.nextX = 0, !.line = 0,
                           !.nextY = Plus(@, IF r0.line = 0 THEN box.h ELSE r0.line)]
           ELSE r0
      x == IF c[1] = Auto THEN q.nextX ELSE c[1]
      y == IF c[2] = Auto THEN q.nextY ELSE c[2]
  IN  [row |-> IF c[1] # Auto THEN q
               ELSE [q EXCEPT !.nextX = Plus(@, box.w), !.line = Larger(@, box.h)],
       x |-> x, y |-> y, nextY |-> Larger(t.nextY, Plus(y, box.h))]

\* placePanelInDashboard: the same for the session's own cursor.
InDashboard(t, box, c) ==
  LET wraps == c[1] = Auto /\ Plus(t.nextX, box.w) > Columns
      q == IF wraps THEN [t EXCEPT !.nextX = 0, !.line = 0] ELSE t
      x == IF c[1] = Auto THEN q.nextX ELSE c[1]
      y == IF c[2] = Auto THEN q.nextY - q.line ELSE c[2]
  IN  [cursor |-> [q EXCEPT !.nextX = IF c[1] = Auto THEN Plus(@, box.w) ELSE @,
                            !.line = Larger(@, box.h),
                            !.nextY = Larger(@, Plus(y, box.h))],
       x |-> x, y |-> y, fresh |-> q.line = 0]

RowAt(t, id) == CHOOSE i \in DOMAIN t.rows : t.rows[i].id = id

\* The panel is placed in container c and appended to it.  how and home are
\* history: whether the layout chose the position ("fresh" where it began a line of
\* the dashboard), and of which container.
Append1(t, c, panel, coords) ==
  LET how == IF coords # <<Auto, Auto>> THEN "explicit"
             ELSE IF c = Top /\ InDashboard(t, panel, coords).fresh THEN "fresh" ELSE "auto"
      Put(at) == [panel EXCEPT !.x = at.x, !.y = at.y, !.how = how, !.home = c]
  IN  IF c = Top
      THEN LET at == InDashboard(t, panel, coords)
           IN  [at.cursor EXCEPT !.panels = Append(@, Put(at))]
      ELSE LET i == RowAt(t, c)
               at == InRow(t, t.rows[i], panel, coords)
           IN  [t EXCEPT !.nextY = at.nextY,
                         !.rows[i] = [at.row EXCEPT !.panels = Append(@, Put(at))]]

Without(t, id) ==
  LET Other(p) == p.id # id
  IN  [t EXCEPT !.panels = SelectSeq(@, Other),
                !.rows = [i \in DOMAIN @ |-> [@[i] EXCEPT !.panels = SelectSeq(@, Other)]]]

-----------------------------------------------------------------------------
(* The tools.                                                              *)

Containers == {Top} \cup RowIds(s)
PanelsOf(c) == IF c = Top THEN s.panels ELSE s.rows[RowAt(s, c)].panels
HomeOf(id) == CHOOSE c \in Containers : \E p \in ToSet(PanelsOf(c)) : p.id = id

AddRow ==
  /\ s # Gone /\ s.nextRow < MaxRows
  /\ \E collapsed \in BOOLEAN :
       Update([s EXCEPT
         !.nextRow = @ + 1,
         !.rows = Append(@, [id |-> s.nextRow + 1, collapsed |-> collapsed, panels |-> <<>>,
                             y |-> s.nextY, nextX |-> 0, nextY |-> Plus(s.nextY, 1), line |-> 0]),
         !.nextY = Plus(@, 1)])
  /\ UNCHANGED <<made, alive, named, loose>>

UpdateRow ==
  /\ s # Gone
  /\ \E i \in DOMAIN s.rows : Update([s EXCEPT !.rows[i].collapsed = ~@])
  /\ UNCHANGED <<made, alive, named, loose>>

DeleteRow ==
  /\ s # Gone
  /\ \E i \in DOMAIN s.rows, keep \in BOOLEAN :
       LET r == s.rows[i] IN
       /\ Update([s EXCEPT !.panels = IF keep THEN @ \o r.panels ELSE @,
                           !.rows = RemoveAt(@, i)])
       /\ alive' = IF keep THEN alive ELSE alive \ {p.tag : p \in ToSet(r.panels)}
  /\ UNCHANGED <<made, named, loose>>

\* The row is taken out and put before another, or at the end.
MoveRow ==
  /\ s # Gone
  /\ \E i \in DOMAIN s.rows :
       LET rest == RemoveAt(s.rows, i)
       IN  \E j \in 1..(Len(rest) + 1) : Update([s EXCEPT !.rows = InsertAt(rest, j, s.rows[i])])
  /\ UNCHANGED <<made, alive, named, loose>>

\* newPanelID: also for each panel of add_panels_batch, which saves once for all.
AddPanel ==
  /\ s # Gone /\ made < MaxPanels
  /\ \E c \in Containers, box \in Boxes, coords \in Coords :
       /\ Update(Append1([s EXCEPT !.nextPanel = @ + 1], c,
                         [id |-> s.nextPanel + 1, tag |-> made + 1, w |-> box[1], h |-> box[2],
                          x |-> 0, y |-> 0, how |-> "auto", home |-> c], coords))
       /\ loose' = (loose \/ coords # <<Auto, Auto>>)
  /\ made' = made + 1
  /\ alive' = alive \cup {made + 1}
  /\ named' = named \cup {<<s.nextPanel + 1, made + 1>>}

DeletePanel ==
  /\ s # Gone
  /\ \E p \in ToSet(Panels(s)) : Update(Without(s, p.id)) /\ alive' = alive \ {p.tag}
  /\ UNCHANGED <<made, named, loose>>

\* To another container, with its size; to its own, nothing but the save happens.
MovePanel ==
  /\ s # Gone
  /\ \E p \in ToSet(Panels(s)), coords \in Coords :
       \E c \in Containers \ {HomeOf(p.id)} :
         /\ Update(Append1(Without(s, p.id), c, p, coords))
         /\ loose' = (loose \/ coords # <<Auto, Auto>>)
  /\ UNCHANGED <<made, alive, named>>

-----------------------------------------------------------------------------
(* The export.                                                             *)

\* Mutant: the panels stay where they were when their row was made.
ShiftedNot(r, delta) == r.panels

\* The panels of a row whose header moves by delta.
Shifted(r, delta) ==
  IF r.collapsed THEN r.panels
  ELSE [i \in DOMAIN r.panels |-> [r.panels[i] EXCEPT !.y = Plus(@, delta)]]

MaxOver(S, least) == Max(S \cup {least})

\* recomputeRowPositions: one header after the other, each below what the rows
\* before it show; the header of a row takes one line.
Restack(acc, r) ==
  LET ps == Shifted(r, acc.y - r.y)
      below == Plus(acc.y, 1)
  IN  [y |-> IF r.collapsed THEN below ELSE MaxOver({Bottom(p) : p \in ToSet(ps)}, below),
       rows |-> Append(acc.rows, [r EXCEPT !.y = acc.y, !.panels = ps])]
RecomputeRowPositions(rows) == FoldLeft(Restack, [y |-> 0, rows |-> <<>>], rows).rows

\* The panels array of the exported dashboard, as it is given to the builder.
Shown(p) == [kind |-> "panel", tag |-> p.tag, w |-> p.w, h |-> p.h, x |-> p.x, y |-> p.y]
ShownAll(ps) == [i \in DOMAIN ps |-> Shown(ps[i])]
ShownRow(r) ==
  LET Header(subs) == [kind |-> "row", y |-> r.y, collapsed |-> r.collapsed, panels |-> subs]
  IN  IF r.collapsed THEN <<Header(ShownAll(r.panels))>>
      ELSE <<Header(<<>>)>> \o ShownAll(r.panels)

\* The SDK's builder keeps a cursor of its own, and takes a panel in the corner for
\* one without a position.
NewBuilder == [x |-> 0, y |-> 0, line |-> 0, items |-> <<>>]
WithPanel(b, p) ==
  LET corner == p.x = 0 /\ p.y = 0
      x == Plus(b.x, p.w)
      line == Larger(b.line, p.h)
      wraps == x >= Columns
  IN  [x |-> IF wraps THEN 0 ELSE x, y |-> IF wraps THEN Plus(b.y, line) ELSE b.y,
       line |-> IF wraps THEN 0 ELSE line,
       items |-> Append(b.items, IF corner THEN [p EXCEPT !.x = b.x, !.y = b.y] ELSE p)]
WithRow(b, r) ==
  LET y == IF r.y = 0 THEN Plus(b.y, b.line) ELSE r.y
      in == FoldLeft(WithPanel, [NewBuilder EXCEPT !.y = Plus(y, 1)], r.panels)
  IN  [in EXCEPT !.items = Append(b.items, [r EXCEPT !.y = y, !.panels = in.items])]
With(b, item) == IF item.kind = "row" THEN WithRow(b, item) ELSE WithPanel(b, item)

\* buildDashboardJSONV1: the rows, then the panels of the dashboard.
Export(t) ==
  LET rows == RecomputeRowPositions(t.rows)
  IN  FoldLeft(With, NewBuilder,
               FlattenSeq([i \in DOMAIN rows |-> ShownRow(rows[i])]) \o ShownAll(t.panels)).items

-----------------------------------------------------------------------------
(* parseDashboardToSession.                                                *)

\* Mutant: only the nested panels tell a collapsed row.
AbsorbsUnlessNested(item) == item.panels = <<>>

\* An open row owns the panels that follow it, up to the next row.
Absorbs(item) == ~item.collapsed /\ item.panels = <<>>

\* A row's cursor after its panels: on a line of its own, below them.
Cursor(r) ==
  [r EXCEPT !.nextY = MaxOver({Bottom(p) : p \in ToSet(r.panels)}, Plus(r.y, 1)),
            !.nextX = MaxOver({Plus(p.x, p.w) : p \in ToSet(r.panels)}, 0),
            !.line = MaxOver({p.h : p \in ToSet(r.panels)}, 0)]

ParsedPanel(p, id, home) ==
  [id |-> id, tag |-> p.tag, w |-> p.w, h |-> p.h, x |-> p.x, y |-> p.y,
   how |-> "imported", home |-> home]

\* One element of the array; open: the last row absorbs.
ParseItem(acc, item) ==
  LET t == acc.session
      n == Len(t.rows)
  IN  IF item.kind = "row"
      THEN [open |-> Absorbs(item),
            session |-> [t EXCEPT
              !.nextRow = @ + 1,
              !.nextPanel = @ + Len(item.panels),
              !.rows = Append(@,
                [id |-> t.nextRow + 1, collapsed |-> item.collapsed, y |-> item.y,
                 nextX |-> 0, nextY |-> 0, line |-> 0,
                 panels |-> [i \in DOMAIN item.panels |->
                               ParsedPanel(item.panels[i], t.nextPanel + i, t.nextRow + 1)]])]]
      ELSE LET home == IF acc.open THEN t.rows[n].id ELSE Top
               p == ParsedPanel(item, t.nextPanel + 1, home)
               u == [t EXCEPT !.nextPanel = @ + 1]
           IN  [acc EXCEPT !.session =
                  IF acc.open THEN [u EXCEPT !.rows[n].panels = Append(@, p)]
                  ELSE [u EXCEPT !.panels = Append(@, p)]]

Parsed(items) ==
  LET t == FoldLeft(ParseItem, [open |-> FALSE, session |-> NewSession], items).session
      rows == [i \in DOMAIN t.rows |-> Cursor(t.rows[i])]
  IN  [t EXCEPT !.rows = rows,
                !.nextY = MaxOver({r.nextY : r \in ToSet(rows)} \cup {Bottom(p) : p \in ToSet(t.panels)}, 0)]

\* The dashboard is exported and imported again, and the client goes on with the
\* new session, whose IDs are its own.  It may find panels above the header of
\* their row: the dashboard's own, which the last row absorbs, and those of a
\* collapsed row, which the export leaves where they were.
Import ==
  /\ s # Gone
  /\ LET t == Parsed(Export(s)) IN
       /\ t # s /\ Update(t)
       /\ named' = {<<p.id, p.tag>> : p \in ToSet(Panels(t))}
       /\ loose' = (loose \/ \E r \in ToSet(t.rows) : \E p \in ToSet(r.panels) : p.y <= r.y)
  /\ UNCHANGED <<made, alive>>

-----------------------------------------------------------------------------
Tools == AddRow \/ UpdateRow \/ DeleteRow \/ MoveRow \/ AddPanel \/ DeletePanel \/ MovePanel
Next == Tools \/ Get \/ Import \/ Restart \/ Evict
Spec == Init /\ [][Next]_vars

-----------------------------------------------------------------------------
(* Properties.                                                             *)

\* An ID a client was told names the same panel for as long as the session
\* lasts, through deletes, moves and restarts that lose nothing, and every panel
\* that was not deleted is in the session once.
IdsNameOnePanel ==
  s # Gone =>
    /\ Tags(s) = alive /\ Len(Panels(s)) = Cardinality(alive)
    /\ \A p \in ToSet(Panels(s)) : <<p.id, p.tag>> \in named
    /\ \A a, b \in named : a[1] = b[1] => a = b

Disjoint(p, q) ==
  \/ p.x + p.w <= q.x \/ q.x + q.w <= p.x
  \/ p.y + p.h <= q.y \/ q.y + q.h <= p.y
\* The layout never puts a panel on one that the container already has, whatever was
\* moved, deleted or added elsewhere in between.  A panel with which it begins a line
\* of the dashboard is clear of all of them, also where clients gave coordinates; one
\* that goes on with a line only while nobody does, and not of panels that
\* delete_row's keep_panels made the dashboard's own since the line was begun: those
\* it may cover.  (placePanel's comment promises more: that NextY keeps panels placed
\* after explicit coordinates from overlapping.)
NoOverlap ==
  s # Gone =>
    \A c \in Containers :
      LET ps == PanelsOf(c) IN
      \A j \in DOMAIN ps : \A i \in 1..(j - 1) :
        /\ ps[j].home = c
        /\ \/ ps[j].how = "fresh"
           \/ /\ ps[j].how = "auto" /\ ~loose
              /\ ps[i].home = c \/ \E k \in (i + 1)..j : ps[k].how = "fresh" /\ ps[k].home = c
        => Disjoint(ps[j], ps[i])

\* In the export the rows lie one below the other in their order, each panel of an
\* open row between its header and the next, whenever rows and panels were made
\* and in whatever order they were moved since, unless positions were given or
\* imported that are above their row.
ExportStacks ==
  s # Gone /\ ~loose =>
    LET rows == RecomputeRowPositions(s.rows) IN
    \A i \in DOMAIN rows :
      \A p \in IF rows[i].collapsed THEN {} ELSE ToSet(rows[i].panels) :
        /\ p.y > rows[i].y
        /\ \A j \in DOMAIN rows : j > i => p.y + p.h <= rows[j].y

\* Importing an exported dashboard and exporting it again gives the same
\* dashboard, although panels may change containers on the way and the builder moves
\* one in the corner, unless positions were given or imported that are above their row.
ReimportIsFaithful == s # Gone /\ ~loose => Export(Parsed(Export(s))) = Export(s)
=============================================================================
