--------------------------- MODULE MergeDashboards ---------------------------
(***************************************************************************)
(* merge-dashboards.py, in two copies with other target variables: the     *)
(* variables of three Grafana dashboards are given a prefix per engine,    *)
(* the panels become three expanded rows of one dashboard, and the lists   *)
(* of variables are merged.                                                *)
(*                                                                         *)
(* Data is abstracted.  A panel is its place on the grid, the references   *)
(* to variables in its texts, and the panels nested in it if it is a row.  *)
(* A column stands for a range of x.  The name of a variable is a sequence *)
(* of its prefix, if it was given one, and its name.                       *)
(***************************************************************************)
EXTENDS Integers, FiniteSets, SequencesExt

CONSTANTS
    Names,          \* prefixes and names of variables
    Dashboards,     \* what the input files may hold
    Prefix,         \* the prefix of each of the inputs, in order
    TARGET_NAMES,   \* the variables that are given a prefix
    COLUMNS,        \* the columns of the grid
    Longer          \* pairs of names of which the second begins with the first

Reference == [name : Seq(Names), braced : BOOLEAN]
Variable  == [name : Seq(Names), refs : SUBSET Reference]

\* A panel as it is found in a file or in a row, with a history, from: the
\* input, the place there, and the place in the row or 0.  The header of a
\* section is at place 0.
PanelOf(Nested) ==
    [row : BOOLEAN, placed : BOOLEAN, id : Nat, y : Nat, h : Nat,
     cols : SUBSET COLUMNS, refs : SUBSET Reference, nested : Nested,
     from : Nat \X Nat \X Nat]
LeafPanel == PanelOf({<<>>})
AnyPanel  == PanelOf(Seq(LeafPanel))

Dashboard == [panels : Seq(AnyPanel), vars : Seq(Variable)]

\* The names in a file have no prefix yet.
Plain(x) == \E n \in Names : x.name = <<n>>
PlainDashboard(d) ==
    /\ \A v \in ToSet(d.vars) : Plain(v) /\ \A r \in v.refs : Plain(r)
    /\ \A p \in ToSet(d.panels) :
        /\ \A r \in p.refs : Plain(r)
        /\ \A q \in ToSet(p.nested) : \A r \in q.refs : Plain(r)

\* A file lists a variable below those that its query refers to.
Ordered(vs) ==
    \A k \in DOMAIN vs : \A r \in vs[k].refs :
        r.name \in {v.name : v \in ToSet(vs)} =>
            \E j \in 1 .. k - 1 : vs[j].name = r.name

ASSUME MergeAssumption ==
    /\ Prefix \in Seq(Names) /\ Prefix # <<>>
    /\ \A d \in Dashboards : d \in Dashboard /\ PlainDashboard(d)
ASSUME OrderAssumption == \A d \in Dashboards : Ordered(d.vars)

VARIABLES
    source,     \* the files as they were read (not changed)
    dash,       \* the dashboards, changed in place
    phase,      \* where main is: "namespace", "section", "vars" or "done"
    input,      \* the dashboard it is at
    place,      \* the panel or variable of that dashboard it is at
    flat,       \* flat, the content of the section so far
    panels,     \* all_panels
    nextId,     \* next_id
    currentY,   \* current_y
    merged      \* merged

vars == <<source, dash, phase, input, place, flat, panels, nextId, currentY, merged>>

Sections == DOMAIN Prefix

-----------------------------------------------------------------------------
(* Variables: namespace_dashboard_vars, rewrite_in_place.                   *)

\* A reference in a text is $name or ${name}; the pattern of the first must
\* not be followed by a character of a name.  (Mutant: without that.)
MatchesAnywhere(old, ref) ==
    \/ ref.name = old
    \/ ~ref.braced /\ \E p \in Longer : old = <<p[1]>> /\ ref.name = <<p[2]>>
Matches(old, ref) == ref.name = old

Renamed(i, d) == {v.name : v \in {u \in ToSet(d.vars) : u.name[1] \in TARGET_NAMES}}

Rewritten(i, olds, refs) ==
    {IF \E old \in olds : Matches(old, r)
     THEN [r EXCEPT !.name = <<Prefix[i]>> \o @] ELSE r : r \in refs}

\* Panels, with those nested in rows, and the variables' queries; last, the
\* names of the variables themselves.
RewrittenLeaf(i, olds, p) == [p EXCEPT !.refs = Rewritten(i, olds, @)]

RewrittenPanel(i, olds, p) ==
    [p EXCEPT !.refs   = Rewritten(i, olds, @),
              !.nested = [k \in DOMAIN @ |-> RewrittenLeaf(i, olds, @[k])]]

RewrittenVar(i, olds, v) ==
    [v EXCEPT !.refs = Rewritten(i, olds, @),
              !.name = IF @ \in olds THEN <<Prefix[i]>> \o @ ELSE @]

Namespaced(i, d) ==
    LET olds == Renamed(i, d)
    IN  [panels |-> [k \in DOMAIN d.panels |-> RewrittenPanel(i, olds, d.panels[k])],
         vars   |-> [k \in DOMAIN d.vars |-> RewrittenVar(i, olds, d.vars[k])]]

-----------------------------------------------------------------------------
(* Panels: make_expanded_row.                                              *)

\* flatten_panels: nested panels take the place of their row.
Content(i, k) ==
    LET p == dash[i].panels[k]
    IN  IF p.row THEN [n \in DOMAIN p.nested |->
                         [p.nested[n] EXCEPT !.from = <<i, k, n>>]]
                 ELSE <<[p EXCEPT !.from = <<i, k, 0>>]>>

\* A panel without gridPos counts as one at 0, but is not moved.
MinY(ps) == Min({IF ps[k].placed THEN ps[k].y ELSE 0 : k \in DOMAIN ps})

\* normalize_gridpos, reassign_ids and the offset of the row.
Placed(ps, rowY, firstId) ==
    [k \in DOMAIN ps |->
        [ps[k] EXCEPT !.id = firstId + k - 1,
                      !.y  = IF ps[k].placed
                             THEN @ - MinY(ps) + 1 + rowY ELSE @]]

\* max_y.  (Mutants: the panels, or their heights, are forgotten.)
BottomOfRow(ps, rowY) == rowY + 1
TopOfLast(ps, rowY) ==
    Max({rowY + 1} \cup {ps[k].y + 1 : k \in {j \in DOMAIN ps : ps[j].placed}})
Bottom(ps, rowY) ==
    Max({rowY + 1} \cup {ps[k].y + ps[k].h : k \in {j \in DOMAIN ps : ps[j].placed}})

RowHeader(i, rowId, rowY) ==
    [row |-> TRUE, placed |-> TRUE, id |-> rowId, y |-> rowY, h |-> 1,
     cols |-> COLUMNS, refs |-> {}, nested |-> <<>>, from |-> <<i, 0, 0>>]

-----------------------------------------------------------------------------
(* main.                                                                   *)

Init ==
    /\ source \in [Sections -> Dashboards]
    /\ dash = source
    /\ phase = "namespace"
    /\ input = 1
    /\ place = 1
    /\ flat = <<>>
    /\ panels = <<>>
    /\ nextId = 1
    /\ currentY = 0
    /\ merged = <<>>

\* The step ends what it does with this input: on to the next, or to what
\* follows the last.
TurnTo(then) ==
    /\ IF input = Len(Prefix) THEN phase' = then /\ input' = 1
                              ELSE phase' = phase /\ input' = input + 1
    /\ place' = 1

NamespaceVars ==
    /\ phase = "namespace"
    /\ TurnTo("section")
    /\ dash' = [dash EXCEPT ![input] = Namespaced(input, @)]
    /\ UNCHANGED <<source, flat, panels, nextId, currentY, merged>>

\* The loop of flatten_panels.
FlattenPanel ==
    /\ phase = "section"
    /\ place \in DOMAIN dash[input].panels
    /\ flat' = flat \o Content(input, place)
    /\ place' = place + 1
    /\ UNCHANGED <<source, dash, phase, input, panels, nextId, currentY, merged>>

\* The ids of the children of a row.  (Mutant: next_id is not advanced for
\* the row.)
FirstChildIdLow == nextId
FirstChildId    == nextId + 1

MakeExpandedRow ==
    LET children == Placed(flat, currentY, FirstChildId)
    IN  /\ phase = "section"
        /\ place \notin DOMAIN dash[input].panels
        /\ TurnTo("vars")
        /\ flat'     = <<>>
        /\ panels'   = panels \o <<RowHeader(input, nextId, currentY)>> \o children
        /\ nextId'   = FirstChildId + Len(children)
        /\ currentY' = Bottom(children, currentY)
        /\ UNCHANGED <<source, dash, merged>>

\* The loops of merge_template_vars: of variables with one name, the first.
\* (Mutant: a definition counts as seen only if it is the same.)
SeenWhole(v) == v \in ToSet(merged)
Seen(v)      == \E u \in ToSet(merged) : u.name = v.name

MergeVar ==
    /\ phase = "vars"
    /\ place \in DOMAIN dash[input].vars
    /\ LET v == dash[input].vars[place]
       IN  merged' = IF Seen(v) THEN merged ELSE Append(merged, v)
    /\ place' = place + 1
    /\ UNCHANGED <<source, dash, phase, input, flat, panels, nextId, currentY>>

NextVars ==
    /\ phase = "vars"
    /\ place \notin DOMAIN dash[input].vars
    /\ TurnTo("done")
    /\ UNCHANGED <<source, dash, flat, panels, nextId, currentY, merged>>

Next == NamespaceVars \/ FlattenPanel \/ MakeExpandedRow \/ MergeVar \/ NextVars

Spec == Init /\ [][Next]_vars

-----------------------------------------------------------------------------
(* Properties.                                                             *)

\* The types of the variables; no panel reaches below the next section.
TypeOK ==
    /\ source \in [Sections -> Dashboards]
    /\ dash \in [Sections -> Dashboard]
    /\ phase \in {"namespace", "section", "vars", "done"}
    /\ input \in Sections /\ place \in Nat \ {0}
    /\ flat \in Seq(AnyPanel) /\ panels \in Seq(AnyPanel)
    /\ nextId \in Nat /\ currentY \in Nat
    /\ merged \in Seq(Variable)
    /\ \A p \in ToSet(panels) : p.placed => p.y + p.h <= currentY

\* Grafana takes two panels with one id for one panel: all ids differ, rows'
\* included, and the next one is free.
IdsAreUnique ==
    \A k \in DOMAIN panels :
        /\ panels[k].id < nextId
        /\ \A j \in DOMAIN panels : j # k => panels[j].id # panels[k].id

\* The panel of a list of dashboards that a history names, and whether it is
\* content: not an open or closed row, but one of the panels in it.
PanelAt(ds, f) ==
    LET p == ds[f[1]].panels[f[2]] IN IF f[3] = 0 THEN p ELSE p.nested[f[3]]

IsContent(f) ==
    /\ f[1] \in Sections
    /\ f[2] \in DOMAIN source[f[1]].panels
    /\ LET p == source[f[1]].panels[f[2]]
       IN  IF p.row THEN f[3] \in DOMAIN p.nested ELSE f[3] = 0

Overlap(p, q) ==
    /\ p.placed /\ q.placed
    /\ p.cols \cap q.cols # {}
    /\ p.y < q.y + q.h
    /\ q.y < p.y + p.h

\* Two panels overlap exactly if they come from one file and their places in
\* it overlap: no section reaches into another or over a header, and within a
\* section every panel keeps its place among the others.  This is no promise
\* that nothing is hidden: a closed row is opened where its panels are stored,
\* and what follows the row is not pushed down, so that they overlap if their
\* places do (in the dashboards of the repository no row has panels nested).
PlacesAreKept ==
    \A j, k \in DOMAIN panels : j # k =>
        LET f == panels[j].from
            g == panels[k].from
        IN  Overlap(panels[j], panels[k]) <=>
                /\ f[1] = g[1] /\ IsContent(f) /\ IsContent(g)
                /\ Overlap(PanelAt(source, f), PanelAt(source, g))

\* The panels are one header for each file and one panel for each content
\* panel of it, also of those that were nested in a closed row.
Wanted(i) ==
    LET ps   == source[i].panels
        rows == {k \in DOMAIN ps : ps[k].row}
    IN  {<<i, 0, 0>>}
        \cup {<<i, k, 0>> : k \in DOMAIN ps \ rows}
        \cup UNION {{<<i, k, n>> : n \in DOMAIN ps[k].nested} : k \in rows}

OncePerPanel ==
    /\ \A j, k \in DOMAIN panels : panels[j].from = panels[k].from => j = k
    /\ phase \in {"vars", "done"} =>
        {p.from : p \in ToSet(panels)} = UNION {Wanted(i) : i \in Sections}

\* Every panel of the files is in the merged dashboard once, and the layout of
\* its file is kept, below the header of that file.
EveryPanelIsKept == OncePerPanel /\ PlacesAreKept

\* A reference, of a panel or of a variable's query, to a variable that its
\* own file defines finds a variable in the end, and where the engines'
\* variables are kept apart, one of its own engine.
Finds(i, r) ==
    <<Last(r.name)>> \in {v.name : v \in ToSet(source[i].vars)} =>
        /\ \E v \in ToSet(merged) : v.name = r.name
        /\ Last(r.name) \in TARGET_NAMES => r.name[1] = Prefix[i]

ReferencesFindTheirVariable ==
    phase = "done" =>
        /\ \A p \in ToSet(panels) : \A r \in p.refs : Finds(p.from[1], r)
        /\ \A i \in Sections : \A v \in ToSet(dash[i].vars) :
                \A r \in v.refs : Finds(i, r)

\* The merged list has one variable of each name, the first that the files
\* define, and although later definitions are left out, a query refers to
\* variables that are listed before it, as in its file.
FirstOfItsName(i, j) ==
    \A k \in 1 .. i : \A l \in DOMAIN dash[k].vars :
        (k < i \/ l < j) => dash[k].vars[l].name # dash[i].vars[j].name

VariablesInOrder ==
    \A m \in DOMAIN merged :
        /\ \A l \in DOMAIN merged : merged[l].name = merged[m].name => l = m
        /\ \E i \in Sections : \E j \in DOMAIN dash[i].vars :
            /\ merged[m] = dash[i].vars[j]
            /\ FirstOfItsName(i, j)
            /\ \A r \in merged[m].refs :
                r.name \in {v.name : v \in ToSet(dash[i].vars)} =>
                    \E l \in 1 .. m - 1 : merged[l].name = r.name
=============================================================================
