----------------------- MODULE MergeDashboardsProofs -----------------------
(***************************************************************************)
(* Proofs about merging dashboards, for any number of files, panels, rows  *)
(* and variables.                                                          *)
(***************************************************************************)
EXTENDS MergeDashboards, WellFoundedInduction, TLAPS

-----------------------------------------------------------------------------
(* Least and greatest numbers.                                              *)

LEMMA LessIsWellFounded ==
    IsWellFoundedOn({ss \in Nat \X Nat : ss[1] < ss[2]}, Nat)
BY NatLessThanWellFounded, Zenon DEF OpToRel

LEMMA LeastExists ==
    ASSUME NEW T \in SUBSET Nat, T # {}
    PROVE  \E m \in T : \A n \in T : m <= n
<1> DEFINE R == {ss \in Nat \X Nat : ss[1] < ss[2]}
<1>1. IsWellFoundedOn(R, Nat)
  BY LessIsWellFounded
<1> HIDE DEF R
<1>2. PICK x \in T : \A y \in T : ~(<<y, x>> \in R)
  BY <1>1, WFMin
<1>3. ASSUME NEW y \in T PROVE x <= y
  <2>1. x \in Nat /\ y \in Nat
    OBVIOUS
  <2>2. y < x => <<y, x>> \in R
    <3> DEFINE p == <<y, x>>
    <3>1. p \in Nat \X Nat /\ p[1] = y /\ p[2] = x
      BY <2>1
    <3> HIDE DEF p
    <3>2. y < x => p \in R
      BY <3>1 DEF R
    <3>3. QED
      BY <3>2 DEF p
  <2>3. ~(y < x)
    BY <1>2, <2>2
  <2>4. QED
    BY <2>1, <2>3
<1>4. QED
  BY <1>3

LEMMA MinIsLeast ==
    ASSUME NEW T \in SUBSET Nat, T # {}
    PROVE  Min(T) \in T /\ \A n \in T : Min(T) <= n
BY LeastExists DEF Min

\* The numbers in a list have an upper bound: take the shortest beginning of
\* it that has none.
LEMMA ListIsBounded ==
    ASSUME NEW n \in Nat, NEW f, \A k \in 1 .. n : f[k] \in Nat
    PROVE  \E b \in Nat : \A k \in 1 .. n : f[k] <= b
<1> DEFINE Bounds(l, b) == \A k \in 1 .. l : f[k] <= b
           T == {l \in 0 .. n : ~ \E b \in Nat : Bounds(l, b)}
<1>1. SUFFICES ASSUME ~ \E b \in Nat : Bounds(n, b) PROVE FALSE
  OBVIOUS
<1>2. PICK l \in T : \A j \in T : l <= j
  <2>1. T \in SUBSET Nat
    OBVIOUS
  <2>2. n \in T
    BY <1>1
  <2> HIDE DEF T
  <2>3. QED
    BY <2>1, <2>2, LeastExists
<1>3. l # 0
  <2>1. Bounds(0, 0) /\ 0 \in Nat
    OBVIOUS
  <2>2. 0 \notin T
    BY <2>1
  <2>3. QED
    BY <1>2, <2>2
<1>4. l - 1 \in 0 .. n /\ l - 1 \notin T
  <2>1. l \in 0 .. n
    OBVIOUS
  <2> HIDE DEF T
  <2>2. QED
    BY <2>1, <1>2, <1>3
<1>5. PICK b \in Nat : Bounds(l - 1, b)
  BY <1>4
<1>6. f[l] \in Nat
  BY <1>3
<1>7. Bounds(l, b + f[l])
  <2>1. SUFFICES ASSUME NEW k \in 1 .. l PROVE f[k] <= b + f[l]
    OBVIOUS
  <2>2. CASE k = l
    BY <2>2, <1>6
  <2>3. CASE k # l
    <3>1. k \in 1 .. l - 1
      BY <2>3
    <3>2. f[k] <= b
      BY <3>1, <1>5
    <3>3. f[k] \in Nat
      OBVIOUS
    <3>4. QED
      BY <3>2, <3>3, <1>6
  <2>4. QED
    BY <2>2, <2>3
<1>8. b + f[l] \in Nat
  BY <1>6
<1>9. QED
  BY <1>7, <1>8

\* Take the least upper bound.
LEMMA MaxIsGreatest ==
    ASSUME NEW T \in SUBSET Nat, T # {}, NEW b \in Nat, \A n \in T : n <= b
    PROVE  Max(T) \in T /\ \A n \in T : n <= Max(T)
<1> DEFINE B == {c \in Nat : \A n \in T : n <= c}
<1>1. PICK c \in B : \A d \in B : c <= d
  BY LeastExists
<1>2. c \in T
  <2>1. SUFFICES ASSUME c \notin T PROVE FALSE
    OBVIOUS
  <2>2. PICK n \in T : TRUE
    OBVIOUS
  <2>3. c # 0
    BY <2>1, <2>2
  <2>4. c - 1 \in B
    BY <2>1, <2>3
  <2>5. QED
    BY <1>1, <2>4
<1>3. \E m \in T : \A n \in T : m >= n
  BY <1>2
<1>4. QED
  BY <1>3 DEF Max

-----------------------------------------------------------------------------
(* Names, variables and panels with a prefix.                               *)

LEMMA SectionsArePositions ==
    /\ Len(Prefix) \in Nat \ {0} /\ Sections = 1 .. Len(Prefix) /\ 1 \in Sections
    /\ \A i \in Sections : Prefix[i] \in Names /\ i \in Nat
BY MergeAssumption DEF Sections

LEMMA FilesAreDashboards ==
    ASSUME NEW d \in Dashboards
    PROVE  d \in Dashboard /\ PlainDashboard(d) /\ Ordered(d.vars)
BY MergeAssumption, OrderAssumption

LEMMA PrefixedName ==
    ASSUME NEW i \in Sections, NEW n \in Names
    PROVE  /\ <<Prefix[i]>> \o <<n>> = <<Prefix[i], n>>
           /\ Last(<<n>>) = n /\ Last(<<Prefix[i], n>>) = n
<1>1. <<Prefix[i]>> \in Seq(Names) /\ <<n>> \in Seq(Names)
  BY SectionsArePositions
<1>2. /\ Len(<<Prefix[i], n>>) = 2 /\ Len(<<n>>) = 1
      /\ <<Prefix[i], n>> \in Seq(Names)
  BY SectionsArePositions
<1>3. <<Prefix[i]>> \o <<n>> = <<Prefix[i], n>>
  <2> DEFINE s == <<Prefix[i]>> \o <<n>>
  <2>1. s \in Seq(Names) /\ Len(s) = 2 /\ s[1] = Prefix[i] /\ s[2] = n
    BY <1>1
  <2> HIDE DEF s
  <2>2. s = <<Prefix[i], n>>
    BY <2>1
  <2>3. QED
    BY <2>2 DEF s
<1>4. QED
  BY <1>2, <1>3 DEF Last

LEMMA RewrittenReference ==
    ASSUME NEW i \in Sections, NEW r \in Reference
    PROVE  LET q == [r EXCEPT !.name = <<Prefix[i]>> \o @]
           IN  q \in Reference /\ q.name = <<Prefix[i]>> \o r.name
<1>1. r.name \in Seq(Names) /\ <<Prefix[i]>> \in Seq(Names)
  BY SectionsArePositions DEF Reference
<1>2. <<Prefix[i]>> \o r.name \in Seq(Names)
  BY <1>1
<1>3. QED
  BY <1>2 DEF Reference

LEMMA RewrittenType ==
    ASSUME NEW i \in Sections, NEW olds, NEW refs \in SUBSET Reference
    PROVE  Rewritten(i, olds, refs) \in SUBSET Reference
BY RewrittenReference DEF Rewritten

\* What a change of one or two fields leaves alone.
LEMMA LeafWithReferences ==
    ASSUME NEW p \in LeafPanel, NEW R \in SUBSET Reference
    PROVE  LET q == [p EXCEPT !.refs = R]
           IN  /\ q \in LeafPanel /\ q.refs = R
               /\ q.placed = p.placed /\ q.y = p.y /\ q.h = p.h /\ q.cols = p.cols
BY DEF LeafPanel, PanelOf

LEMMA LeafIsPanel == LeafPanel \subseteq AnyPanel
<1>1. <<>> \in Seq(LeafPanel)
  OBVIOUS
<1>2. QED
  BY <1>1 DEF LeafPanel, AnyPanel, PanelOf

LEMMA PanelWithHistory ==
    ASSUME NEW p \in AnyPanel, NEW f \in Nat \X Nat \X Nat
    PROVE  LET q == [p EXCEPT !.from = f]
           IN  /\ q \in AnyPanel /\ q.from = f /\ q.refs = p.refs
               /\ q.placed = p.placed /\ q.y = p.y /\ q.h = p.h /\ q.cols = p.cols
BY DEF AnyPanel, PanelOf

LEMMA PanelFields ==
    ASSUME NEW p \in AnyPanel
    PROVE  /\ p.row \in BOOLEAN /\ p.placed \in BOOLEAN /\ p.id \in Nat
           /\ p.y \in Nat /\ p.h \in Nat /\ p.refs \in SUBSET Reference
           /\ p.cols \in SUBSET COLUMNS
           /\ p.nested \in Seq(LeafPanel) /\ p.from \in Nat \X Nat \X Nat
BY DEF AnyPanel, PanelOf

LEMMA RowHeaderIs ==
    ASSUME NEW i \in Sections, NEW id \in Nat, NEW y \in Nat
    PROVE  LET q == RowHeader(i, id, y)
           IN  /\ q \in AnyPanel /\ q.id = id /\ q.y = y /\ q.from = <<i, 0, 0>>
               /\ q.placed /\ q.h = 1 /\ q.cols = COLUMNS /\ q.refs = {}
BY SectionsArePositions DEF RowHeader, AnyPanel, PanelOf

LEMMA RewrittenPanelIs ==
    ASSUME NEW i \in Sections, NEW olds, NEW p \in AnyPanel
    PROVE  LET q == RewrittenPanel(i, olds, p)
           IN  /\ q \in AnyPanel /\ q.row = p.row
               /\ q.refs = Rewritten(i, olds, p.refs)
               /\ q.placed = p.placed /\ q.y = p.y /\ q.h = p.h /\ q.cols = p.cols
               /\ DOMAIN q.nested = DOMAIN p.nested
               /\ \A n \in DOMAIN p.nested :
                    /\ q.nested[n].refs = Rewritten(i, olds, p.nested[n].refs)
                    /\ q.nested[n].placed = p.nested[n].placed
                    /\ q.nested[n].y = p.nested[n].y
                    /\ q.nested[n].h = p.nested[n].h
                    /\ q.nested[n].cols = p.nested[n].cols
<1> DEFINE R == Rewritten(i, olds, p.refs)
           Leaf(n) == RewrittenLeaf(i, olds, p.nested[n])
           N == [n \in DOMAIN p.nested |-> Leaf(n)]
<1>1. R \in SUBSET Reference /\ p.nested \in Seq(LeafPanel)
  BY PanelFields, RewrittenType
<1>2. ASSUME NEW n \in DOMAIN p.nested
      PROVE  /\ p.nested[n] \in LeafPanel
             /\ Rewritten(i, olds, p.nested[n].refs) \in SUBSET Reference
  <2>1. p.nested[n] \in LeafPanel
    BY <1>1
  <2>2. p.nested[n].refs \in SUBSET Reference
    BY <2>1 DEF LeafPanel, PanelOf
  <2>3. QED
    BY <2>1, <2>2, RewrittenType
<1>3. \A n \in DOMAIN p.nested :
        /\ Leaf(n) \in LeafPanel
        /\ Leaf(n).refs = Rewritten(i, olds, p.nested[n].refs)
        /\ Leaf(n).placed = p.nested[n].placed
        /\ Leaf(n).y = p.nested[n].y
        /\ Leaf(n).h = p.nested[n].h
        /\ Leaf(n).cols = p.nested[n].cols
  BY <1>2, LeafWithReferences DEF RewrittenLeaf
<1>4. RewrittenPanel(i, olds, p) = [p EXCEPT !.refs = R, !.nested = N]
  BY DEF RewrittenPanel, AnyPanel, PanelOf
<1> HIDE DEF R, Leaf
<1>5. N \in Seq(LeafPanel) /\ DOMAIN N = DOMAIN p.nested
  BY <1>1, <1>3
<1>6. \A n \in DOMAIN p.nested : N[n] = Leaf(n)
  OBVIOUS
<1> HIDE DEF N
<1>7. LET q == RewrittenPanel(i, olds, p)
      IN  /\ q \in AnyPanel /\ q.refs = R /\ q.nested = N /\ q.row = p.row
          /\ q.placed = p.placed /\ q.y = p.y /\ q.h = p.h /\ q.cols = p.cols
  <2> DEFINE q == RewrittenPanel(i, olds, p)
  <2>1. q = [p EXCEPT !.refs = R, !.nested = N]
    BY <1>4
  <2> HIDE DEF q, R, N
  <2>2. /\ q \in AnyPanel /\ q.refs = R /\ q.nested = N /\ q.row = p.row
        /\ q.placed = p.placed /\ q.y = p.y /\ q.h = p.h /\ q.cols = p.cols
    BY <1>1, <1>5, <2>1 DEF AnyPanel, PanelOf
  <2>3. QED
    BY <2>2 DEF q
<1>8. QED
  BY <1>3, <1>5, <1>6, <1>7 DEF R

LEMMA RewrittenVarIs ==
    ASSUME NEW i \in Sections, NEW olds, NEW v \in Variable
    PROVE  LET q == RewrittenVar(i, olds, v)
           IN  /\ q \in Variable
               /\ q.refs = Rewritten(i, olds, v.refs)
               /\ q.name = IF v.name \in olds THEN <<Prefix[i]>> \o v.name ELSE v.name
<1> DEFINE R == Rewritten(i, olds, v.refs)
           n == IF v.name \in olds THEN <<Prefix[i]>> \o v.name ELSE v.name
<1>1. v.refs \in SUBSET Reference /\ v.name \in Seq(Names)
  BY DEF Variable
<1>2. R \in SUBSET Reference
  BY <1>1, RewrittenType
<1>3. <<Prefix[i]>> \o v.name \in Seq(Names)
  BY <1>1, SectionsArePositions
<1>4. n \in Seq(Names)
  BY <1>1, <1>3
<1>5. RewrittenVar(i, olds, v) = [v EXCEPT !.refs = R, !.name = n]
  BY DEF RewrittenVar, Variable
<1> HIDE DEF R, n
<1>6. QED
  BY <1>2, <1>4, <1>5 DEF R, n, Variable

LEMMA NamespacedIs ==
    ASSUME NEW i \in Sections, NEW d \in Dashboard
    PROVE  LET q == Namespaced(i, d)
           IN  /\ q \in Dashboard
               /\ DOMAIN q.panels = DOMAIN d.panels /\ DOMAIN q.vars = DOMAIN d.vars
               /\ \A k \in DOMAIN d.panels :
                    q.panels[k] = RewrittenPanel(i, Renamed(i, d), d.panels[k])
               /\ \A k \in DOMAIN d.vars :
                    q.vars[k] = RewrittenVar(i, Renamed(i, d), d.vars[k])
<1> DEFINE P == [k \in DOMAIN d.panels |-> RewrittenPanel(i, Renamed(i, d), d.panels[k])]
           V == [k \in DOMAIN d.vars |-> RewrittenVar(i, Renamed(i, d), d.vars[k])]
<1>1. d.panels \in Seq(AnyPanel) /\ d.vars \in Seq(Variable)
  BY DEF Dashboard
<1>2. P \in Seq(AnyPanel)
  <2>1. \A k \in DOMAIN d.panels : RewrittenPanel(i, Renamed(i, d), d.panels[k]) \in AnyPanel
    BY <1>1, RewrittenPanelIs
  <2>2. QED
    BY <1>1, <2>1
<1>3. V \in Seq(Variable)
  <2>1. ASSUME NEW k \in DOMAIN d.vars
        PROVE  RewrittenVar(i, Renamed(i, d), d.vars[k]) \in Variable
    <3>1. d.vars[k] \in Variable
      BY <1>1
    <3>2. QED
      BY <3>1, RewrittenVarIs
  <2>2. QED
    BY <1>1, <2>1
<1>4. Namespaced(i, d) = [panels |-> P, vars |-> V]
  BY DEF Namespaced
<1>5. QED
  BY <1>2, <1>3, <1>4 DEF Dashboard

-----------------------------------------------------------------------------
(* The inductive invariant.                                                *)

\* The files whose variables have a prefix, whose panels are in the merged
\* dashboard, and whose variables have been looked at, up to the j-th.
IsNamespaced(i) == phase # "namespace" \/ i < input
IsPlaced(i)     == phase \in {"vars", "done"} \/ (phase = "section" /\ i < input)
IsVisited(i, j) == \/ phase = "done"
                   \/ phase = "vars" /\ (i < input \/ (i = input /\ j < place))

DashCoherent ==
    \A i \in Sections :
        dash[i] = IF IsNamespaced(i) THEN Namespaced(i, source[i]) ELSE source[i]

PhaseCoherent ==
    /\ phase # "section" => flat = <<>>
    /\ phase = "namespace" => panels = <<>>
    /\ phase = "section" => place <= Len(dash[input].panels) + 1
    /\ phase = "vars" => place <= Len(dash[input].vars) + 1
    /\ phase \in {"namespace", "section"} => merged = <<>>

\* A panel shows the panel of a file that its history names: as it was, but
\* for its id, its y, and the names of the variables in it.
Shows(p) ==
    LET f == p.from
        q == PanelAt(source, f)
    IN  /\ IsContent(f)
        /\ p.placed = q.placed /\ p.h = q.h /\ p.cols = q.cols
        /\ p.refs = Rewritten(f[1], Renamed(f[1], source[f[1]]), q.refs)

FlatCoherent ==
    /\ \A k \in DOMAIN flat :
        /\ Shows(flat[k])
        /\ flat[k].y = PanelAt(source, flat[k].from).y
        /\ flat[k].from[1] = input /\ flat[k].from[2] < place
    /\ \A j, k \in DOMAIN flat : flat[j].from = flat[k].from => j = k
    /\ phase = "section" =>
        \A f \in Nat \X Nat \X Nat :
            IsContent(f) /\ f[1] = input /\ f[2] < place =>
                \E k \in DOMAIN flat : flat[k].from = f

IsTop(f) == f[1] \in Sections /\ f[2] = 0 /\ f[3] = 0

IsHeader(p) == /\ p.from = <<p.from[1], 0, 0>> /\ p.from[1] \in Sections
               /\ p.placed /\ p.h = 1 /\ p.refs = {}

\* Two panels of the merged dashboard: those of one file below its header and
\* as far apart as they were, those of different files one below the other.
Apart(p, q) ==
    /\ p.from[1] < q.from[1] => p.y + p.h <= q.y
    /\ p.from[1] = q.from[1] /\ IsHeader(p) /\ ~IsHeader(q) => p.y + p.h <= q.y
    /\ p.from[1] = q.from[1] /\ ~IsHeader(p) /\ ~IsHeader(q) =>
        p.y - PanelAt(source, p.from).y = q.y - PanelAt(source, q.from).y

PanelsCoherent ==
    /\ nextId = Len(panels) + 1
    /\ \A k \in DOMAIN panels :
        /\ panels[k].id = k
        /\ IsPlaced(panels[k].from[1])
        /\ IsHeader(panels[k]) \/ Shows(panels[k])
    /\ \A j, k \in DOMAIN panels :
        /\ panels[j].from = panels[k].from => j = k
        /\ panels[j].placed /\ panels[k].placed => Apart(panels[j], panels[k])
    /\ \A f \in Nat \X Nat \X Nat :
        IsPlaced(f[1]) /\ (IsContent(f) \/ IsTop(f)) =>
            \E k \in DOMAIN panels : panels[k].from = f

VarsCoherent ==
    /\ VariablesInOrder
    /\ \A i \in Sections : \A j \in DOMAIN dash[i].vars :
        IsVisited(i, j) => \E m \in DOMAIN merged : merged[m].name = dash[i].vars[j].name

MergeInv ==
    /\ TypeOK
    /\ DashCoherent
    /\ PhaseCoherent
    /\ FlatCoherent
    /\ PanelsCoherent
    /\ VarsCoherent

\* What depends on the files only.
LEMMA SameSource ==
    ASSUME source' = source
    PROVE  /\ \A f : (IsContent(f))' = IsContent(f)
           /\ \A f : PanelAt(source', f) = PanelAt(source, f)
           /\ \A q : (Shows(q))' = Shows(q)
           /\ \A q, r : (Apart(q, r))' = Apart(q, r)
<1>1. \A f : (IsContent(f))' = IsContent(f)
  BY DEF IsContent
<1>2. \A f : PanelAt(source', f) = PanelAt(source, f)
  OBVIOUS
<1>3. \A q : (Shows(q))' = Shows(q)
  BY DEF Shows, IsContent
<1>4. \A q, r : (Apart(q, r))' = Apart(q, r)
  BY DEF Apart, IsHeader
<1>5. QED
  BY <1>1, <1>2, <1>3, <1>4

\* A step that leaves the panels, and the sections that are placed, alone.
LEMMA SamePanels ==
    ASSUME PanelsCoherent, source' = source, panels' = panels, nextId' = nextId,
           \A i : (IsPlaced(i))' <=> IsPlaced(i)
    PROVE  PanelsCoherent'
<1>1. nextId' = Len(panels') + 1
  BY DEF PanelsCoherent
<1>2. \A k \in DOMAIN panels :
         /\ panels[k].id = k
         /\ (IsPlaced(panels[k].from[1]))'
         /\ IsHeader(panels[k]) \/ (Shows(panels[k]))'
  BY SameSource DEF PanelsCoherent
<1>3. \A j, k \in DOMAIN panels :
         /\ panels[j].from = panels[k].from => j = k
         /\ panels[j].placed /\ panels[k].placed => (Apart(panels[j], panels[k]))'
  BY SameSource DEF PanelsCoherent
<1>4. \A f \in Nat \X Nat \X Nat :
         (IsPlaced(f[1]))' /\ ((IsContent(f))' \/ IsTop(f)) =>
             \E k \in DOMAIN panels : panels[k].from = f
  BY SameSource DEF PanelsCoherent
<1>5. QED
  BY <1>1, <1>2, <1>3, <1>4 DEF PanelsCoherent, IsHeader, IsTop

-----------------------------------------------------------------------------
(* Moving the panels of a section.                                          *)

LEMMA MinYIs ==
    ASSUME NEW ps \in Seq(AnyPanel), ps # <<>>
    PROVE  /\ MinY(ps) \in Nat
           /\ \A k \in DOMAIN ps : ps[k].placed => MinY(ps) <= ps[k].y
<1> DEFINE Y(k) == IF ps[k].placed THEN ps[k].y ELSE 0
           T == {Y(k) : k \in DOMAIN ps}
<1>1. \A k \in DOMAIN ps : Y(k) \in Nat
  BY PanelFields
<1>2. T \in SUBSET Nat /\ T # {}
  BY <1>1
<1>3. MinY(ps) = Min(T)
  BY DEF MinY
<1>4. Min(T) \in T /\ \A n \in T : Min(T) <= n
  <2> HIDE DEF T
  <2>1. QED
    BY <1>2, MinIsLeast
<1>5. \A k \in DOMAIN ps : Y(k) \in T
  OBVIOUS
<1> HIDE DEF T
<1>6. QED
  BY <1>2, <1>3, <1>4, <1>5

LEMMA PlacedIs ==
    ASSUME NEW ps \in Seq(AnyPanel), NEW rowY \in Nat, NEW firstId \in Nat
    PROVE  LET c == Placed(ps, rowY, firstId)
           IN  /\ c \in Seq(AnyPanel) /\ DOMAIN c = DOMAIN ps /\ Len(c) = Len(ps)
               /\ \A k \in DOMAIN ps :
                    /\ c[k].id = firstId + k - 1
                    /\ c[k].from = ps[k].from /\ c[k].refs = ps[k].refs
                    /\ c[k].placed = ps[k].placed
                    /\ c[k].h = ps[k].h /\ c[k].cols = ps[k].cols
                    /\ c[k].placed => /\ c[k].y = ps[k].y - MinY(ps) + 1 + rowY
                                      /\ c[k].y >= rowY + 1
<1> DEFINE Y(k) == IF ps[k].placed THEN ps[k].y - MinY(ps) + 1 + rowY ELSE ps[k].y
           Q(k) == [ps[k] EXCEPT !.id = firstId + k - 1, !.y = Y(k)]
           c == Placed(ps, rowY, firstId)
<1>1. ASSUME NEW k \in DOMAIN ps
      PROVE  /\ Q(k) \in AnyPanel
             /\ Q(k).id = firstId + k - 1
             /\ Q(k).from = ps[k].from /\ Q(k).refs = ps[k].refs
             /\ Q(k).placed = ps[k].placed
             /\ Q(k).h = ps[k].h /\ Q(k).cols = ps[k].cols
             /\ Q(k).placed => /\ Q(k).y = ps[k].y - MinY(ps) + 1 + rowY
                               /\ Q(k).y >= rowY + 1
  <2>1. ps[k] \in AnyPanel /\ ps[k].y \in Nat /\ ps[k].placed \in BOOLEAN /\ k \in Nat \ {0}
    BY PanelFields
  <2>2. MinY(ps) \in Nat /\ (ps[k].placed => MinY(ps) <= ps[k].y)
    BY MinYIs
  <2>3. firstId + k - 1 \in Nat
    BY <2>1
  <2>4. Y(k) \in Nat /\ (ps[k].placed => Y(k) >= rowY + 1)
    BY <2>1, <2>2
  <2> DEFINE p == ps[k]
             id == firstId + k - 1
             y == Y(k)
  <2>a. p \in AnyPanel /\ id \in Nat /\ y \in Nat
    BY <2>1, <2>3, <2>4
  <2> HIDE DEF p, id, y
  <2>5. LET q == [p EXCEPT !.id = id, !.y = y]
        IN  /\ q \in AnyPanel /\ q.id = id /\ q.y = y
            /\ q.from = p.from /\ q.refs = p.refs
            /\ q.placed = p.placed /\ q.h = p.h /\ q.cols = p.cols
    BY <2>a DEF AnyPanel, PanelOf
  <2>6. QED
    BY <2>4, <2>5 DEF p, id, y
<1>2. c = [k \in DOMAIN ps |-> Q(k)]
  BY DEF Placed
<1> HIDE DEF Q
<1>3. c \in Seq(AnyPanel) /\ DOMAIN c = DOMAIN ps /\ Len(c) = Len(ps)
  BY <1>1, <1>2
<1>4. \A k \in DOMAIN ps : c[k] = Q(k)
  BY <1>2
<1> HIDE DEF c
<1>5. QED
  BY <1>1, <1>3, <1>4 DEF c

LEMMA BottomIs ==
    ASSUME NEW ps \in Seq(AnyPanel), NEW rowY \in Nat
    PROVE  /\ Bottom(ps, rowY) \in Nat /\ Bottom(ps, rowY) >= rowY + 1
           /\ \A k \in DOMAIN ps :
                ps[k].placed => ps[k].y + ps[k].h <= Bottom(ps, rowY)
<1> DEFINE f == [k \in 1 .. Len(ps) |-> ps[k].y + ps[k].h]
           T == {rowY + 1} \cup
                {ps[k].y + ps[k].h : k \in {j \in DOMAIN ps : ps[j].placed}}
<1>1. \A k \in 1 .. Len(ps) : ps[k].y \in Nat /\ ps[k].h \in Nat
  BY PanelFields
<1>2. \A k \in 1 .. Len(ps) : f[k] = ps[k].y + ps[k].h /\ f[k] \in Nat
  BY <1>1
<1>3. PICK b \in Nat : \A k \in 1 .. Len(ps) : f[k] <= b
  <2> HIDE DEF f
  <2>1. Len(ps) \in Nat
    OBVIOUS
  <2>2. QED
    BY <1>2, <2>1, ListIsBounded
<1> HIDE DEF f
<1>4. T \in SUBSET Nat /\ rowY + 1 \in T
  BY <1>1
<1>5. \A n \in T : n <= b + rowY + 1
  <2>1. rowY + 1 <= b + rowY + 1
    BY <1>3
  <2>2. ASSUME NEW k \in 1 .. Len(ps)
        PROVE  ps[k].y + ps[k].h <= b + rowY + 1
    <3> DEFINE v == ps[k].y + ps[k].h
    <3>1. v \in Nat /\ v <= b
      BY <1>2, <1>3
    <3> HIDE DEF v
    <3>2. v <= b + rowY + 1
      BY <1>3, <3>1
    <3>3. QED
      BY <3>2 DEF v
  <2>3. DOMAIN ps = 1 .. Len(ps)
    OBVIOUS
  <2>4. QED
    BY <2>1, <2>2, <2>3
<1>6. \A k \in DOMAIN ps : ps[k].placed => ps[k].y + ps[k].h \in T
  OBVIOUS
<1>7. Bottom(ps, rowY) = Max(T)
  BY DEF Bottom
<1> HIDE DEF T
<1>8. Max(T) \in T /\ \A n \in T : n <= Max(T)
  <2>1. b + rowY + 1 \in Nat
    OBVIOUS
  <2>2. QED
    BY <1>4, <1>5, <2>1, MaxIsGreatest
<1>9. QED
  BY <1>4, <1>6, <1>7, <1>8

-----------------------------------------------------------------------------
(* The content of a file.                                                   *)

\* A panel of a file after the names in it were given their prefix.
LEMMA ShownPanel ==
    ASSUME TypeOK, DashCoherent, NEW f \in Nat \X Nat \X Nat,
           IsContent(f), IsNamespaced(f[1])
    PROVE  LET p == PanelAt(dash, f)
               q == PanelAt(source, f)
           IN  /\ p \in AnyPanel
               /\ q.y \in Nat
               /\ p.y = q.y /\ p.placed = q.placed /\ p.h = q.h /\ p.cols = q.cols
               /\ p.refs = Rewritten(f[1], Renamed(f[1], source[f[1]]), q.refs)
<1> DEFINE i == f[1]
           k == f[2]
           n == f[3]
           d == source[i]
           olds == Renamed(i, d)
           o == d.panels[k]
<1>1. i \in Sections /\ k \in DOMAIN d.panels /\ source[i] \in Dashboards
  BY DEF IsContent, TypeOK
<1>2. d \in Dashboard
  BY <1>1, FilesAreDashboards
<1>3. /\ DOMAIN Namespaced(i, d).panels = DOMAIN d.panels
      /\ Namespaced(i, d).panels[k] = RewrittenPanel(i, olds, o)
  BY <1>1, <1>2, NamespacedIs
<1>4. dash[i].panels[k] = RewrittenPanel(i, olds, o)
  BY <1>1, <1>3 DEF DashCoherent
<1>5. o \in AnyPanel
  BY <1>1, <1>2 DEF Dashboard
<1> DEFINE q == dash[i].panels[k]
<1>6. /\ q \in AnyPanel /\ q.row = o.row
      /\ q.refs = Rewritten(i, olds, o.refs)
      /\ q.placed = o.placed /\ q.y = o.y /\ q.h = o.h /\ q.cols = o.cols
      /\ DOMAIN q.nested = DOMAIN o.nested
      /\ \A m \in DOMAIN o.nested :
            /\ q.nested[m].refs = Rewritten(i, olds, o.nested[m].refs)
            /\ q.nested[m].placed = o.nested[m].placed
            /\ q.nested[m].y = o.nested[m].y
            /\ q.nested[m].h = o.nested[m].h
            /\ q.nested[m].cols = o.nested[m].cols
  <2>1. q = RewrittenPanel(i, olds, o) /\ i \in Sections
    BY <1>1, <1>4
  <2> HIDE DEF q, olds, o, i
  <2>2. QED
    BY <2>1, <1>5, RewrittenPanelIs
<1> HIDE DEF q, olds, o
<1>7. CASE n = 0
  <2>1. PanelAt(dash, f) = q /\ PanelAt(source, f) = o
    BY <1>7 DEF PanelAt, q, o
  <2>2. o.y \in Nat
    BY <1>5, PanelFields
  <2>3. QED
    BY <1>6, <2>1, <2>2 DEF olds
<1>8. CASE n # 0
  <2>1. n \in DOMAIN o.nested
    BY <1>8 DEF IsContent, o
  <2>2. PanelAt(dash, f) = q.nested[n] /\ PanelAt(source, f) = o.nested[n]
    BY <1>8 DEF PanelAt, q, o
  <2>3. q.nested \in Seq(LeafPanel) /\ o.nested \in Seq(LeafPanel)
    BY <1>5, <1>6, PanelFields
  <2>4. q.nested[n] \in AnyPanel /\ o.nested[n] \in AnyPanel
    <3>1. q.nested[n] \in LeafPanel /\ o.nested[n] \in LeafPanel
      BY <1>6, <2>1, <2>3
    <3>2. QED
      BY <3>1, LeafIsPanel
  <2>5. o.nested[n].y \in Nat
    BY <2>4, PanelFields
  <2>6. QED
    BY <1>6, <2>1, <2>2, <2>4, <2>5 DEF olds
<1>9. QED
  BY <1>7, <1>8

LEMMA EntryShows ==
    ASSUME TypeOK, DashCoherent, NEW f \in Nat \X Nat \X Nat,
           IsContent(f), IsNamespaced(f[1])
    PROVE  LET p == [PanelAt(dash, f) EXCEPT !.from = f]
           IN  /\ p \in AnyPanel /\ p.from = f
               /\ Shows(p) /\ p.y = PanelAt(source, f).y
<1> DEFINE o == PanelAt(dash, f)
           p == [o EXCEPT !.from = f]
<1>1. /\ o \in AnyPanel
      /\ o.y = PanelAt(source, f).y /\ o.placed = PanelAt(source, f).placed
      /\ o.h = PanelAt(source, f).h /\ o.cols = PanelAt(source, f).cols
      /\ o.refs = Rewritten(f[1], Renamed(f[1], source[f[1]]), PanelAt(source, f).refs)
  BY ShownPanel
<1> HIDE DEF o
<1>2. /\ p \in AnyPanel /\ p.from = f /\ p.refs = o.refs
      /\ p.placed = o.placed /\ p.y = o.y /\ p.h = o.h /\ p.cols = o.cols
  BY <1>1, PanelWithHistory
<1> HIDE DEF p
<1>3. Shows(p) /\ p.y = PanelAt(source, f).y
  BY <1>1, <1>2 DEF Shows
<1>4. QED
  BY <1>2, <1>3 DEF p, o

\* What one panel of a file contributes to the section: each content panel at
\* its place exactly once.
LEMMA ContentIs ==
    ASSUME TypeOK, DashCoherent, NEW i \in Sections, IsNamespaced(i),
           NEW k \in DOMAIN source[i].panels
    PROVE  LET c == Content(i, k)
           IN  /\ c \in Seq(AnyPanel)
               /\ \A n \in DOMAIN c :
                    /\ Shows(c[n]) /\ c[n].y = PanelAt(source, c[n].from).y
                    /\ c[n].from[1] = i /\ c[n].from[2] = k
               /\ \A m, n \in DOMAIN c : c[m].from = c[n].from => m = n
               /\ \A f \in Nat \X Nat \X Nat :
                    IsContent(f) /\ f[1] = i /\ f[2] = k =>
                        \E n \in DOMAIN c : c[n].from = f
<1> DEFINE o == source[i].panels[k]
           p == dash[i].panels[k]
           E(f) == [PanelAt(dash, f) EXCEPT !.from = f]
           c == Content(i, k)
<1>1. source[i] \in Dashboard /\ i \in Nat /\ k \in Nat \ {0}
  <2>1. source[i] \in Dashboards
    BY DEF TypeOK
  <2>2. source[i] \in Dashboard
    BY <2>1, FilesAreDashboards
  <2>3. source[i].panels \in Seq(AnyPanel)
    BY <2>2 DEF Dashboard
  <2>4. QED
    BY <2>2, <2>3, SectionsArePositions
<1>2. o \in AnyPanel
  BY <1>1 DEF Dashboard
<1>3. /\ p \in AnyPanel /\ p.row = o.row
      /\ DOMAIN p.nested = DOMAIN o.nested
  <2>1. p = RewrittenPanel(i, Renamed(i, source[i]), o)
    BY <1>1, NamespacedIs DEF DashCoherent
  <2> HIDE DEF o, p
  <2>2. QED
    BY <1>2, <2>1, RewrittenPanelIs
<1>4. p.nested \in Seq(LeafPanel) /\ o.row \in BOOLEAN /\ o.nested \in Seq(LeafPanel)
  BY <1>2, <1>3, PanelFields
<1>5. \A f \in Nat \X Nat \X Nat :
        IsContent(f) /\ f[1] = i =>
            E(f) \in AnyPanel /\ E(f).from = f /\ Shows(E(f)) /\ E(f).y = PanelAt(source, f).y
  <2>1. ASSUME NEW f \in Nat \X Nat \X Nat, IsContent(f), f[1] = i
        PROVE  E(f) \in AnyPanel /\ E(f).from = f /\ Shows(E(f))
               /\ E(f).y = PanelAt(source, f).y
    <3>1. IsNamespaced(f[1])
      BY <2>1
    <3>2. QED
      BY <2>1, <3>1, EntryShows
  <2>2. QED
    BY <2>1
<1>6. CASE o.row
  <2> DEFINE F(n) == <<i, k, n>>
  <2>1. c = [n \in DOMAIN p.nested |-> [p.nested[n] EXCEPT !.from = <<i, k, n>>]]
    BY <1>3, <1>6 DEF Content
  <2>2. \A n \in DOMAIN p.nested :
          /\ n \in Nat \ {0} /\ F(n) \in Nat \X Nat \X Nat
          /\ F(n)[1] = i /\ F(n)[2] = k /\ F(n)[3] = n
    <3>1. i \in Nat /\ k \in Nat
      BY <1>1
    <3>2. \A n \in DOMAIN p.nested : n \in Nat \ {0}
      <4> HIDE DEF p
      <4>1. QED
        BY <1>4
    <3>3. QED
      BY <3>1, <3>2
  <2>3. \A n \in DOMAIN p.nested : IsContent(F(n)) /\ PanelAt(dash, F(n)) = p.nested[n]
    BY <2>2, <1>3, <1>6 DEF IsContent, PanelAt
  <2>4. c = [n \in DOMAIN p.nested |-> E(F(n))]
    BY <2>1, <2>3
  <2>5. \A f \in Nat \X Nat \X Nat :
          IsContent(f) /\ f[1] = i /\ f[2] = k =>
            f[3] \in DOMAIN p.nested /\ f = F(f[3])
    BY <1>3, <1>6 DEF IsContent
  <2> HIDE DEF E, F, p, o, c
  <2>6. \A n \in DOMAIN p.nested :
          /\ E(F(n)) \in AnyPanel /\ E(F(n)).from = F(n)
          /\ Shows(E(F(n))) /\ E(F(n)).y = PanelAt(source, F(n)).y
    BY <1>5, <2>2, <2>3
  <2>7. c \in Seq(AnyPanel) /\ DOMAIN c = DOMAIN p.nested
    BY <1>4, <2>4, <2>6
  <2>8. \A n \in DOMAIN p.nested : c[n] = E(F(n))
    BY <2>4
  <2>9. QED
    BY <2>2, <2>5, <2>6, <2>7, <2>8 DEF c
<1>7. CASE ~o.row
  <2> DEFINE f0 == <<i, k, 0>>
  <2>1. c = <<[p EXCEPT !.from = f0]>>
    BY <1>3, <1>7 DEF Content
  <2>2. f0 \in Nat \X Nat \X Nat /\ f0[1] = i /\ f0[2] = k /\ f0[3] = 0
    BY <1>1
  <2>3. IsContent(f0) /\ PanelAt(dash, f0) = p
    BY <2>2, <1>7 DEF IsContent, PanelAt
  <2>4. c = <<E(f0)>>
    BY <2>1, <2>3
  <2>5. \A f \in Nat \X Nat \X Nat :
          IsContent(f) /\ f[1] = i /\ f[2] = k => f = f0
    BY <1>7 DEF IsContent
  <2> HIDE DEF E, f0, p, o, c
  <2>6. /\ E(f0) \in AnyPanel /\ E(f0).from = f0
        /\ Shows(E(f0)) /\ E(f0).y = PanelAt(source, f0).y
    BY <1>5, <2>2, <2>3
  <2>7. c \in Seq(AnyPanel) /\ DOMAIN c = {1} /\ c[1] = E(f0)
    BY <2>4, <2>6
  <2>8. QED
    BY <2>2, <2>5, <2>6, <2>7 DEF c
<1>8. QED
  BY <1>4, <1>6, <1>7

-----------------------------------------------------------------------------
(* The invariant holds at first and is kept by each action.                 *)

LEMMA FileType ==
    ASSUME TypeOK, NEW i \in Sections
    PROVE  source[i] \in Dashboards /\ source[i] \in Dashboard /\ dash[i] \in Dashboard
BY FilesAreDashboards DEF TypeOK

LEMMA SameShape ==
    ASSUME TypeOK, DashCoherent, NEW i \in Sections
    PROVE  /\ DOMAIN dash[i].panels = DOMAIN source[i].panels
           /\ DOMAIN dash[i].vars = DOMAIN source[i].vars
           /\ dash[i].panels \in Seq(AnyPanel) /\ dash[i].vars \in Seq(Variable)
<1>1. source[i] \in Dashboard /\ dash[i] \in Dashboard
  BY FileType
<1>2. /\ DOMAIN dash[i].panels = DOMAIN source[i].panels
      /\ DOMAIN dash[i].vars = DOMAIN source[i].vars
  BY <1>1, NamespacedIs DEF DashCoherent
<1>3. QED
  BY <1>1, <1>2 DEF Dashboard

LEMMA InitMergeInv == Init => MergeInv
<1> SUFFICES ASSUME Init PROVE MergeInv
  OBVIOUS
<1>1. TypeOK
  BY SectionsArePositions, FilesAreDashboards DEF Init, TypeOK, ToSet
<1>2. DashCoherent
  BY SectionsArePositions DEF Init, DashCoherent, IsNamespaced
<1>3. PhaseCoherent
  BY DEF Init, PhaseCoherent
<1>4. FlatCoherent
  BY DEF Init, FlatCoherent
<1>5. PanelsCoherent
  BY DEF Init, PanelsCoherent, IsPlaced
<1>6. VarsCoherent
  BY DEF Init, VarsCoherent, VariablesInOrder, IsVisited
<1>7. QED
  BY <1>1, <1>2, <1>3, <1>4, <1>5, <1>6 DEF MergeInv

LEMMA NamespaceVarsKeepsInv ==
    ASSUME MergeInv, NamespaceVars
    PROVE  MergeInv'
<1>1. TypeOK /\ DashCoherent /\ PhaseCoherent /\ PanelsCoherent
  BY DEF MergeInv
<1>2. /\ phase = "namespace" /\ flat = <<>> /\ panels = <<>> /\ merged = <<>>
      /\ input \in Sections /\ input \in Nat /\ dash[input] = source[input]
      /\ nextId = 1
  BY <1>1, SectionsArePositions
     DEF NamespaceVars, PhaseCoherent, PanelsCoherent, DashCoherent, IsNamespaced, TypeOK
<1>3. /\ source' = source /\ flat' = <<>> /\ panels' = <<>> /\ merged' = <<>>
      /\ nextId' = 1 /\ currentY' = currentY /\ place' = 1
      /\ dash' = [dash EXCEPT ![input] = Namespaced(input, source[input])]
  BY <1>2 DEF NamespaceVars, TurnTo
<1>4. \/ input = Len(Prefix) /\ phase' = "section" /\ input' = 1
      \/ input # Len(Prefix) /\ phase' = "namespace" /\ input' = input + 1
  BY <1>2 DEF NamespaceVars, TurnTo
<1>5. TypeOK'
  <2>1. Namespaced(input, source[input]) \in Dashboard
    BY <1>1, <1>2, FileType, NamespacedIs
  <2>2. dash' \in [Sections -> Dashboard]
    BY <1>1, <1>2, <1>3, <2>1 DEF TypeOK
  <2>3. input' \in Sections
    BY <1>2, <1>4, SectionsArePositions
  <2>4. QED
    BY <1>1, <1>3, <1>4, <2>2, <2>3 DEF TypeOK, ToSet
<1>6. DashCoherent'
  <2>1. ASSUME NEW i \in Sections
        PROVE  dash'[i] = IF (IsNamespaced(i))' THEN Namespaced(i, source[i]) ELSE source[i]
    <3>0. i \in Nat /\ i <= Len(Prefix) /\ Len(Prefix) \in Nat
      BY SectionsArePositions
    <3>1. dash[i] = IF i < input THEN Namespaced(i, source[i]) ELSE source[i]
      BY <1>1, <1>2 DEF DashCoherent, IsNamespaced
    <3>2. (IsNamespaced(i))' <=> i <= input
      BY <1>2, <1>4, <3>0 DEF IsNamespaced
    <3>3. dash'[i] = IF i = input THEN Namespaced(i, source[i]) ELSE dash[i]
      BY <1>1, <1>3 DEF TypeOK
    <3>4. QED
      BY <1>2, <3>0, <3>1, <3>2, <3>3
  <2>2. QED
    BY <1>3, <2>1 DEF DashCoherent
<1>7. PhaseCoherent'
  <2>1. dash'[input'].panels \in Seq(AnyPanel) /\ dash'[input'].vars \in Seq(Variable)
    BY <1>5 DEF TypeOK, Dashboard
  <2>2. QED
    BY <1>3, <1>4, <2>1 DEF PhaseCoherent
<1>8. FlatCoherent'
  <2>1. ASSUME NEW f \in Nat \X Nat \X Nat, IsContent(f), f[1] = input', f[2] < 1
        PROVE  FALSE
    <3>1. source[f[1]] \in Dashboard
      BY <1>1, <2>1, FileType DEF IsContent
    <3>2. source[f[1]].panels \in Seq(AnyPanel)
      BY <3>1 DEF Dashboard
    <3>3. QED
      BY <2>1, <3>2 DEF IsContent
  <2>2. QED
    BY <1>3, <2>1 DEF FlatCoherent, IsContent
<1>9. PanelsCoherent'
  <2>1. \A i \in Sections : ~(IsPlaced(i))'
    BY <1>4, SectionsArePositions DEF IsPlaced
  <2>2. QED
    BY <1>3, <2>1 DEF PanelsCoherent, IsContent, IsTop
<1>10. VarsCoherent'
  BY <1>3, <1>4 DEF VarsCoherent, VariablesInOrder, IsVisited
<1>11. QED
  BY <1>5, <1>6, <1>7, <1>8, <1>9, <1>10 DEF MergeInv

\* Where the elements of a concatenation come from.
LEMMA Concatenation ==
    ASSUME NEW S, NEW a \in Seq(S), NEW b \in Seq(S)
    PROVE  /\ a \o b \in Seq(S) /\ Len(a \o b) = Len(a) + Len(b)
           /\ \A k \in DOMAIN a : k \in DOMAIN (a \o b) /\ (a \o b)[k] = a[k]
           /\ \A k \in DOMAIN b : /\ Len(a) + k \in DOMAIN (a \o b)
                                  /\ (a \o b)[Len(a) + k] = b[k]
           /\ \A k \in DOMAIN (a \o b) :
                \/ k \in DOMAIN a
                \/ k - Len(a) \in DOMAIN b /\ k = Len(a) + (k - Len(a))
OBVIOUS

LEMMA FlattenPanelKeepsInv ==
    ASSUME MergeInv, FlattenPanel
    PROVE  MergeInv'
<1> DEFINE c == Content(input, place)
           n == Len(flat)
<1>1. TypeOK /\ DashCoherent /\ PhaseCoherent /\ FlatCoherent /\ PanelsCoherent /\ VarsCoherent
  BY DEF MergeInv
<1>2. /\ phase = "section" /\ input \in Sections /\ IsNamespaced(input)
      /\ place \in DOMAIN dash[input].panels /\ place \in Nat \ {0}
      /\ flat' = flat \o c /\ place' = place + 1
      /\ UNCHANGED <<source, dash, phase, input, panels, nextId, currentY, merged>>
  BY <1>1 DEF FlattenPanel, TypeOK, IsNamespaced
<1>3. /\ place \in DOMAIN source[input].panels
      /\ dash[input].panels \in Seq(AnyPanel)
  BY <1>1, <1>2, SameShape
<1>4. /\ c \in Seq(AnyPanel)
      /\ \A m \in DOMAIN c :
            /\ Shows(c[m]) /\ c[m].y = PanelAt(source, c[m].from).y
            /\ c[m].from[1] = input /\ c[m].from[2] = place
      /\ \A l, m \in DOMAIN c : c[l].from = c[m].from => l = m
      /\ \A f \in Nat \X Nat \X Nat :
            IsContent(f) /\ f[1] = input /\ f[2] = place =>
                \E m \in DOMAIN c : c[m].from = f
  BY <1>1, <1>2, <1>3, ContentIs
<1>5. flat \in Seq(AnyPanel)
  BY <1>1 DEF TypeOK
<1> HIDE DEF c
<1>6. /\ flat' \in Seq(AnyPanel) /\ Len(flat') = n + Len(c)
      /\ \A k \in DOMAIN flat : k \in DOMAIN flat' /\ flat'[k] = flat[k]
      /\ \A k \in DOMAIN c : n + k \in DOMAIN flat' /\ flat'[n + k] = c[k]
      /\ \A k \in DOMAIN flat' :
            \/ k \in DOMAIN flat
            \/ k - n \in DOMAIN c /\ k = n + (k - n)
  <2> DEFINE both == flat \o c
  <2>1. /\ both \in Seq(AnyPanel) /\ Len(both) = n + Len(c)
        /\ \A k \in DOMAIN flat : k \in DOMAIN both /\ both[k] = flat[k]
        /\ \A k \in DOMAIN c : n + k \in DOMAIN both /\ both[n + k] = c[k]
        /\ \A k \in DOMAIN both :
              \/ k \in DOMAIN flat
              \/ k - n \in DOMAIN c /\ k = n + (k - n)
    <3>1. c \in Seq(AnyPanel)
      BY <1>4
    <3>2. QED
      BY <1>5, <3>1, Concatenation
  <2>2. flat' = both
    BY <1>2
  <2> HIDE DEF both, n
  <2>3. QED
    BY <2>1, <2>2
<1>7. TypeOK'
  BY <1>1, <1>2, <1>6 DEF TypeOK, ToSet
<1>8. DashCoherent' /\ PanelsCoherent' /\ VarsCoherent'
  <2>1. DashCoherent'
    BY <1>1, <1>2 DEF DashCoherent, IsNamespaced
  <2>2. PanelsCoherent'
    BY <1>1, <1>2, SamePanels DEF IsPlaced
  <2>3. VarsCoherent'
    BY <1>1, <1>2 DEF VarsCoherent, VariablesInOrder, FirstOfItsName, IsVisited
  <2>4. QED
    BY <2>1, <2>2, <2>3
<1>9. PhaseCoherent'
  BY <1>1, <1>2, <1>3 DEF PhaseCoherent
<1>10. FlatCoherent'
  <2>1. \A k \in DOMAIN flat :
          /\ Shows(flat[k]) /\ flat[k].y = PanelAt(source, flat[k].from).y
          /\ flat[k].from[1] = input /\ flat[k].from[2] < place
    BY <1>1 DEF FlatCoherent
  <2>2. \A k \in DOMAIN flat' :
          /\ Shows(flat'[k]) /\ flat'[k].y = PanelAt(source, flat'[k].from).y
          /\ flat'[k].from[1] = input /\ flat'[k].from[2] < place + 1
    <3>1. ASSUME NEW k \in DOMAIN flat'
          PROVE  /\ Shows(flat'[k]) /\ flat'[k].y = PanelAt(source, flat'[k].from).y
                 /\ flat'[k].from[1] = input /\ flat'[k].from[2] < place + 1
      <4>1. CASE k \in DOMAIN flat
        <5>1. flat[k].from[2] \in Nat
          BY <1>5, <4>1, PanelFields
        <5>2. QED
          BY <1>2, <1>6, <2>1, <4>1, <5>1
      <4>2. CASE k \notin DOMAIN flat
        <5>1. k - n \in DOMAIN c /\ flat'[k] = c[k - n]
          BY <1>6, <4>2
        <5>2. QED
          BY <1>2, <1>4, <5>1
      <4>3. QED
        BY <4>1, <4>2
    <3>2. QED
      BY <3>1
  <2>3. \A j, k \in DOMAIN flat' : flat'[j].from = flat'[k].from => j = k
    <3>1. ASSUME NEW j \in DOMAIN flat', NEW k \in DOMAIN flat', flat'[j].from = flat'[k].from
          PROVE  j = k
      <4>1. CASE j \in DOMAIN flat /\ k \in DOMAIN flat
        BY <1>1, <1>6, <3>1, <4>1 DEF FlatCoherent
      <4>2. ASSUME NEW l \in DOMAIN flat', l \notin DOMAIN flat
            PROVE  l - n \in DOMAIN c /\ flat'[l] = c[l - n] /\ l = n + (l - n) /\ flat'[l].from[2] = place
        BY <1>4, <1>6, <4>2
      <4>3. ASSUME NEW l \in DOMAIN flat
            PROVE  flat'[l].from[2] # place
        <5>1. flat[l].from[2] \in Nat
          BY <1>5, <4>3, PanelFields
        <5>2. QED
          BY <1>2, <1>6, <2>1, <4>3, <5>1
      <4>4. CASE j \notin DOMAIN flat /\ k \notin DOMAIN flat
        <5>1. j - n = k - n
          BY <1>4, <3>1, <4>2, <4>4
        <5>2. QED
          BY <4>2, <4>4, <5>1
      <4>5. QED
        BY <3>1, <4>1, <4>2, <4>3, <4>4
    <3>2. QED
      BY <3>1
  <2>4. ASSUME NEW f \in Nat \X Nat \X Nat, IsContent(f), f[1] = input, f[2] < place + 1
        PROVE  \E k \in DOMAIN flat' : flat'[k].from = f
    <3>1. CASE f[2] < place
      <4>1. PICK k \in DOMAIN flat : flat[k].from = f
        BY <1>1, <1>2, <2>4, <3>1 DEF FlatCoherent
      <4>2. QED
        BY <1>6, <4>1
    <3>2. CASE f[2] = place
      <4>1. PICK k \in DOMAIN c : c[k].from = f
        BY <1>4, <2>4, <3>2
      <4>2. QED
        BY <1>6, <4>1
    <3>3. f[2] < place \/ f[2] = place
      BY <1>2, <2>4
    <3>4. QED
      BY <3>1, <3>2, <3>3
  <2>5. /\ source' = source /\ phase' = "section" /\ input' = input
        /\ place' = place + 1
    BY <1>2
  <2>6. (\A k \in DOMAIN flat :
           /\ Shows(flat[k])
           /\ flat[k].y = PanelAt(source, flat[k].from).y
           /\ flat[k].from[1] = input /\ flat[k].from[2] < place)'
    BY <2>2, <2>5 DEF Shows, IsContent
  <2>7. (\A f \in Nat \X Nat \X Nat :
           IsContent(f) /\ f[1] = input /\ f[2] < place =>
               \E k \in DOMAIN flat : flat[k].from = f)'
    BY <2>4, <2>5 DEF IsContent
  <2>8. QED
    BY <2>3, <2>6, <2>7 DEF FlatCoherent
<1>11. QED
  BY <1>7, <1>8, <1>9, <1>10 DEF MergeInv

\* A panel of the content is not a header.
LEMMA ShownIsNoHeader ==
    ASSUME TypeOK, NEW p \in AnyPanel, Shows(p)
    PROVE  ~IsHeader(p) /\ IsContent(p.from) /\ p.from[1] \in Sections /\ p.from[1] \in Nat
           /\ p.from[2] \in Nat \ {0} /\ PanelAt(source, p.from).y \in Nat
<1>1. IsContent(p.from) /\ p.from[1] \in Sections /\ p.from \in Nat \X Nat \X Nat
  BY PanelFields DEF Shows, IsContent
<1>2. source[p.from[1]] \in Dashboard
  BY <1>1, FileType
<1>3. /\ source[p.from[1]].panels \in Seq(AnyPanel)
      /\ p.from[2] \in DOMAIN source[p.from[1]].panels
  BY <1>1, <1>2 DEF Dashboard, IsContent
<1>4. p.from[2] \in Nat \ {0}
  BY <1>3
<1>5. ~IsHeader(p)
  BY <1>4 DEF IsHeader
<1> DEFINE o == source[p.from[1]].panels[p.from[2]]
<1>6. o \in AnyPanel
  BY <1>3
<1>7. o.y \in Nat /\ o.nested \in Seq(LeafPanel)
  BY <1>6, PanelFields
<1>8. p.from[3] # 0 => o.nested[p.from[3]].y \in Nat
  <2>1. p.from[3] # 0 => p.from[3] \in DOMAIN o.nested
    BY <1>1 DEF IsContent
  <2> DEFINE leaves == o.nested
  <2>2. p.from[3] # 0 => leaves[p.from[3]] \in LeafPanel
    <3>1. leaves \in Seq(LeafPanel) /\ (p.from[3] # 0 => p.from[3] \in DOMAIN leaves)
      BY <1>7, <2>1
    <3> HIDE DEF leaves
    <3>2. QED
      BY <3>1
  <2>3. QED
    BY <2>2, LeafIsPanel, PanelFields
<1>9. PanelAt(source, p.from).y \in Nat
  BY <1>7, <1>8 DEF PanelAt
<1>10. QED
  BY <1>1, <1>4, <1>5, <1>9, SectionsArePositions

LEMMA MakeExpandedRowKeepsInv ==
    ASSUME MergeInv, MakeExpandedRow
    PROVE  MergeInv'
<1> DEFINE children == Placed(flat, currentY, FirstChildId)
           header == RowHeader(input, nextId, currentY)
           n == Len(panels)
<1>1. TypeOK /\ DashCoherent /\ PhaseCoherent /\ FlatCoherent /\ PanelsCoherent /\ VarsCoherent
  BY DEF MergeInv
<1>2. /\ phase = "section" /\ input \in Sections /\ input \in Nat
      /\ place \notin DOMAIN dash[input].panels /\ place \in Nat \ {0}
      /\ flat' = <<>> /\ place' = 1
      /\ panels' = (panels \o <<header>>) \o children
      /\ nextId' = FirstChildId + Len(children)
      /\ currentY' = Bottom(children, currentY)
      /\ source' = source /\ dash' = dash /\ merged' = merged
  BY <1>1, SectionsArePositions DEF MakeExpandedRow, TypeOK, TurnTo
<1>3. \/ input = Len(Prefix) /\ phase' = "vars" /\ input' = 1
      \/ input # Len(Prefix) /\ phase' = "section" /\ input' = input + 1
  BY <1>2 DEF MakeExpandedRow, TurnTo
<1>4. /\ flat \in Seq(AnyPanel) /\ panels \in Seq(AnyPanel)
      /\ nextId \in Nat /\ currentY \in Nat /\ nextId = n + 1 /\ n \in Nat
      /\ n = Len(panels)
      /\ FirstChildId = n + 2
  BY <1>1 DEF TypeOK, PanelsCoherent, FirstChildId
<1> HIDE DEF n
<1>5. /\ header \in AnyPanel /\ header.id = n + 1 /\ header.y = currentY
      /\ header.from = <<input, 0, 0>>
      /\ header.placed /\ header.h = 1 /\ header.refs = {}
  <2>1. /\ header \in AnyPanel /\ header.id = nextId /\ header.y = currentY
        /\ header.from = <<input, 0, 0>>
        /\ header.placed /\ header.h = 1 /\ header.refs = {}
    <3>1. input \in Sections /\ nextId \in Nat /\ currentY \in Nat
      BY <1>2, <1>4
    <3>2. QED
      BY <3>1, RowHeaderIs
  <2>2. QED
    BY <1>4, <2>1
<1>6. /\ children \in Seq(AnyPanel) /\ DOMAIN children = DOMAIN flat
      /\ \A k \in DOMAIN flat :
            /\ children[k].id = n + 2 + k - 1
            /\ children[k].from = flat[k].from /\ children[k].refs = flat[k].refs
            /\ children[k].placed = flat[k].placed
            /\ children[k].h = flat[k].h /\ children[k].cols = flat[k].cols
            /\ children[k].placed =>
                 /\ children[k].y = flat[k].y - MinY(flat) + 1 + currentY
                 /\ children[k].y >= currentY + 1
  <2>1. n + 2 \in Nat
    BY <1>4
  <2>2. QED
    BY <1>4, <2>1, PlacedIs
<1>7. /\ Bottom(children, currentY) \in Nat
      /\ Bottom(children, currentY) >= currentY + 1
      /\ \A k \in DOMAIN children :
            children[k].placed => children[k].y + children[k].h <= Bottom(children, currentY)
  BY <1>4, <1>6, BottomIs
<1> HIDE DEF header, children
\* The panels are the old ones, the header and its children.
<1> DEFINE opened == panels \o <<header>>
<1>8. /\ opened \in Seq(AnyPanel) /\ Len(opened) = n + 1
      /\ \A k \in DOMAIN panels : k \in DOMAIN opened /\ opened[k] = panels[k]
      /\ n + 1 \in DOMAIN opened /\ opened[n + 1] = header
      /\ \A k \in DOMAIN opened : k \in DOMAIN panels \/ k = n + 1
  BY <1>4, <1>5
<1>9. PICK P : P = panels' /\ P = opened \o children
  BY <1>2
<1> HIDE DEF opened
<1>10. /\ P \in Seq(AnyPanel) /\ Len(P) = n + 1 + Len(children)
       /\ \A k \in DOMAIN panels : k \in DOMAIN P /\ P[k] = panels[k]
       /\ n + 1 \in DOMAIN P /\ P[n + 1] = header
       /\ \A k \in DOMAIN children :
             n + 1 + k \in DOMAIN P /\ P[n + 1 + k] = children[k]
       /\ \A k \in DOMAIN P :
             \/ k \in DOMAIN panels
             \/ k = n + 1
             \/ k - n - 1 \in DOMAIN children /\ k = n + 1 + (k - n - 1)
  <2>1. /\ P \in Seq(AnyPanel) /\ Len(P) = Len(opened) + Len(children)
        /\ \A k \in DOMAIN opened : k \in DOMAIN P /\ P[k] = opened[k]
        /\ \A k \in DOMAIN children : /\ Len(opened) + k \in DOMAIN P
                                      /\ P[Len(opened) + k] = children[k]
        /\ \A k \in DOMAIN P :
             \/ k \in DOMAIN opened
             \/ k - Len(opened) \in DOMAIN children /\ k = Len(opened) + (k - Len(opened))
    <3>1. opened \in Seq(AnyPanel) /\ children \in Seq(AnyPanel)
      BY <1>6, <1>8
    <3>2. QED
      BY <1>9, <3>1, Concatenation
  <2>2. \A k \in DOMAIN P : k \in Nat /\ k - n - 1 = k - (n + 1)
    BY <1>4, <2>1
  <2>3. QED
    BY <1>8, <2>1, <2>2
\* The old panels are those of the files before, above currentY; the new ones
\* show this file, below it.
<1>11. \A k \in DOMAIN panels :
         /\ panels[k] \in AnyPanel
         /\ panels[k].id = k /\ (IsHeader(panels[k]) \/ Shows(panels[k]))
         /\ panels[k].from[1] \in Sections /\ panels[k].from[1] \in Nat
         /\ panels[k].from[1] < input
         /\ panels[k].y \in Nat /\ panels[k].h \in Nat
         /\ panels[k].placed => panels[k].y + panels[k].h <= currentY
  <2>1. ASSUME NEW k \in DOMAIN panels
        PROVE  /\ panels[k] \in AnyPanel
               /\ panels[k].id = k /\ (IsHeader(panels[k]) \/ Shows(panels[k]))
               /\ panels[k].from[1] \in Sections /\ panels[k].from[1] \in Nat
               /\ panels[k].from[1] < input
               /\ panels[k].y \in Nat /\ panels[k].h \in Nat
               /\ panels[k].placed => panels[k].y + panels[k].h <= currentY
    <3>1. panels[k] \in AnyPanel /\ panels[k] \in ToSet(panels)
      BY <1>4 DEF ToSet
    <3>2. panels[k].id = k /\ IsPlaced(panels[k].from[1]) /\ (IsHeader(panels[k]) \/ Shows(panels[k]))
      BY <1>1 DEF PanelsCoherent
    <3>3. panels[k].from[1] \in Sections
      BY <3>2 DEF IsHeader, Shows, IsContent
    <3>4. panels[k].placed => panels[k].y + panels[k].h <= currentY
      BY <1>1, <3>1 DEF TypeOK
    <3>5. panels[k].from[1] < input
      BY <1>2, <3>2 DEF IsPlaced
    <3>6. QED
      BY <3>1, <3>2, <3>3, <3>4, <3>5, PanelFields, SectionsArePositions
  <2>2. QED
    BY <2>1
<1>12. \A k \in DOMAIN children :
         /\ children[k] \in AnyPanel
         /\ children[k].id = n + 1 + k
         /\ Shows(children[k]) /\ ~IsHeader(children[k])
         /\ children[k].from[1] = input /\ children[k].from[2] # 0
         /\ children[k].y \in Nat /\ children[k].h \in Nat
         /\ PanelAt(source, children[k].from).y \in Nat
         /\ children[k].placed =>
              /\ children[k].y - PanelAt(source, children[k].from).y = 1 + currentY - MinY(flat)
              /\ children[k].y >= currentY + 1
  <2>1. ASSUME NEW k \in DOMAIN children
        PROVE  /\ children[k] \in AnyPanel
               /\ children[k].id = n + 1 + k
               /\ Shows(children[k]) /\ ~IsHeader(children[k])
               /\ children[k].from[1] = input /\ children[k].from[2] # 0
               /\ children[k].y \in Nat /\ children[k].h \in Nat
               /\ PanelAt(source, children[k].from).y \in Nat
               /\ children[k].placed =>
                    /\ children[k].y - PanelAt(source, children[k].from).y = 1 + currentY - MinY(flat)
                    /\ children[k].y >= currentY + 1
    <3>1. /\ Shows(flat[k]) /\ flat[k].y = PanelAt(source, flat[k].from).y
          /\ flat[k].from[1] = input
      BY <1>1, <1>6 DEF FlatCoherent
    <3>2. children[k] \in AnyPanel /\ k \in Nat
      BY <1>6
    <3>3. Shows(children[k])
      BY <1>6, <3>1 DEF Shows
    <3>4. /\ ~IsHeader(children[k]) /\ children[k].from[2] # 0
          /\ PanelAt(source, children[k].from).y \in Nat
      BY <1>1, <3>2, <3>3, ShownIsNoHeader
    <3>5. MinY(flat) \in Nat
      <4>1. flat # <<>>
        BY <1>6
      <4>2. QED
        BY <1>4, <4>1, MinYIs
    <3>6. /\ children[k].id = n + 1 + k
          /\ children[k].placed =>
               /\ children[k].y - PanelAt(source, children[k].from).y = 1 + currentY - MinY(flat)
               /\ children[k].y >= currentY + 1
      <4> DEFINE y0 == PanelAt(source, children[k].from).y
                 m == MinY(flat)
      <4>1. k \in DOMAIN flat /\ n \in Nat /\ currentY \in Nat
        BY <1>4, <1>6
      <4>2. /\ children[k].id = n + 2 + k - 1
            /\ children[k].placed => /\ children[k].y = flat[k].y - m + 1 + currentY
                                     /\ children[k].y >= currentY + 1
        BY <1>6, <4>1
      <4>3. flat[k].y = y0 /\ y0 \in Nat /\ m \in Nat
        BY <1>6, <3>1, <3>4, <3>5
      <4> HIDE DEF y0, m
      <4>4. children[k].placed => children[k].y - y0 = 1 + currentY - m
        BY <4>1, <4>2, <4>3
      <4>5. children[k].id = n + 1 + k
        BY <3>2, <4>1, <4>2
      <4>6. QED
        BY <4>2, <4>4, <4>5 DEF y0, m
    <3>7. QED
      BY <1>6, <3>1, <3>2, <3>3, <3>4, <3>6, PanelFields
  <2>2. QED
    BY <2>1
<1>13. \A j, k \in DOMAIN children : children[j].from = children[k].from => j = k
  BY <1>1, <1>6 DEF FlatCoherent
<1>14. IsHeader(header)
  BY <1>2, <1>5 DEF IsHeader
<1>15. TypeOK'
  <2>1. input' \in Sections
    BY <1>2, <1>3, SectionsArePositions
  <2>2. nextId' \in Nat /\ currentY' \in Nat /\ currentY' >= currentY + 1
    BY <1>2, <1>4, <1>6, <1>7
  <2>3. \A p \in ToSet(P) : p.placed => p.y + p.h <= currentY'
    <3>1. ASSUME NEW k \in DOMAIN P, P[k].placed
          PROVE  P[k].y + P[k].h <= currentY'
      <4>1. CASE k \in DOMAIN panels
        <5>1. P[k] = panels[k]
          BY <1>10, <4>1
        <5>2. panels[k].y + panels[k].h <= currentY
          BY <1>11, <3>1, <4>1, <5>1
        <5>3. panels[k].y \in Nat /\ panels[k].h \in Nat
          BY <1>11, <4>1
        <5>4. panels[k].y + panels[k].h <= currentY'
          <6> DEFINE y == panels[k].y
                     h == panels[k].h
          <6>1. y \in Nat /\ h \in Nat /\ y + h <= currentY
            BY <5>2, <5>3
          <6> HIDE DEF y, h
          <6>2. y + h <= currentY'
            BY <1>4, <2>2, <6>1
          <6>3. QED
            BY <6>2 DEF y, h
        <5>5. QED
          BY <5>1, <5>4
      <4>2. CASE k = n + 1
        BY <1>4, <1>5, <1>10, <2>2, <4>2
      <4>3. CASE k - n - 1 \in DOMAIN children /\ k = n + 1 + (k - n - 1)
        BY <1>2, <1>7, <1>10, <3>1, <4>3
      <4>4. QED
        BY <1>10, <4>1, <4>2, <4>3
    <3>2. QED
      BY <3>1 DEF ToSet
  <2>4. <<>> \in Seq(AnyPanel)
    OBVIOUS
  <2>5. panels' \in Seq(AnyPanel) /\ flat' \in Seq(AnyPanel) /\ place' \in Nat \ {0}
    BY <1>2, <1>9, <1>10, <2>4
  <2>6. /\ source' \in [Sections -> Dashboards] /\ dash' \in [Sections -> Dashboard]
        /\ merged' \in Seq(Variable) /\ phase' \in {"namespace", "section", "vars", "done"}
    BY <1>1, <1>2, <1>3 DEF TypeOK
  <2>7. QED
    BY <1>9, <2>1, <2>2, <2>3, <2>5, <2>6 DEF TypeOK
<1>16. DashCoherent'
  BY <1>1, <1>2, <1>3 DEF DashCoherent, IsNamespaced
<1>17. PhaseCoherent'
  <2>1. dash[input'].panels \in Seq(AnyPanel) /\ dash[input'].vars \in Seq(Variable)
    BY <1>2, <1>15 DEF TypeOK, Dashboard
  <2>2. merged' = merged /\ merged = <<>>
    BY <1>1, <1>2 DEF PhaseCoherent
  <2>3. QED
    BY <1>2, <1>3, <2>1, <2>2 DEF PhaseCoherent
<1>18. FlatCoherent'
  <2>1. ASSUME NEW f \in Nat \X Nat \X Nat, IsContent(f), f[2] < 1
        PROVE  FALSE
    <3>1. source[f[1]] \in Dashboard
      BY <1>1, <2>1, FileType DEF IsContent
    <3>2. source[f[1]].panels \in Seq(AnyPanel)
      BY <3>1 DEF Dashboard
    <3>3. QED
      BY <2>1, <3>2 DEF IsContent
  <2>2. QED
    BY <1>2, <2>1 DEF FlatCoherent, IsContent
<1>19. VarsCoherent'
  <2>1. merged = <<>>
    BY <1>1, <1>2 DEF PhaseCoherent
  <2>2. ASSUME NEW i \in Sections, NEW j \in DOMAIN dash[i].vars, (IsVisited(i, j))'
        PROVE  FALSE
    <3>1. dash[i].vars \in Seq(Variable)
      BY <1>1, SameShape
    <3>2. QED
      BY <1>2, <1>3, <2>2, <3>1, SectionsArePositions DEF IsVisited
  <2>3. VariablesInOrder'
    BY <1>2, <2>1 DEF VariablesInOrder
  <2>4. dash' = dash
    BY <1>2
  <2>5. QED
    BY <2>2, <2>3, <2>4 DEF VarsCoherent
<1>20. \A i \in Sections : (IsPlaced(i))' <=> i <= input
  BY <1>2, <1>3, SectionsArePositions DEF IsPlaced
<1>21. PanelsCoherent'
  <2>1. nextId' = Len(P) + 1
    BY <1>2, <1>4, <1>6, <1>10
  <2>2. ASSUME NEW k \in DOMAIN P
        PROVE  /\ P[k].id = k
               /\ P[k].from[1] \in Sections /\ P[k].from[1] <= input
               /\ IsHeader(P[k]) \/ Shows(P[k])
    <3>1. CASE k \in DOMAIN panels
      BY <1>2, <1>10, <1>11, <1>20, <3>1
    <3>2. CASE k = n + 1
      BY <1>2, <1>5, <1>10, <1>14, <1>20, <3>2
    <3>3. CASE k - n - 1 \in DOMAIN children /\ k = n + 1 + (k - n - 1)
      BY <1>2, <1>10, <1>12, <1>20, <3>3
    <3>4. QED
      BY <1>10, <3>1, <3>2, <3>3
  <2>3. ASSUME NEW j \in DOMAIN P, NEW k \in DOMAIN P
        PROVE  /\ P[j].from = P[k].from => j = k
               /\ P[j].placed /\ P[k].placed => Apart(P[j], P[k])
    <3>1. CASE j \in DOMAIN panels /\ k \in DOMAIN panels
      BY <1>1, <1>10, <3>1 DEF PanelsCoherent
    <3>2. ASSUME NEW l \in DOMAIN P, l \notin DOMAIN panels
          PROVE  /\ P[l] = header /\ l = n + 1
                 \/ /\ l - n - 1 \in DOMAIN children /\ l = n + 1 + (l - n - 1)
                    /\ P[l] = children[l - n - 1]
      BY <1>10, <3>2
    <3>3. ASSUME NEW l \in DOMAIN P, l \notin DOMAIN panels
          PROVE  /\ P[l].from[1] = input
                 /\ P[l].y \in Nat
                 /\ P[l].placed => P[l].y >= currentY
      BY <1>4, <1>5, <1>12, <3>2, <3>3
    <3>4. CASE j \in DOMAIN panels /\ k \notin DOMAIN panels
      <4>1. P[j] = panels[j] /\ panels[j].from[1] < input /\ panels[j].from[1] \in Nat
        BY <1>10, <1>11, <3>4
      <4>2. P[k].from[1] = input
        BY <3>3, <3>4
      <4>3. P[j].placed /\ P[k].placed => P[j].y + P[j].h <= P[k].y
        <5>1. P[j] = panels[j]
          BY <1>10, <3>4
        <5>2. /\ panels[j].y \in Nat /\ panels[j].h \in Nat
              /\ panels[j].placed => panels[j].y + panels[j].h <= currentY
          BY <1>11, <3>4
        <5>3. P[k].y \in Nat /\ (P[k].placed => P[k].y >= currentY)
          BY <3>3, <3>4
        <5>4. QED
          BY <1>4, <5>1, <5>2, <5>3
      <4>4. QED
        BY <1>2, <4>1, <4>2, <4>3 DEF Apart
    <3>5. CASE j \notin DOMAIN panels /\ k \in DOMAIN panels
      <4>1. P[k] = panels[k] /\ panels[k].from[1] < input /\ panels[k].from[1] \in Nat
        BY <1>10, <1>11, <3>5
      <4>2. P[j].from[1] = input
        BY <3>3, <3>5
      <4>3. QED
        BY <1>2, <4>1, <4>2 DEF Apart
    <3>6. CASE j = n + 1 /\ k = n + 1
      BY <1>2, <1>5, <1>10, <1>14, <3>6 DEF Apart
    <3>7. CASE j = n + 1 /\ k - n - 1 \in DOMAIN children /\ k = n + 1 + (k - n - 1)
      <4>1. P[j] = header /\ P[k] = children[k - n - 1]
        BY <1>10, <3>7
      <4>2. P[j].from # P[k].from
        BY <1>5, <1>12, <3>7, <4>1
      <4>3. P[k].placed => P[j].y + P[j].h <= P[k].y
        BY <1>4, <1>5, <1>12, <3>7, <4>1
      <4>4. QED
        BY <1>2, <1>5, <1>12, <1>14, <3>7, <4>1, <4>2, <4>3 DEF Apart
    <3>8. CASE k = n + 1 /\ j - n - 1 \in DOMAIN children /\ j = n + 1 + (j - n - 1)
      <4>1. P[k] = header /\ P[j] = children[j - n - 1]
        BY <1>10, <3>8
      <4>2. P[j].from # P[k].from
        BY <1>5, <1>12, <3>8, <4>1
      <4>3. QED
        BY <1>2, <1>5, <1>12, <1>14, <3>8, <4>1, <4>2 DEF Apart
    <3>9. CASE /\ j - n - 1 \in DOMAIN children /\ j = n + 1 + (j - n - 1)
               /\ k - n - 1 \in DOMAIN children /\ k = n + 1 + (k - n - 1)
      <4>1. P[j] = children[j - n - 1] /\ P[k] = children[k - n - 1]
        BY <1>10, <3>9
      <4>2. P[j].from = P[k].from => j = k
        BY <1>13, <3>9, <4>1
      <4>3. P[j].placed /\ P[k].placed => Apart(P[j], P[k])
        <5> DEFINE p == children[j - n - 1]
                   q == children[k - n - 1]
        <5>1. /\ ~IsHeader(p) /\ ~IsHeader(q)
              /\ p.from[1] = input /\ q.from[1] = input
              /\ p.placed => p.y - PanelAt(source, p.from).y = 1 + currentY - MinY(flat)
              /\ q.placed => q.y - PanelAt(source, q.from).y = 1 + currentY - MinY(flat)
          BY <1>12, <3>9
        <5> HIDE DEF p, q
        <5>2. p.placed /\ q.placed => Apart(p, q)
          BY <1>2, <5>1 DEF Apart
        <5>3. QED
          BY <4>1, <5>2 DEF p, q
      <4>4. QED
        BY <4>2, <4>3
    <3>10. QED
      BY <3>1, <3>2, <3>4, <3>5, <3>6, <3>7, <3>8, <3>9
  <2>4. ASSUME NEW f \in Nat \X Nat \X Nat, f[1] <= input, IsContent(f) \/ IsTop(f)
        PROVE  \E k \in DOMAIN P : P[k].from = f
    <3>1. f[1] \in Sections /\ f[1] \in Nat /\ f[1] <= input
      BY <1>20, <2>4, SectionsArePositions DEF IsContent, IsTop
    <3>2. CASE f[1] < input
      <4>1. IsPlaced(f[1])
        BY <1>2, <3>2 DEF IsPlaced
      <4>2. PICK k \in DOMAIN panels : panels[k].from = f
        BY <1>1, <2>4, <4>1 DEF PanelsCoherent
      <4>3. QED
        BY <1>10, <4>2
    <3>3. CASE f[1] = input /\ IsTop(f)
      BY <1>5, <1>10, <3>3 DEF IsTop
    <3>4. CASE f[1] = input /\ IsContent(f)
      <4>1. f[2] \in DOMAIN dash[input].panels /\ dash[input].panels \in Seq(AnyPanel)
        BY <1>1, <1>2, <3>4, SameShape DEF IsContent
      <4>2. f[2] < place
        <5> DEFINE m == Len(dash[input].panels)
        <5>1. DOMAIN dash[input].panels = 1 .. m /\ m \in Nat
          BY <4>1
        <5>2. place \notin DOMAIN dash[input].panels /\ place \in Nat \ {0}
          BY <1>2
        <5> HIDE DEF m
        <5>3. f[2] \in 1 .. m /\ place \notin 1 .. m
          BY <4>1, <5>1, <5>2
        <5>4. QED
          BY <5>1, <5>2, <5>3
      <4>3. PICK k \in DOMAIN flat : flat[k].from = f
        BY <1>1, <1>2, <3>4, <4>2 DEF FlatCoherent
      <4>4. k \in DOMAIN children /\ children[k].from = f
        BY <1>6, <4>3
      <4>5. n + 1 + k \in DOMAIN P /\ P[n + 1 + k] = children[k]
        BY <1>10, <4>4
      <4>6. QED
        BY <4>4, <4>5
    <3>5. QED
      BY <1>2, <2>4, <3>1, <3>2, <3>3, <3>4
  <2>5. QED
    <3>1. source' = source /\ panels' = P
      BY <1>2, <1>9
    <3>2. \A f \in Nat \X Nat \X Nat :
            (IsPlaced(f[1]))' /\ (IsContent(f) \/ IsTop(f)) =>
                \E k \in DOMAIN P : P[k].from = f
      BY <1>20, <2>4 DEF IsContent, IsTop
    <3>3. (\A f \in Nat \X Nat \X Nat :
            IsPlaced(f[1]) /\ (IsContent(f) \/ IsTop(f)) =>
                \E k \in DOMAIN panels : panels[k].from = f)'
      BY <3>1, <3>2 DEF IsContent, IsTop
    <3>4. (\A k \in DOMAIN panels :
            /\ panels[k].id = k
            /\ IsPlaced(panels[k].from[1])
            /\ IsHeader(panels[k]) \/ Shows(panels[k]))'
      <4>1. ASSUME NEW k \in DOMAIN P
            PROVE  P[k].id = k /\ (IsPlaced(P[k].from[1]))'
        BY <1>20, <2>2, <4>1
      <4>2. ASSUME NEW k \in DOMAIN P
            PROVE  IsHeader(P[k]) \/ (Shows(P[k]))'
        BY <2>2, <3>1, SameSource
      <4>3. QED
        BY <3>1, <4>1, <4>2 DEF IsHeader
    <3>5. (\A j, k \in DOMAIN panels :
            /\ panels[j].from = panels[k].from => j = k
            /\ panels[j].placed /\ panels[k].placed => Apart(panels[j], panels[k]))'
      BY <2>3, <3>1 DEF Apart, IsHeader
    <3>6. nextId' = Len(panels') + 1
      BY <2>1, <3>1
    <3>7. QED
      BY <3>3, <3>4, <3>5, <3>6 DEF PanelsCoherent
<1>22. QED
  BY <1>15, <1>16, <1>17, <1>18, <1>19, <1>21 DEF MergeInv

-----------------------------------------------------------------------------
(* Variables: a name and the references to it are changed alike.            *)

NewName(i, olds, name) == IF name \in olds THEN <<Prefix[i]>> \o name ELSE name

LEMMA ReferenceRewritten ==
    ASSUME NEW i \in Sections, NEW olds, NEW refs \in SUBSET Reference,
           NEW r \in Rewritten(i, olds, refs)
    PROVE  \E o \in refs : r.name = NewName(i, olds, o.name)
<1>1. PICK o \in refs : r = IF \E old \in olds : Matches(old, o)
                            THEN [o EXCEPT !.name = <<Prefix[i]>> \o @] ELSE o
  BY DEF Rewritten
<1>2. (\E old \in olds : Matches(old, o)) <=> o.name \in olds
  BY DEF Matches
<1>3. o \in Reference
  OBVIOUS
<1>4. [o EXCEPT !.name = <<Prefix[i]>> \o @].name = <<Prefix[i]>> \o o.name
  BY <1>3, RewrittenReference
<1>5. r.name = NewName(i, olds, o.name)
  BY <1>1, <1>2, <1>4 DEF NewName
<1>6. QED
  BY <1>5

LEMMA NewNamesDiffer ==
    ASSUME NEW i \in Sections, NEW olds, NEW m \in Names, NEW n \in Names,
           NewName(i, olds, <<m>>) = NewName(i, olds, <<n>>)
    PROVE  m = n
<1>1. /\ <<Prefix[i]>> \o <<m>> = <<Prefix[i], m>>
      /\ <<Prefix[i]>> \o <<n>> = <<Prefix[i], n>>
  BY PrefixedName
<1>2. CASE <<m>> \in olds /\ <<n>> \in olds
  <2>1. <<Prefix[i], m>> = <<Prefix[i], n>>
    BY <1>1, <1>2 DEF NewName
  <2>2. QED
    BY <2>1
<1>3. CASE <<m>> \notin olds /\ <<n>> \notin olds
  <2>1. <<m>> = <<n>>
    BY <1>3 DEF NewName
  <2>2. QED
    BY <2>1
<1>4. <<Prefix[i], m>> # <<n>> /\ <<Prefix[i], n>> # <<m>>
  <2>1. Len(<<Prefix[i], m>>) = 2 /\ Len(<<Prefix[i], n>>) = 2
    OBVIOUS
  <2>2. Len(<<m>>) = 1 /\ Len(<<n>>) = 1
    OBVIOUS
  <2>3. QED
    BY <2>1, <2>2
<1>5. QED
  BY <1>1, <1>2, <1>3, <1>4 DEF NewName

\* The variables of a file, with and without the prefix.
LEMMA VarsAre ==
    ASSUME TypeOK, DashCoherent, NEW i \in Sections, IsNamespaced(i),
           NEW k \in DOMAIN dash[i].vars
    PROVE  LET v == source[i].vars[k]
               olds == Renamed(i, source[i])
           IN  /\ k \in DOMAIN source[i].vars /\ k \in Nat \ {0}
               /\ v \in Variable /\ Plain(v) /\ \A r \in v.refs : Plain(r)
               /\ v.refs \in SUBSET Reference
               /\ dash[i].vars[k] \in Variable
               /\ dash[i].vars[k].name = NewName(i, olds, v.name)
               /\ dash[i].vars[k].refs = Rewritten(i, olds, v.refs)
<1> DEFINE v == source[i].vars[k]
           olds == Renamed(i, source[i])
<1>1. source[i] \in Dashboard /\ PlainDashboard(source[i])
  BY FileType, FilesAreDashboards
<1>2. /\ k \in DOMAIN source[i].vars /\ source[i].vars \in Seq(Variable)
      /\ v \in ToSet(source[i].vars)
  BY <1>1, SameShape DEF Dashboard, ToSet
<1>3. v \in Variable /\ v.refs \in SUBSET Reference /\ k \in Nat \ {0}
  <2>1. v \in Variable /\ k \in Nat \ {0}
    BY <1>2
  <2> HIDE DEF v
  <2>2. QED
    BY <2>1 DEF Variable
<1>4. Plain(v) /\ \A r \in v.refs : Plain(r)
  BY <1>1, <1>2 DEF PlainDashboard
<1>5. dash[i].vars[k] = RewrittenVar(i, olds, v)
  BY <1>1, <1>2, NamespacedIs DEF DashCoherent
<1> HIDE DEF v, olds
<1>6. /\ dash[i].vars[k] \in Variable
      /\ dash[i].vars[k].name = NewName(i, olds, v.name)
      /\ dash[i].vars[k].refs = Rewritten(i, olds, v.refs)
  BY <1>3, <1>5, RewrittenVarIs DEF NewName
<1>7. QED
  BY <1>2, <1>3, <1>4, <1>6 DEF v, olds

LEMMA DashIsOrdered ==
    ASSUME TypeOK, DashCoherent, NEW i \in Sections, IsNamespaced(i)
    PROVE  Ordered(dash[i].vars)
<1> DEFINE vs == source[i].vars
           ws == dash[i].vars
           olds == Renamed(i, source[i])
<1>1. SUFFICES ASSUME NEW k \in DOMAIN ws, NEW r \in ws[k].refs,
                      NEW u \in DOMAIN ws, ws[u].name = r.name
               PROVE  \E j \in 1 .. k - 1 : ws[j].name = r.name
  BY DEF Ordered, ToSet
<1>2. /\ k \in DOMAIN vs /\ vs[k].refs \in SUBSET Reference
      /\ \A o \in vs[k].refs : Plain(o)
      /\ ws[k].refs = Rewritten(i, olds, vs[k].refs)
  BY <1>1, VarsAre
<1>3. PICK o \in vs[k].refs : r.name = NewName(i, olds, o.name)
  BY <1>1, <1>2, ReferenceRewritten
<1>4. u \in DOMAIN vs /\ Plain(vs[u]) /\ ws[u].name = NewName(i, olds, vs[u].name)
  BY <1>1, VarsAre
<1>5. o.name = vs[u].name
  <2>1. PICK m \in Names : o.name = <<m>>
    BY <1>2, <1>3 DEF Plain
  <2>2. PICK n \in Names : vs[u].name = <<n>>
    BY <1>4 DEF Plain
  <2>3. NewName(i, olds, <<m>>) = NewName(i, olds, <<n>>)
    BY <1>1, <1>3, <1>4, <2>1, <2>2
  <2> HIDE DEF olds
  <2>4. m = n
    BY <2>3, NewNamesDiffer
  <2>5. QED
    BY <2>1, <2>2, <2>4
<1>6. Ordered(vs)
  BY FileType, FilesAreDashboards
<1>7. PICK j \in 1 .. k - 1 : vs[j].name = o.name
  BY <1>2, <1>4, <1>5, <1>6 DEF Ordered, ToSet
<1>8. j \in DOMAIN ws
  <2>1. ws \in Seq(Variable)
    BY SameShape
  <2>2. QED
    BY <1>1, <1>7, <2>1
<1>9. ws[j].name = NewName(i, olds, vs[j].name)
  BY <1>8, VarsAre
<1>10. QED
  BY <1>3, <1>7, <1>9

LEMMA MergeVarKeepsInv ==
    ASSUME MergeInv, MergeVar
    PROVE  MergeInv'
<1> DEFINE v == dash[input].vars[place]
           n == Len(merged)
<1>1. TypeOK /\ DashCoherent /\ PhaseCoherent /\ FlatCoherent /\ PanelsCoherent /\ VarsCoherent
  BY DEF MergeInv
<1>2. /\ phase = "vars" /\ input \in Sections /\ input \in Nat /\ IsNamespaced(input)
      /\ place \in DOMAIN dash[input].vars /\ place \in Nat \ {0} /\ place' = place + 1
      /\ source' = source /\ dash' = dash /\ phase' = phase /\ input' = input
      /\ flat' = flat /\ panels' = panels /\ nextId' = nextId /\ currentY' = currentY
      /\ merged' = IF Seen(v) THEN merged ELSE Append(merged, v)
  BY <1>1, SectionsArePositions DEF MergeVar, TypeOK, IsNamespaced
<1>3. v \in Variable /\ merged \in Seq(Variable) /\ n \in Nat /\ n = Len(merged)
  BY <1>1, <1>2, VarsAre DEF TypeOK
<1> HIDE DEF v, n
<1>4. TypeOK'
  BY <1>1, <1>2, <1>3 DEF TypeOK
<1>5. DashCoherent'
  BY <1>1, <1>2 DEF DashCoherent, IsNamespaced
<1>6. PhaseCoherent'
  <2>1. dash[input].vars \in Seq(Variable)
    BY <1>1, <1>2, SameShape
  <2>2. QED
    BY <1>1, <1>2, <2>1 DEF PhaseCoherent
<1>7. FlatCoherent'
  <2>1. flat = <<>>
    BY <1>1, <1>2 DEF PhaseCoherent
  <2>2. QED
    BY <1>2, <2>1 DEF FlatCoherent
<1>8. PanelsCoherent'
  BY <1>1, <1>2, SamePanels DEF IsPlaced
\* Every name met so far is in the list.
<1>9. \A i \in Sections : \A j \in DOMAIN dash[i].vars :
        (IsVisited(i, j))' => IsVisited(i, j) \/ (i = input /\ j = place)
  <2>1. ASSUME NEW i \in Sections, NEW j \in DOMAIN dash[i].vars, (IsVisited(i, j))'
        PROVE  IsVisited(i, j) \/ (i = input /\ j = place)
    <3>1. i \in Nat /\ dash[i].vars \in Seq(Variable)
      BY <1>1, SameShape, SectionsArePositions
    <3>2. j \in Nat
      BY <3>1
    <3>3. QED
      BY <1>2, <2>1, <3>2 DEF IsVisited
  <2>2. QED
    BY <2>1
<1>10. CASE Seen(v)
  <2>1. merged' = merged /\ dash' = dash
    BY <1>2, <1>10
  <2>2. VariablesInOrder'
    <3>1. VariablesInOrder
      BY <1>1 DEF VarsCoherent
    <3>2. QED
      BY <2>1, <3>1 DEF VariablesInOrder, FirstOfItsName
  <2>3. \E m \in DOMAIN merged : merged[m].name = v.name
    BY <1>10 DEF Seen, ToSet
  <2>4. VarsCoherent'
    BY <1>1, <1>2, <1>9, <2>1, <2>2, <2>3 DEF VarsCoherent, v
  <2>5. QED
    BY <1>4, <1>5, <1>6, <1>7, <1>8, <2>4 DEF MergeInv
<1>11. CASE ~Seen(v)
  <2>1. PICK M : M = merged' /\ M = Append(merged, v)
    BY <1>2, <1>11
  <2>2. /\ M \in Seq(Variable) /\ Len(M) = n + 1
        /\ \A m \in DOMAIN merged : m \in DOMAIN M /\ M[m] = merged[m]
        /\ n + 1 \in DOMAIN M /\ M[n + 1] = v
        /\ \A m \in DOMAIN M : m \in Nat /\ (m \in DOMAIN merged \/ m = n + 1)
    BY <1>3, <2>1
  <2>3. \A m \in DOMAIN merged : merged[m].name # v.name
    BY <1>11 DEF Seen, ToSet
  <2>4. \A i \in Sections : \A j \in DOMAIN dash[i].vars :
          IsVisited(i, j) => \E m \in DOMAIN merged : merged[m].name = dash[i].vars[j].name
    BY <1>1 DEF VarsCoherent
  <2>5. ASSUME NEW m \in DOMAIN M, NEW l \in DOMAIN M, M[l].name = M[m].name
        PROVE  l = m
    <3>1. CASE m \in DOMAIN merged /\ l \in DOMAIN merged
      BY <1>1, <2>2, <2>5, <3>1 DEF VarsCoherent, VariablesInOrder
    <3>2. QED
      BY <2>2, <2>3, <2>5, <3>1
  <2>6. FirstOfItsName(input, place)
    <3>1. ASSUME NEW k \in 1 .. input, NEW l \in DOMAIN dash[k].vars, k < input \/ l < place
          PROVE  dash[k].vars[l].name # dash[input].vars[place].name
      <4>1. k \in Sections
        BY <1>2, SectionsArePositions
      <4>2. IsVisited(k, l)
        BY <1>2, <3>1 DEF IsVisited
      <4>3. QED
        BY <2>3, <2>4, <4>1, <4>2 DEF v
    <3>2. QED
      BY <3>1 DEF FirstOfItsName
  <2>7. ASSUME NEW r \in v.refs, r.name \in {w.name : w \in ToSet(dash[input].vars)}
        PROVE  \E l \in 1 .. n : M[l].name = r.name
    <3>1. PICK j \in 1 .. place - 1 : dash[input].vars[j].name = r.name
      <4>1. Ordered(dash[input].vars)
        BY <1>1, <1>2, DashIsOrdered
      <4>2. QED
        BY <1>2, <2>7, <4>1 DEF Ordered, v
    <3>2. j \in DOMAIN dash[input].vars
      <4>1. dash[input].vars \in Seq(Variable)
        BY <1>1, <1>2, SameShape
      <4>2. QED
        BY <1>2, <4>1
    <3>3. IsVisited(input, j)
      BY <1>2 DEF IsVisited
    <3>4. PICK l \in DOMAIN merged : merged[l].name = r.name
      BY <1>2, <2>4, <3>1, <3>2, <3>3
    <3>5. QED
      BY <1>3, <2>2, <3>4
  <2>8. ASSUME NEW m \in DOMAIN M
        PROVE  \E i \in Sections : \E j \in DOMAIN dash[i].vars :
                 /\ M[m] = dash[i].vars[j]
                 /\ FirstOfItsName(i, j)
                 /\ \A r \in M[m].refs :
                      r.name \in {w.name : w \in ToSet(dash[i].vars)} =>
                        \E l \in 1 .. m - 1 : M[l].name = r.name
    <3>1. CASE m \in DOMAIN merged
      <4>0. PICK i \in Sections : \E j \in DOMAIN dash[i].vars :
              /\ merged[m] = dash[i].vars[j]
              /\ FirstOfItsName(i, j)
              /\ \A r \in merged[m].refs :
                   r.name \in {w.name : w \in ToSet(dash[i].vars)} =>
                     \E l \in 1 .. m - 1 : merged[l].name = r.name
        BY <1>1, <3>1 DEF VarsCoherent, VariablesInOrder
      <4>1. PICK j \in DOMAIN dash[i].vars :
              /\ merged[m] = dash[i].vars[j]
              /\ FirstOfItsName(i, j)
              /\ \A r \in merged[m].refs :
                   r.name \in {w.name : w \in ToSet(dash[i].vars)} =>
                     \E l \in 1 .. m - 1 : merged[l].name = r.name
        BY <4>0
      <4>2. \A l \in 1 .. m - 1 : l \in DOMAIN merged
        BY <1>3, <3>1
      <4>3. M[m] = merged[m] /\ \A l \in 1 .. m - 1 : M[l] = merged[l]
        BY <2>2, <3>1, <4>2
      <4>4. QED
        BY <4>1, <4>3
    <3>2. CASE m = n + 1
      <4>1. M[m] = v /\ v = dash[input].vars[place] /\ m - 1 = n
        BY <1>3, <2>2, <3>2 DEF v
      <4>2. QED
        BY <1>2, <2>6, <2>7, <4>1
    <3>3. QED
      BY <2>2, <3>1, <3>2
  <2>9. VariablesInOrder'
    <3>1. merged' = M /\ dash' = dash
      BY <1>2, <2>1
    <3>2. QED
      BY <3>1, <2>5, <2>8 DEF VariablesInOrder, FirstOfItsName
  <2>10. VarsCoherent'
    <3>1. \A i \in Sections : \A j \in DOMAIN dash[i].vars :
            (IsVisited(i, j))' => \E m \in DOMAIN M : M[m].name = dash[i].vars[j].name
      BY <1>9, <2>2, <2>4 DEF v
    <3>2. merged' = M /\ dash' = dash
      BY <1>2, <2>1
    <3>3. QED
      BY <2>9, <3>1, <3>2 DEF VarsCoherent
  <2>11. QED
    BY <1>4, <1>5, <1>6, <1>7, <1>8, <2>10 DEF MergeInv
<1>12. QED
  BY <1>10, <1>11

LEMMA NextVarsKeepsInv ==
    ASSUME MergeInv, NextVars
    PROVE  MergeInv'
<1>1. TypeOK /\ DashCoherent /\ PhaseCoherent /\ FlatCoherent /\ PanelsCoherent /\ VarsCoherent
  BY DEF MergeInv
<1>2. /\ phase = "vars" /\ input \in Sections /\ input \in Nat
      /\ place \notin DOMAIN dash[input].vars /\ place \in Nat \ {0} /\ place' = 1
      /\ source' = source /\ dash' = dash /\ flat' = flat /\ panels' = panels
      /\ nextId' = nextId /\ currentY' = currentY /\ merged' = merged
      /\ \/ input = Len(Prefix) /\ phase' = "done" /\ input' = 1
         \/ input # Len(Prefix) /\ phase' = "vars" /\ input' = input + 1
  BY <1>1, SectionsArePositions DEF NextVars, TurnTo, TypeOK
<1>3. input' \in Sections
  BY <1>2, SectionsArePositions
<1>4. TypeOK'
  BY <1>1, <1>2, <1>3 DEF TypeOK
<1>5. DashCoherent'
  BY <1>1, <1>2 DEF DashCoherent, IsNamespaced
<1>6. PhaseCoherent'
  <2>1. dash[input'].vars \in Seq(Variable)
    BY <1>1, <1>3, SameShape
  <2>2. QED
    BY <1>1, <1>2, <2>1 DEF PhaseCoherent
<1>7. FlatCoherent'
  <2>1. flat = <<>>
    BY <1>1, <1>2 DEF PhaseCoherent
  <2>2. QED
    BY <1>2, <2>1 DEF FlatCoherent
<1>8. PanelsCoherent'
  BY <1>1, <1>2, SamePanels DEF IsPlaced
<1>9. ASSUME NEW i \in Sections, NEW j \in DOMAIN dash[i].vars, (IsVisited(i, j))'
      PROVE  IsVisited(i, j)
  <2>1. /\ i \in Nat /\ i <= Len(Prefix) /\ dash[i].vars \in Seq(Variable)
        /\ j \in Nat \ {0} /\ j <= Len(dash[i].vars)
    BY <1>1, SameShape, SectionsArePositions
  <2>2. i = input => j < place
    BY <1>2, <2>1
  <2>3. i <= input
    BY <1>2, <1>9, <2>1, SectionsArePositions DEF IsVisited
  <2>4. QED
    BY <1>2, <2>1, <2>2, <2>3 DEF IsVisited
<1>10. VarsCoherent'
  BY <1>1, <1>2, <1>9 DEF VarsCoherent, VariablesInOrder, FirstOfItsName
<1>11. QED
  BY <1>4, <1>5, <1>6, <1>7, <1>8, <1>10 DEF MergeInv

\* main is a sequence of loops; the invariant says what each of them has done
\* so far.
THEOREM MergeInvariant == Spec => []MergeInv
<1>1. MergeInv /\ [Next]_vars => MergeInv'
  <2> SUFFICES ASSUME MergeInv, [Next]_vars PROVE MergeInv'
    OBVIOUS
  <2>1. CASE NamespaceVars
    BY <2>1, NamespaceVarsKeepsInv
  <2>2. CASE FlattenPanel
    BY <2>2, FlattenPanelKeepsInv
  <2>3. CASE MakeExpandedRow
    BY <2>3, MakeExpandedRowKeepsInv
  <2>4. CASE MergeVar
    BY <2>4, MergeVarKeepsInv
  <2>5. CASE NextVars
    BY <2>5, NextVarsKeepsInv
  <2>6. CASE UNCHANGED vars
    <3>1. TypeOK'
      BY <2>6 DEF vars, MergeInv, TypeOK
    <3>2. DashCoherent' /\ PhaseCoherent'
      BY <2>6 DEF vars, MergeInv, DashCoherent, IsNamespaced, PhaseCoherent
    <3>3. FlatCoherent'
      <4>1. /\ source' = source /\ flat' = flat /\ input' = input /\ place' = place
            /\ phase' = phase /\ FlatCoherent
        BY <2>6 DEF vars, MergeInv
      <4>2. QED
        BY <4>1, SameSource DEF FlatCoherent
    <3>4. PanelsCoherent'
      BY <2>6, SamePanels DEF vars, MergeInv, IsPlaced
    <3>5. VarsCoherent'
      BY <2>6 DEF vars, MergeInv, VarsCoherent, VariablesInOrder, FirstOfItsName,
                  IsVisited
    <3>6. QED
      BY <3>1, <3>2, <3>3, <3>4, <3>5 DEF MergeInv
  <2>7. QED
    BY <2>1, <2>2, <2>3, <2>4, <2>5, <2>6 DEF Next
<1>2. QED
  BY InitMergeInv, <1>1, PTL DEF Spec

\* The types of the variables, and that no panel reaches below currentY.
THEOREM MergeTypeCorrect == Spec => []TypeOK
<1>1. MergeInv => TypeOK
  BY DEF MergeInv
<1>2. QED
  BY <1>1, MergeInvariant, PTL

\* No two panels of the merged dashboard have one id, rows included.
THEOREM MergedIdsAreUnique == Spec => []IdsAreUnique
<1>1. MergeInv => IdsAreUnique
  <2> SUFFICES ASSUME MergeInv PROVE IdsAreUnique
    OBVIOUS
  <2>1. nextId = Len(panels) + 1 /\ \A k \in DOMAIN panels : panels[k].id = k
    BY DEF MergeInv, PanelsCoherent
  <2>2. panels \in Seq(AnyPanel)
    BY DEF MergeInv, TypeOK
  <2>3. QED
    BY <2>1, <2>2 DEF IdsAreUnique
<1>2. QED
  BY <1>1, MergeInvariant, PTL

-----------------------------------------------------------------------------
(* Every panel is shown, and none is covered.                               *)

LEMMA WantedIs ==
    ASSUME TypeOK, NEW i \in Sections, NEW f
    PROVE  f \in Wanted(i) <=>
             f \in Nat \X Nat \X Nat /\ f[1] = i /\ (IsTop(f) \/ IsContent(f))
<1> DEFINE ps   == source[i].panels
           rows == {k \in DOMAIN ps : ps[k].row}
<1>1. i \in Nat /\ ps \in Seq(AnyPanel)
  BY FileType, SectionsArePositions DEF Dashboard
<1>2. ASSUME NEW k \in DOMAIN ps
      PROVE  /\ k \in Nat \ {0} /\ ps[k].row \in BOOLEAN
             /\ \A n \in DOMAIN ps[k].nested : n \in Nat \ {0}
  <2>1. ps[k] \in AnyPanel /\ k \in Nat \ {0}
    BY <1>1
  <2>2. ps[k].nested \in Seq(LeafPanel) /\ ps[k].row \in BOOLEAN
    BY <2>1, PanelFields
  <2>3. QED
    BY <2>1, <2>2
<1>3. f \in Wanted(i) <=>
        \/ f = <<i, 0, 0>>
        \/ \E k \in DOMAIN ps : ~ps[k].row /\ f = <<i, k, 0>>
        \/ \E k \in DOMAIN ps :
             ps[k].row /\ \E n \in DOMAIN ps[k].nested : f = <<i, k, n>>
  <2> DEFINE B(k) == {<<i, k, n>> : n \in DOMAIN ps[k].nested}
  <2>1. Wanted(i) = {<<i, 0, 0>>} \cup {<<i, k, 0>> : k \in DOMAIN ps \ rows}
                      \cup UNION {B(k) : k \in rows}
    BY DEF Wanted
  <2>2. f \in UNION {B(k) : k \in rows} <=> \E k \in rows : f \in B(k)
    <3> HIDE DEF B, rows
    <3>1. QED
      OBVIOUS
  <2>3. \A k \in rows : f \in B(k) <=> \E n \in DOMAIN ps[k].nested : f = <<i, k, n>>
    OBVIOUS
  <2>4. f \in {<<i, k, 0>> : k \in DOMAIN ps \ rows} <=>
          \E k \in DOMAIN ps : ~ps[k].row /\ f = <<i, k, 0>>
    BY <1>2
  <2> HIDE DEF B
  <2>5. QED
    BY <2>1, <2>2, <2>3, <2>4
<1>4. ASSUME f \in Wanted(i)
      PROVE  f \in Nat \X Nat \X Nat /\ f[1] = i /\ (IsTop(f) \/ IsContent(f))
  <2>1. CASE f = <<i, 0, 0>>
    BY <1>1, <2>1 DEF IsTop
  <2>2. CASE \E k \in DOMAIN ps : ~ps[k].row /\ f = <<i, k, 0>>
    BY <1>1, <1>2, <2>2 DEF IsContent
  <2>3. CASE \E k \in DOMAIN ps :
               ps[k].row /\ \E n \in DOMAIN ps[k].nested : f = <<i, k, n>>
    BY <1>1, <1>2, <2>3 DEF IsContent
  <2>4. QED
    BY <1>3, <1>4, <2>1, <2>2, <2>3
<1>5. ASSUME f \in Nat \X Nat \X Nat, f[1] = i, IsTop(f) \/ IsContent(f)
      PROVE  f \in Wanted(i)
  <2>1. f = <<i, f[2], f[3]>>
    BY <1>5
  <2>2. CASE IsTop(f)
    BY <1>3, <2>1, <2>2 DEF IsTop
  <2>3. CASE IsContent(f) /\ ps[f[2]].row
    <3>1. f[2] \in DOMAIN ps /\ f[3] \in DOMAIN ps[f[2]].nested
      BY <1>5, <2>3 DEF IsContent
    <3>2. QED
      BY <1>3, <2>1, <2>3, <3>1
  <2>4. CASE IsContent(f) /\ ~ps[f[2]].row
    <3>1. f[2] \in DOMAIN ps /\ f[3] = 0
      BY <1>5, <2>4 DEF IsContent
    <3>2. QED
      BY <1>3, <2>1, <2>4, <3>1
  <2>5. QED
    BY <1>5, <2>2, <2>3, <2>4
<1>6. QED
  BY <1>4, <1>5

LEMMA PanelsAreOnce == MergeInv => OncePerPanel
<1> SUFFICES ASSUME MergeInv PROVE OncePerPanel
  OBVIOUS
<1>1. TypeOK /\ PanelsCoherent /\ panels \in Seq(AnyPanel)
  BY DEF MergeInv, TypeOK
<1>2. \A j, k \in DOMAIN panels : panels[j].from = panels[k].from => j = k
  BY <1>1 DEF PanelsCoherent
<1>3. ASSUME phase \in {"vars", "done"}, NEW f
      PROVE  f \in {p.from : p \in ToSet(panels)} <=> \E i \in Sections : f \in Wanted(i)
  <2>1. ASSUME NEW k \in DOMAIN panels
        PROVE  \E i \in Sections : panels[k].from \in Wanted(i)
    <3>1. panels[k].from \in Nat \X Nat \X Nat
      BY <1>1, PanelFields
    <3>2. IsHeader(panels[k]) \/ Shows(panels[k])
      BY <1>1 DEF PanelsCoherent
    <3>3. IsTop(panels[k].from) \/ IsContent(panels[k].from)
      <4>1. IsHeader(panels[k]) => IsTop(panels[k].from)
        BY <3>1 DEF IsHeader, IsTop
      <4>2. QED
        BY <3>2, <4>1 DEF Shows
    <3>4. panels[k].from[1] \in Sections
      BY <3>3 DEF IsTop, IsContent
    <3>5. QED
      BY <1>1, <3>1, <3>3, <3>4, WantedIs
  <2>2. ASSUME NEW i \in Sections, f \in Wanted(i)
        PROVE  \E k \in DOMAIN panels : panels[k].from = f
    <3>1. f \in Nat \X Nat \X Nat /\ (IsTop(f) \/ IsContent(f))
      BY <1>1, <2>2, WantedIs
    <3>2. IsPlaced(f[1])
      BY <1>3 DEF IsPlaced
    <3>3. QED
      BY <1>1, <3>1, <3>2 DEF PanelsCoherent
  <2>3. QED
    BY <2>1, <2>2 DEF ToSet
<1>4. QED
  <2>1. phase \in {"vars", "done"} =>
          {p.from : p \in ToSet(panels)} = UNION {Wanted(i) : i \in Sections}
    BY <1>3
  <2>2. QED
    BY <1>2, <2>1 DEF OncePerPanel

LEMMA ContentIsNoHeader ==
    ASSUME TypeOK, NEW p \in AnyPanel, IsContent(p.from)
    PROVE  ~IsHeader(p)
<1>1. p.from[1] \in Sections
  BY DEF IsContent
<1>2. source[p.from[1]] \in Dashboard
  BY <1>1, FileType
<1>3. p.from[2] \in Nat \ {0}
  BY <1>2 DEF Dashboard, IsContent
<1>4. QED
  BY <1>3 DEF IsHeader

\* Two panels of one section, neither of them its header, are moved together.
LEMMA MovedTogether ==
    ASSUME MergeInv, NEW j \in DOMAIN panels, NEW k \in DOMAIN panels, j # k,
           panels[j].from[1] = panels[k].from[1],
           ~IsHeader(panels[j]), ~IsHeader(panels[k])
    PROVE  Overlap(panels[j], panels[k]) <=>
               Overlap(PanelAt(source, panels[j].from), PanelAt(source, panels[k].from))
<1> DEFINE p == panels[j]
           q == panels[k]
           sp == PanelAt(source, p.from)
           sq == PanelAt(source, q.from)
<1>1. TypeOK /\ PanelsCoherent /\ p \in AnyPanel /\ q \in AnyPanel
  BY DEF MergeInv, TypeOK
<1>2. p.y \in Nat /\ p.h \in Nat /\ q.y \in Nat /\ q.h \in Nat
  BY <1>1, PanelFields
<1>3. /\ p.placed /\ q.placed => Apart(p, q)
      /\ IsHeader(p) \/ Shows(p)
      /\ IsHeader(q) \/ Shows(q)
  BY <1>1 DEF PanelsCoherent
<1>4. p.from[1] = q.from[1] /\ ~IsHeader(p) /\ ~IsHeader(q)
  OBVIOUS
<1> HIDE DEF p, q, sp, sq
<1>5. Shows(p) /\ Shows(q) /\ sp.y \in Nat /\ sq.y \in Nat
  BY <1>1, <1>3, <1>4, ShownIsNoHeader DEF sp, sq
<1>6. /\ p.placed = sp.placed /\ p.h = sp.h /\ p.cols = sp.cols
      /\ q.placed = sq.placed /\ q.h = sq.h /\ q.cols = sq.cols
  BY <1>5 DEF Shows, sp, sq
<1>7. p.placed /\ q.placed => p.y - sp.y = q.y - sq.y
  BY <1>3, <1>4 DEF Apart, sp, sq
<1>8. p.placed /\ q.placed =>
        /\ p.y < q.y + q.h <=> sp.y < sq.y + sq.h
        /\ q.y < p.y + p.h <=> sq.y < sp.y + sp.h
  BY <1>2, <1>5, <1>6, <1>7
<1>9. Overlap(p, q) <=> Overlap(sp, sq)
  BY <1>6, <1>8 DEF Overlap
<1>10. QED
  BY <1>9 DEF p, q, sp, sq

\* A panel overlaps no header, and none of another section.
LEMMA OverlapIsInSection ==
    ASSUME MergeInv, NEW j \in DOMAIN panels, NEW k \in DOMAIN panels, j # k,
           Overlap(panels[j], panels[k])
    PROVE  /\ panels[j].from[1] = panels[k].from[1]
           /\ ~IsHeader(panels[j]) /\ ~IsHeader(panels[k])
<1> DEFINE p == panels[j]
           q == panels[k]
<1>1. TypeOK /\ PanelsCoherent /\ p \in AnyPanel /\ q \in AnyPanel
  BY DEF MergeInv, TypeOK
<1>2. /\ p.y \in Nat /\ p.h \in Nat /\ q.y \in Nat /\ q.h \in Nat
      /\ p.from \in Nat \X Nat \X Nat /\ q.from \in Nat \X Nat \X Nat
  BY <1>1, PanelFields
<1>3. p.placed /\ q.placed /\ p.y < q.y + q.h /\ q.y < p.y + p.h
  BY DEF Overlap
<1>4. Apart(p, q) /\ Apart(q, p) /\ p.from # q.from
  BY <1>1, <1>3 DEF PanelsCoherent
<1> HIDE DEF p, q
<1>5. p.from[1] = q.from[1]
  <2>1. ~(p.from[1] < q.from[1])
    BY <1>2, <1>3, <1>4 DEF Apart
  <2>2. ~(q.from[1] < p.from[1])
    BY <1>2, <1>3, <1>4 DEF Apart
  <2>3. p.from[1] \in Nat /\ q.from[1] \in Nat
    BY <1>2
  <2>4. QED
    BY <2>1, <2>2, <2>3
<1>6. ~IsHeader(p) /\ ~IsHeader(q)
  <2>1. ~(IsHeader(p) /\ IsHeader(q))
    BY <1>4, <1>5 DEF IsHeader
  <2>2. ~(IsHeader(p) /\ ~IsHeader(q))
    BY <1>2, <1>3, <1>4, <1>5 DEF Apart
  <2>3. ~(IsHeader(q) /\ ~IsHeader(p))
    BY <1>2, <1>3, <1>4, <1>5 DEF Apart
  <2>4. QED
    BY <2>1, <2>2, <2>3
<1>7. QED
  BY <1>5, <1>6 DEF p, q

LEMMA LayoutIsKept == MergeInv => PlacesAreKept
<1> SUFFICES ASSUME MergeInv,
                    NEW j \in DOMAIN panels, NEW k \in DOMAIN panels, j # k
             PROVE  LET f == panels[j].from
                        g == panels[k].from
                    IN  Overlap(panels[j], panels[k]) <=>
                          /\ f[1] = g[1] /\ IsContent(f) /\ IsContent(g)
                          /\ Overlap(PanelAt(source, f), PanelAt(source, g))
  BY DEF PlacesAreKept
<1> DEFINE f == panels[j].from
           g == panels[k].from
<1>1. /\ TypeOK /\ PanelsCoherent
      /\ panels[j] \in AnyPanel /\ panels[k] \in AnyPanel
  BY DEF MergeInv, TypeOK
<1>2. ASSUME Overlap(panels[j], panels[k])
      PROVE  /\ f[1] = g[1] /\ IsContent(f) /\ IsContent(g)
             /\ Overlap(PanelAt(source, f), PanelAt(source, g))
  <2>1. f[1] = g[1] /\ ~IsHeader(panels[j]) /\ ~IsHeader(panels[k])
    BY <1>2, OverlapIsInSection
  <2>2. IsContent(f) /\ IsContent(g)
    BY <1>1, <2>1 DEF PanelsCoherent, Shows
  <2>3. QED
    BY <1>2, <2>1, <2>2, MovedTogether
<1>3. ASSUME f[1] = g[1], IsContent(f), IsContent(g),
             Overlap(PanelAt(source, f), PanelAt(source, g))
      PROVE  Overlap(panels[j], panels[k])
  <2>1. ~IsHeader(panels[j]) /\ ~IsHeader(panels[k])
    BY <1>1, <1>3, ContentIsNoHeader
  <2>2. QED
    BY <1>3, <2>1, MovedTogether
<1>4. QED
  BY <1>2, <1>3

\* The merged dashboard has each content panel of each file once, below the
\* header of its file, and two of them overlap exactly if their places in a
\* file do.  (flatten_panels opens closed rows where they are, so this keeps
\* an overlap that the file did not show as long as a row was closed.)
THEOREM MergedLayoutIsKept == Spec => []EveryPanelIsKept
<1>1. MergeInv => EveryPanelIsKept
  BY PanelsAreOnce, LayoutIsKept DEF EveryPanelIsKept
<1>2. QED
  BY <1>1, MergeInvariant, PTL

-----------------------------------------------------------------------------
(* References and the order of the variables.                               *)

LEMMA RewrittenFinds ==
    ASSUME MergeInv, phase = "done", NEW i \in Sections,
           NEW refs \in SUBSET Reference, \A o \in refs : Plain(o),
           NEW r \in Rewritten(i, Renamed(i, source[i]), refs)
    PROVE  Finds(i, r)
<1> DEFINE olds == Renamed(i, source[i])
<1>1. TypeOK /\ DashCoherent /\ VarsCoherent /\ IsNamespaced(i)
  BY DEF MergeInv, IsNamespaced
<1>2. PICK o \in refs : r.name = NewName(i, olds, o.name)
  BY ReferenceRewritten
<1>3. PICK n \in Names : o.name = <<n>>
  BY <1>2 DEF Plain
<1>4. /\ <<Prefix[i]>> \o <<n>> = <<Prefix[i], n>>
      /\ Last(<<n>>) = n /\ Last(<<Prefix[i], n>>) = n
  BY PrefixedName
<1>5. Last(r.name) = n
  BY <1>2, <1>3, <1>4 DEF NewName
<1>6. SUFFICES ASSUME <<n>> \in {v.name : v \in ToSet(source[i].vars)}
               PROVE  /\ \E v \in ToSet(merged) : v.name = r.name
                      /\ n \in TARGET_NAMES => r.name[1] = Prefix[i]
  BY <1>5 DEF Finds
<1>7. PICK k \in DOMAIN source[i].vars : source[i].vars[k].name = <<n>>
  BY <1>6 DEF ToSet
<1>8. k \in DOMAIN dash[i].vars
  BY <1>1, SameShape
<1>9. dash[i].vars[k].name = r.name
  BY <1>1, <1>2, <1>3, <1>7, <1>8, VarsAre
<1>10. \E v \in ToSet(merged) : v.name = r.name
  <2>1. IsVisited(i, k)
    BY DEF IsVisited
  <2>2. PICK m \in DOMAIN merged : merged[m].name = r.name
    BY <1>1, <1>8, <1>9, <2>1 DEF VarsCoherent
  <2>3. QED
    BY <2>2 DEF ToSet
<1>11. n \in TARGET_NAMES => r.name[1] = Prefix[i]
  <2>1. ASSUME n \in TARGET_NAMES PROVE r.name[1] = Prefix[i]
    <3>1. <<n>>[1] = n
      OBVIOUS
    <3>2. source[i].vars[k] \in ToSet(source[i].vars)
      BY DEF ToSet
    <3>3. <<n>> \in olds
      BY <1>7, <2>1, <3>1, <3>2 DEF Renamed
    <3>4. r.name = <<Prefix[i], n>>
      BY <1>2, <1>3, <1>4, <3>3 DEF NewName
    <3>5. QED
      BY <3>4
  <2>2. QED
    BY <2>1
<1>12. QED
  BY <1>10, <1>11

\* The references of a panel of a file have no prefix yet.
LEMMA ReferencesArePlain ==
    ASSUME TypeOK, NEW f \in Nat \X Nat \X Nat, IsContent(f)
    PROVE  LET q == PanelAt(source, f)
           IN  q.refs \in SUBSET Reference /\ \A o \in q.refs : Plain(o)
<1> DEFINE d == source[f[1]]
           p == d.panels[f[2]]
<1>1. d \in Dashboard /\ PlainDashboard(d)
  BY FileType, FilesAreDashboards DEF IsContent
<1>2. p \in AnyPanel /\ p \in ToSet(d.panels)
  BY <1>1 DEF Dashboard, IsContent, ToSet
<1>3. /\ p.refs \in SUBSET Reference /\ p.nested \in Seq(LeafPanel)
      /\ \A o \in p.refs : Plain(o)
      /\ \A q \in ToSet(p.nested) : \A o \in q.refs : Plain(o)
  BY <1>1, <1>2, PanelFields DEF PlainDashboard
<1>4. CASE f[3] = 0
  BY <1>3, <1>4 DEF PanelAt
<1>5. CASE f[3] # 0
  <2>1. f[3] \in DOMAIN p.nested
    BY <1>5 DEF IsContent
  <2>2. p.nested[f[3]] \in LeafPanel /\ p.nested[f[3]] \in ToSet(p.nested)
    <3> HIDE DEF p
    <3>1. QED
      BY <1>3, <2>1 DEF ToSet
  <2>3. p.nested[f[3]] \in AnyPanel
    BY <2>2, LeafIsPanel
  <2>4. p.nested[f[3]].refs \in SUBSET Reference
    BY <2>3, PanelFields
  <2>5. QED
    BY <1>3, <1>5, <2>2, <2>4 DEF PanelAt
<1>6. QED
  BY <1>4, <1>5

\* In the end each reference finds a variable, and one of its own engine, for
\* references of panels and of the variables' queries.
THEOREM MergedReferencesFind == Spec => []ReferencesFindTheirVariable
<1>1. MergeInv => ReferencesFindTheirVariable
  <2> SUFFICES ASSUME MergeInv, phase = "done" PROVE ReferencesFindTheirVariable
    BY DEF ReferencesFindTheirVariable
  <2>1. TypeOK /\ DashCoherent /\ PanelsCoherent /\ \A i \in Sections : IsNamespaced(i)
    BY DEF MergeInv, IsNamespaced
  <2>2. ASSUME NEW k \in DOMAIN panels, NEW r \in panels[k].refs
        PROVE  Finds(panels[k].from[1], r)
    <3> DEFINE p == panels[k]
    <3>1. p \in AnyPanel /\ p.from \in Nat \X Nat \X Nat
      BY <2>1, PanelFields DEF TypeOK
    <3>2. Shows(p)
      <4>1. IsHeader(p) \/ Shows(p)
        BY <2>1 DEF PanelsCoherent
      <4>2. ~IsHeader(p)
        BY <2>2 DEF IsHeader
      <4>3. QED
        BY <4>1, <4>2
    <3> HIDE DEF p
    <3>3. /\ IsContent(p.from) /\ p.from[1] \in Sections
          /\ p.refs = Rewritten(p.from[1], Renamed(p.from[1], source[p.from[1]]),
                                PanelAt(source, p.from).refs)
      BY <3>2 DEF Shows, IsContent
    <3>4. /\ PanelAt(source, p.from).refs \in SUBSET Reference
          /\ \A o \in PanelAt(source, p.from).refs : Plain(o)
      BY <2>1, <3>1, <3>3, ReferencesArePlain
    <3>5. r \in p.refs
      BY <2>2 DEF p
    <3>6. Finds(p.from[1], r)
      BY <3>3, <3>4, <3>5, RewrittenFinds
    <3>7. QED
      BY <3>6 DEF p
  <2>3. ASSUME NEW i \in Sections, NEW k \in DOMAIN dash[i].vars,
               NEW r \in dash[i].vars[k].refs
        PROVE  Finds(i, r)
    <3>1. /\ source[i].vars[k].refs \in SUBSET Reference
          /\ \A o \in source[i].vars[k].refs : Plain(o)
          /\ r \in Rewritten(i, Renamed(i, source[i]), source[i].vars[k].refs)
      BY <2>1, <2>3, VarsAre
    <3>2. QED
      BY <3>1, RewrittenFinds
  <2>4. QED
    BY <2>2, <2>3 DEF ReferencesFindTheirVariable, ToSet
<1>2. QED
  BY <1>1, MergeInvariant, PTL

\* The merged list has the first definition of each name, and below those that
\* its query refers to.
THEOREM MergedVariablesInOrder == Spec => []VariablesInOrder
<1>1. MergeInv => VariablesInOrder
  BY DEF MergeInv, VarsCoherent
<1>2. QED
  BY <1>1, MergeInvariant, PTL
=============================================================================
