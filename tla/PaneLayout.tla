----------------------------- MODULE PaneLayout -----------------------------
(***************************************************************************)
(* How the editor area is divided between panes: a tree of splits, the     *)
(* rules between them that keys and the mouse move, the arrows that go     *)
(* from a pane to the one beside it, and the layout a session brings back. *)
(*                                                                         *)
(* A layout is a function from the paths of its nodes to the nodes, a path *)
(* being the turns from the root, 1 into the first child and 2 into the    *)
(* second.  A share is kept as a fraction where the code has a float: the  *)
(* float's last bit may put a rule one cell off on a screen of another     *)
(* size than the one it was placed on, and no property tells those apart.  *)
(*                                                                         *)
(* What is in a pane is in Tabs, zoom and the docks in FocusWay.           *)
(***************************************************************************)
EXTENDS Integers, Sequences, FiniteSets, SequencesExt, FiniteSetsExt, TLC

CONSTANTS Regions,   \* areas a screen and its docks may leave for panes
          Targets,   \* columns and rows the pointer is dragged to
          MaxIds     \* bound: the id no pane reaches

VARIABLES layout,    \* the tree
          order,     \* the panes, by id, in the order they were made
          current,   \* the pane with the keys
          nextId,    \* next_pane
          region,    \* the area the panes are in
          dragging   \* the path of the split whose rule is held, or NoPath

vars == <<layout, order, current, nextId, region, dragging>>

MinColumns == 10
MinRows == 3
Axes == {"columns", "rows"}
NoPath == <<0>>

Leaf(id) == [pane |-> id]
Share == [of |-> 1, in |-> 2]
Node(axis, share) == [axis |-> axis, ratio |-> share]

Leaves(tree) == {p \in DOMAIN tree : "pane" \in DOMAIN tree[p]}
Splits(tree) == (DOMAIN tree) \ Leaves(tree)
Ids(tree) == {tree[p].pane : p \in Leaves(tree)}
PathOf(tree, id) == CHOOSE p \in Leaves(tree) : tree[p].pane = id
-----------------------------------------------------------------------------
(***************************************************************************)
(* Geometry.                                                               *)
(***************************************************************************)
Minus(m, n) == IF n > m THEN 0 ELSE m - n   \* saturating_sub

Extent(area, axis) == IF axis = "columns" THEN area.w ELSE area.h
Origin(area, axis) == IF axis = "columns" THEN area.x ELSE area.y
IsEmptyArea(area) == area.w = 0 \/ area.h = 0
IsIn(area, x, y) ==
    /\ x >= area.x /\ x < area.x + area.w
    /\ y >= area.y /\ y < area.y + area.h

\* `size` cells of an area along an axis, `from` cells in.
Cut(area, axis, from, size) ==
    IF axis = "columns" THEN [area EXCEPT !.x = @ + from, !.w = size]
    ELSE [area EXCEPT !.y = @ + from, !.h = size]

\* Mutant: the rule takes a cell the second child has too.
DivideOverlapping(area, node) ==
    LET room == Extent(area, node.axis)
        first == (room * node.ratio.of) \div node.ratio.in
    IN  <<Cut(area, node.axis, 0, first),
          Cut(area, node.axis, first, room - first),
          Cut(area, node.axis, first, IF room = 0 THEN 0 ELSE 1)>>

\* `divide`: the first child, the second, and the rule between.
Divide(area, node) ==
    LET total == Extent(area, node.axis)
        rule == IF total = 0 THEN 0 ELSE 1
        room == total - rule
        first == (room * node.ratio.of) \div node.ratio.in
    IN  <<Cut(area, node.axis, 0, first),
          Cut(area, node.axis, first + rule, room - first),
          Cut(area, node.axis, first, rule)>>

\* The area of the node at `path`, down the tree from the whole.
AreaAt(tree, whole, path) ==
    LET area[n \in 0..Len(path)] ==
            IF n = 0 THEN whole
            ELSE Divide(area[n - 1], tree[SubSeq(path, 1, n - 1)])[path[n]]
    IN  area[Len(path)]

RuleOf(tree, whole, path) == Divide(AreaAt(tree, whole, path), tree[path])[3]
AreaOf(tree, whole, id) == AreaAt(tree, whole, PathOf(tree, id))

\* `rule_at`: down to the split whose rule the cell is on; a cell that is not
\* in a first child is looked for in the second.
RuleAt(tree, whole, x, y) ==
    LET TurnsTo(p, n) ==
            LET parts == Divide(AreaAt(tree, whole, SubSeq(p, 1, n - 1)),
                                tree[SubSeq(p, 1, n - 1)])
            IN  /\ ~IsIn(parts[3], x, y)
                /\ p[n] = IF IsIn(parts[1], x, y) THEN 1 ELSE 2
        hit == {p \in Splits(tree) : /\ IsIn(RuleOf(tree, whole, p), x, y)
                                     /\ \A n \in DOMAIN p : TurnsTo(p, n)}
    IN  IF hit = {} THEN NoPath ELSE CHOOSE p \in hit : TRUE

\* `min_extent` of every node.
MinExtents(tree, axis) ==
    LET least[p \in DOMAIN tree] ==
            IF p \in Leaves(tree)
            THEN IF axis = "columns" THEN MinColumns ELSE MinRows
            ELSE IF tree[p].axis = axis
            THEN least[Append(p, 1)] + 1 + least[Append(p, 2)]
            ELSE Max({least[Append(p, 1)], least[Append(p, 2)]})
    IN  least

\* Mutant: the cell is taken as if the split began at the edge of the screen.
PlaceFromEdge(tree, whole, path, cell) ==
    LET axis == tree[path].axis
        room == Minus(Extent(AreaAt(tree, whole, path), axis), 1)
        low == MinExtents(tree, axis)[Append(path, 1)]
        high == Minus(room, MinExtents(tree, axis)[Append(path, 2)])
        first == Max({low, Min({high, cell})})
    IN  IF room = 0 \/ low > high THEN tree
        ELSE [tree EXCEPT ![path].ratio = [of |-> 2 * first + 1, in |-> 2 * room]]

\* `place_rule`, clamped so that neither side goes under what it must have;
\* where both cannot have it, nothing moves.
PlaceRule(tree, whole, path, cell) ==
    LET axis == tree[path].axis
        area == AreaAt(tree, whole, path)
        room == Minus(Extent(area, axis), 1)
        low == MinExtents(tree, axis)[Append(path, 1)]
        high == Minus(room, MinExtents(tree, axis)[Append(path, 2)])
        first == Max({low, Min({high, Minus(cell, Origin(area, axis))})})
    IN  IF room = 0 \/ low > high THEN tree
        ELSE [tree EXCEPT ![path].ratio = [of |-> 2 * first + 1, in |-> 2 * room]]

\* `nearest_split`: the closest split above a pane that divides that way.
SplitsAbove(tree, id, axis) ==
    {p \in Splits(tree) : /\ IsStrictPrefix(p, PathOf(tree, id))
                          /\ tree[p].axis = axis}
NearestSplit(tree, id, axis) ==
    CHOOSE p \in SplitsAbove(tree, id, axis) :
        \A q \in SplitsAbove(tree, id, axis) : Len(q) <= Len(p)
-----------------------------------------------------------------------------
(***************************************************************************)
(* Splitting, closing, and the arrows.                                     *)
(***************************************************************************)
\* `split_leaf`
SplitLeaf(tree, target, axis, new) ==
    LET p == PathOf(tree, target)
    IN  (p :> Node(axis, Share)) @@ (Append(p, 1) :> Leaf(target))
            @@ (Append(p, 2) :> Leaf(new)) @@ tree

\* `remove`: the sibling takes the whole of the split.
RemoveLeaf(tree, target) ==
    LET p == PathOf(tree, target)
        top == Front(p)
        sibling == Append(top, 3 - Last(p))
        Below(q, from) == SubSeq(q, Len(from) + 1, Len(q))
        stay == {q \in DOMAIN tree : ~IsPrefix(top, q)}
        rise == {top \o Below(q, sibling) :
                    q \in {r \in DOMAIN tree : IsPrefix(sibling, r)}}
    IN  [q \in stay \cup rise |->
            IF q \in stay THEN tree[q] ELSE tree[sibling \o Below(q, top)]]

\* `first`, of what took the space of the pane at `path`.
FirstUnder(tree, path) ==
    tree[CHOOSE p \in Leaves(tree) :
            IsPrefix(path, p) /\ \A n \in DOMAIN p : n > Len(path) => p[n] = 1].pane

\* `pane_areas`: the panes that can be seen and where, by row and then by
\* column.
InReadingOrder(tree, whole) ==
    LET areas == {[pane |-> tree[p].pane, area |-> AreaAt(tree, whole, p)] :
                    p \in Leaves(tree)}
        Before(s, t) == \/ s.area.y < t.area.y
                        \/ s.area.y = t.area.y /\ s.area.x < t.area.x
    IN  SetToSortSeq({s \in areas : ~IsEmptyArea(s.area)}, Before)

PanesOf(seen) == {s.pane : s \in Range(seen)}

Edges == {"left", "right", "top", "bottom"}
Sideways(edge) == edge \in {"left", "right"}

Overlap(here, there, edge) ==
    IF Sideways(edge)
    THEN Minus(Min({there.y + there.h, here.y + here.h}), Max({there.y, here.y}))
    ELSE Minus(Min({there.x + there.w, here.x + here.w}), Max({there.x, here.x}))

\* Across the one-cell rule, and overlapping.
IsBeside(here, there, edge) ==
    /\ CASE edge = "right" -> there.x = here.x + here.w + 1
         [] edge = "left" -> there.x + there.w + 1 = here.x
         [] edge = "bottom" -> there.y = here.y + here.h + 1
         [] edge = "top" -> there.y + there.h + 1 = here.y
    /\ Overlap(here, there, edge) > 0

\* Where along the side the cursor may be: in the text, which is all but the
\* row of tabs, or in the middle when it is scrolled away.
CursorPlaces(here, edge) ==
    IF ~Sideways(edge) THEN here.x..(here.x + here.w - 1)
    ELSE {here.y + here.h \div 2} \cup
         (IF here.h < 2 THEN here.y ELSE here.y + 1)..(here.y + here.h - 1)

\* `focus_neighbour` from an area: the one level with the cursor, then the one
\* sharing the most of the side, then the last in reading order.
Neighbours(seen, here, edge) ==
    {n \in DOMAIN seen : IsBeside(here, seen[n].area, edge)}
Side(there, edge) ==
    IF Sideways(edge) THEN there.y..(there.y + there.h - 1)
    ELSE there.x..(there.x + there.w - 1)
Nearest(seen, here, edge, level) ==
    LET rank(n) == <<IF n \in level THEN 1 ELSE 0,
                     Overlap(here, seen[n].area, edge), n>>
        Above(r, s) == \E k \in 1..3 : /\ r[k] > s[k]
                                       /\ \A m \in 1..(k - 1) : r[m] = s[m]
        beside == Neighbours(seen, here, edge)
    IN  CHOOSE n \in beside : \A m \in beside \ {n} : Above(rank(n), rank(m))

\* Where an arrow leads from an area, wherever the cursor is in it.
ArrowLeadsTo(seen, here, edge) ==
    LET beside == Neighbours(seen, here, edge)
        levels == {{n \in beside : along \in Side(seen[n].area, edge)} :
                      along \in CursorPlaces(here, edge)}
    IN  IF beside = {} THEN {}
        ELSE {seen[Nearest(seen, here, edge, level)].pane : level \in levels}
-----------------------------------------------------------------------------
Init ==
    /\ layout = (<<>> :> Leaf(0))
    /\ order = <<0>>
    /\ current = 0
    /\ nextId = 1
    /\ region \in Regions
    /\ dragging = NoPath

\* `App::split`
Split(axis) ==
    /\ nextId < MaxIds
    /\ layout' = SplitLeaf(layout, current, axis, nextId)
    /\ order' = Append(order, nextId)
    /\ current' = nextId
    /\ nextId' = nextId + 1
    /\ UNCHANGED <<region, dragging>>

\* The end of `request_close_pane`.
Close ==
    /\ Len(order) > 1
    /\ layout' = RemoveLeaf(layout, current)
    /\ order' = SelectSeq(order, LAMBDA id : id # current)
    /\ current' = FirstUnder(layout', Front(PathOf(layout, current)))
    /\ UNCHANGED <<nextId, region, dragging>>

GoTo(id) ==
    /\ id # current
    /\ current' = id
    /\ UNCHANGED <<layout, order, nextId, region, dragging>>

\* `focus_pane`, by its number, or a press in it.
FocusPane == \E id \in PanesOf(InReadingOrder(layout, region)) : GoTo(id)

FocusNeighbour(edge) ==
    LET here == AreaOf(layout, region, current)
    IN  /\ ~IsEmptyArea(here)
        /\ \E id \in ArrowLeadsTo(InReadingOrder(layout, region), here, edge) :
              GoTo(id)

\* The arrows of resize mode: `nudge_rule`.
Nudge(axis, delta) ==
    /\ SplitsAbove(layout, current, axis) # {}
    /\ LET p == NearestSplit(layout, current, axis)
           at == Origin(RuleOf(layout, region, p), axis)
       IN  layout' = PlaceRule(layout, region, p, Max({0, at + delta}))
    /\ UNCHANGED <<order, current, nextId, region, dragging>>

\* `=` in resize mode: the nearest split each way is even again.
Even ==
    /\ layout' = [p \in DOMAIN layout |->
            IF \E axis \in Axes : /\ SplitsAbove(layout, current, axis) # {}
                                  /\ p = NearestSplit(layout, current, axis)
            THEN [layout[p] EXCEPT !.ratio = Share] ELSE layout[p]]
    /\ UNCHANGED <<order, current, nextId, region, dragging>>

\* `press_rule_at`, on any rule that can be seen.
PressRule ==
    /\ \E p \in Splits(layout) :
          LET rule == RuleOf(layout, region, p)
          IN  /\ ~IsEmptyArea(rule)
              /\ dragging' = RuleAt(layout, region, rule.x, rule.y)
    /\ UNCHANGED <<layout, order, current, nextId, region>>

\* `drag_rule_to`: a key may have changed the tree since the press, and the
\* path then names another split or none.
DragRule ==
    /\ dragging \in Splits(layout)
    /\ \E cell \in Targets :
          layout' = PlaceRule(layout, region, dragging, cell)
    /\ UNCHANGED <<order, current, nextId, region, dragging>>

ReleaseRule ==
    /\ dragging # NoPath
    /\ dragging' = NoPath
    /\ UNCHANGED <<layout, order, current, nextId, region>>

\* The terminal is resized, or a dock opens, folds or moves its own rule.
Resize ==
    /\ region' \in Regions \ {region}
    /\ UNCHANGED <<layout, order, current, nextId, dragging>>

\* The id after every one restored: ids of panes that were closed come back.
NextIdAfter(ids) == Max(Range(ids)) + 1

\* What `from_toml` takes for a layout: every pane in the tree once and
\* listed once, shares within the whole, and the current one among them.
IsSession(tree, ids, at) ==
    /\ Cardinality(Leaves(tree)) = Len(ids)
    /\ \A id \in Ids(tree) \cup Range(ids) :
          Cardinality({p \in Leaves(tree) : tree[p].pane = id}) =
              Cardinality({n \in DOMAIN ids : ids[n] = id})
    /\ \A p \in Splits(tree) : tree[p].ratio.of \in 0..tree[p].ratio.in
    /\ at \in Range(ids)

\* Quitting and starting again on the same project: `save_session`, and
\* `restore_session` on whatever screen there is by then.  A session that is
\* refused starts clean.
Restart ==
    /\ region' \in Regions
    /\ dragging' = NoPath
    /\ IF IsSession(layout, order, current)
       THEN /\ nextId' = NextIdAfter(order)
            /\ UNCHANGED <<layout, order, current>>
       ELSE /\ layout' = (<<>> :> Leaf(0))
            /\ order' = <<0>>
            /\ current' = 0
            /\ nextId' = 1

Next ==
    \/ \E axis \in Axes : Split(axis)
    \/ Close
    \/ FocusPane
    \/ \E edge \in Edges : FocusNeighbour(edge)
    \/ \E axis \in Axes, delta \in {-1, 1} : Nudge(axis, delta)
    \/ Even
    \/ PressRule
    \/ DragRule
    \/ ReleaseRule
    \/ Resize
    \/ Restart

Spec == Init /\ [][Next]_vars
-----------------------------------------------------------------------------
Size(area) == area.w * area.h
Disjoint(a, b) ==
    \/ IsEmptyArea(a) \/ IsEmptyArea(b)
    \/ a.x + a.w <= b.x \/ b.x + b.w <= a.x
    \/ a.y + a.h <= b.y \/ b.y + b.h <= a.y
Within(a, b) ==
    /\ a.x >= b.x /\ a.x + a.w <= b.x + b.w
    /\ a.y >= b.y /\ a.y + a.h <= b.y + b.h

\* The panes and the rules between them cover the region and never overlap,
\* so every cell belongs to one pane or one rule; and the rule that is
\* pressed is the one that was drawn there.
PanesTile ==
    LET leaves == {[path |-> p, area |-> AreaAt(layout, region, p)] :
                      p \in Leaves(layout)}
        rules == {[path |-> p, area |-> RuleOf(layout, region, p)] :
                      p \in Splits(layout)}
        drawn == leaves \cup rules
    IN  /\ \A a \in drawn : /\ Within(a.area, region)
                            /\ \A b \in drawn \ {a} : Disjoint(a.area, b.area)
        /\ MapThenSumSet(LAMBDA a : Size(a.area), drawn) = Size(region)
        /\ \A r \in rules : ~IsEmptyArea(r.area) =>
              RuleAt(layout, region, r.area.x, r.area.y) = r.path

\* The tree names the panes, each once, the id to be given next is of no pane,
\* and what quitting writes is what the next start accepts.
TreeNamesPanes ==
    /\ IsSession(layout, order, current)
    /\ Ids(layout) = Range(order)
    /\ \A id \in Ids(layout) : id < nextId

\* When every pane can be seen the arrows lead from each to every other, with
\* the cursor on one line or another on the way: there is no group of panes
\* that they do not lead out of.
ArrowsReachAll ==
    LET seen == InReadingOrder(layout, region)
        arrows == {<<s.pane, UNION {ArrowLeadsTo(seen, s.area, edge) :
                                        edge \in Edges}>> : s \in Range(seen)}
    IN  PanesOf(seen) = Range(order) =>
            \A ids \in SUBSET Range(order) \ {{}, Range(order)} :
                \E a \in arrows : a[1] \in ids /\ ~(a[2] \subseteq ids)

LayoutSound == PanesTile /\ TreeNamesPanes /\ ArrowsReachAll

Drawn(tree) == [p \in DOMAIN tree |-> AreaAt(tree, region, p)]
StandsAt(tree, p) == Origin(RuleOf(tree, region, p), tree[p].axis)

\* The least of each side of the split at `p`, and whether a tree keeps to it.
Least(p, turn) == MinExtents(layout, layout[p].axis)[Append(p, turn)]
SideOf(tree, p, turn) == Extent(AreaAt(tree, region, Append(p, turn)), tree[p].axis)
KeepsToLeast(tree, p) == \A turn \in {1, 2} : SideOf(tree, p, turn) >= Least(p, turn)

\* What this step does if it puts the rule of the split at `p` on `cell`.
RuleIsPut(p, cell) ==
    IF Least(p, 1) + 1 + Least(p, 2) > Extent(AreaAt(layout, region, p), layout[p].axis)
    THEN layout' = layout
    ELSE LET at == StandsAt(layout', p)
         IN  /\ KeepsToLeast(layout', p)
             /\ \/ at = cell
                \/ at > cell /\ SideOf(layout', p, 1) = Least(p, 1)
                \/ at < cell /\ SideOf(layout', p, 2) = Least(p, 2)
             /\ KeepsToLeast(layout, p) =>
                   Drawn(PlaceRule(layout', region, p, StandsAt(layout, p))) = Drawn(layout)

\* A rule that is dragged or nudged stands on the cell it is put on, wherever
\* its split is; or, short of it, where one side is as small as it may be.
\* Put back, every pane is where it was.  If the two sides do not have room
\* nothing moves.
RuleMovesAlone ==
    /\ DragRule => \A cell \in Targets :
          layout' = PlaceRule(layout, region, dragging, cell) => RuleIsPut(dragging, cell)
    /\ \A axis \in Axes, delta \in {-1, 1} : Nudge(axis, delta) =>
          LET p == NearestSplit(layout, current, axis)
          IN  RuleIsPut(p, StandsAt(layout, p) + delta)
=============================================================================
