------------------------------ MODULE SplitTree ------------------------------
(***************************************************************************)
(* The layout of one comux tab: copad-mux/src/model.rs.                    *)
(*                                                                         *)
(* A tree is a function from paths to nodes.  A path is a sequence over    *)
(* {0, 1}: 0 descends into the first child of a branch, 1 into the second, *)
(* and <<>> is the root.  A node is a leaf [pane, terminal] or a branch    *)
(* [dir, ratio], and a path has both children exactly when its node is a   *)
(* branch.  Depth first order is the lexicographic order of the paths.     *)
(*                                                                         *)
(* A ratio is counted in UNIT-ths.  UNIT = 300 holds every ratio the code  *)
(* makes for up to six panes (halves, thirds, quarters, fifths, sixths),   *)
(* its limits 5% and 95% and MAIN_SHARE exactly.                           *)
(***************************************************************************)
EXTENDS Naturals, Sequences, SequencesExt, FiniteSets

CONSTANTS STEP   \* the share a nudge moves a divider by (0.04 = 12 in the code)

ASSUME StepAssumption == STEP \in Nat \ {0}

UNIT == 300
HALF == 150
LOWEST == 15         \* 0.05
HIGHEST == 285       \* 0.95
MAIN_SHARE == 180    \* 0.6
-----------------------------------------------------------------------------
IsLeaf(n) == "pane" \in DOMAIN n

Leaf(n) == [p \in {<<>>} |-> n]

Branch(dir, ratio, first, second) ==
  [p \in {<<>>} \cup {<<0>> \o q : q \in DOMAIN first} \cup {<<1>> \o q : q \in DOMAIN second} |->
     IF p = <<>> THEN [dir |-> dir, ratio |-> ratio]
     ELSE IF p[1] = 0 THEN first[Tail(p)] ELSE second[Tail(p)]]

Subtree(t, p) ==
  [q \in {SubSeq(r, Len(p) + 1, Len(r)) : r \in {r \in DOMAIN t : IsPrefix(p, r)}} |-> t[p \o q]]

\* t with the subtree at p replaced.
Graft(t, p, sub) ==
  [q \in {r \in DOMAIN t : ~IsPrefix(p, r)} \cup {p \o r : r \in DOMAIN sub} |->
     IF IsPrefix(p, q) THEN sub[SubSeq(q, Len(p) + 1, Len(q))] ELSE t[q]]

LeafPaths(t) == {p \in DOMAIN t : IsLeaf(t[p])}
BranchPaths(t) == DOMAIN t \ LeafPaths(t)
Panes(t) == {t[p].pane : p \in LeafPaths(t)}
Terminals(t) == {t[p].terminal : p \in LeafPaths(t)}
PathOf(t, pane) == CHOOSE p \in LeafPaths(t) : t[p].pane = pane
TerminalOf(t, pane) == t[PathOf(t, pane)].terminal
IsSingleLeaf(t) == IsLeaf(t[<<>>])

Before(p, q) ==
  \E i \in DOMAIN p \cap DOMAIN q : SubSeq(p, 1, i - 1) = SubSeq(q, 1, i - 1) /\ p[i] < q[i]

\* The place of a leaf path in depth first order.
Rank(t, p) == Cardinality({q \in LeafPaths(t) : Before(q, p)}) + 1

Leaves(t) ==
  [i \in 1 .. Cardinality(LeafPaths(t)) |-> t[CHOOSE p \in LeafPaths(t) : Rank(t, p) = i]]

LeftmostPane(t) == Leaves(t)[1].pane

\* The leaves of t's shape taken from a sequence in depth first order.
Refill(t, leaves) ==
  [p \in DOMAIN t |-> IF IsLeaf(t[p]) THEN leaves[Rank(t, p)] ELSE t[p]]
-----------------------------------------------------------------------------
SplitLeaf(t, pane, dir, fresh) ==
  LET p == PathOf(t, pane) IN Graft(t, p, Branch(dir, HALF, Leaf(t[p]), Leaf(fresh)))

\* The parent branch collapses into the sibling.
RemoveLeaf(t, pane) ==
  LET p == PathOf(t, pane) IN Graft(t, Front(p), Subtree(t, Front(p) \o <<1 - Last(p)>>))

\* Trade places with the pane `delta` slots further, wrapping.
SwapWith(t, pane, delta) ==
  LET leaves == Leaves(t)
      n == Len(leaves)
      i == Rank(t, PathOf(t, pane))
      j == ((i - 1 + delta) % n) + 1
  IN Refill(t, [leaves EXCEPT ![i] = leaves[j], ![j] = leaves[i]])

Rotate(t, up) ==
  LET leaves == Leaves(t)
      n == Len(leaves)
  IN Refill(t, [i \in 1 .. n |-> leaves[((i - 1 + (IF up THEN 1 ELSE n - 1)) % n) + 1]])

\* Trees along dir, each an equal share, built by halves of halves.
EvenTrees(trees, dir) ==
  LET Slices == {s \in (1 .. Len(trees)) \X (1 .. Len(trees)) : s[1] + s[2] <= Len(trees) + 1}
      Even[s \in Slices] ==
        LET half == s[2] \div 2
        IN IF s[2] = 1 THEN trees[s[1]]
           ELSE Branch(dir, (UNIT * half) \div s[2], Even[<<s[1], half>>], Even[<<s[1] + half, s[2] - half>>])
  IN Even[<<1, Len(trees)>>]

EvenLeaves(leaves, dir) == EvenTrees([i \in DOMAIN leaves |-> Leaf(leaves[i])], dir)

MainAnd(leaves, mainDir, restDir) ==
  IF Len(leaves) = 1 THEN Leaf(leaves[1])
  ELSE Branch(mainDir, MAIN_SHARE, Leaf(leaves[1]), EvenLeaves(Tail(leaves), restDir))

\* As many columns as the square root rounds up to, rows to fit.
Tiled(leaves) ==
  LET n == Len(leaves)
      cols == CHOOSE c \in 1 .. n : c * c >= n /\ \A d \in 1 .. c - 1 : d * d < n
      rows == (n + cols - 1) \div cols
      Row(r) == SubSeq(leaves, (r - 1) * cols + 1, IF r * cols > n THEN n ELSE r * cols)
  IN EvenTrees([r \in 1 .. rows |-> EvenLeaves(Row(r), "right")], "down")

Presets == {"even-horizontal", "even-vertical", "main-horizontal", "main-vertical", "tiled"}

Preset(leaves, preset) ==
  CASE preset = "even-horizontal" -> EvenLeaves(leaves, "right")
    [] preset = "even-vertical"   -> EvenLeaves(leaves, "down")
    [] preset = "main-horizontal" -> MainAnd(leaves, "down", "right")
    [] preset = "main-vertical"   -> MainAnd(leaves, "right", "down")
    [] OTHER                      -> Tiled(leaves)

\* How many panes a subtree lines up along dir.
SlotsAlong(t, dir) ==
  LET Larger(a, b) == IF a > b THEN a ELSE b
      Slots[p \in DOMAIN t] ==
        IF IsLeaf(t[p]) THEN 1
        ELSE IF t[p].dir = dir THEN Slots[p \o <<0>>] + Slots[p \o <<1>>]
        ELSE Larger(Slots[p \o <<0>>], Slots[p \o <<1>>])
  IN Slots

\* Every split shared out by the panes each side lines up along it.
Spread(t) ==
  [p \in DOMAIN t |->
     IF IsLeaf(t[p]) THEN t[p]
     ELSE LET slots == SlotsAlong(t, t[p].dir)
          IN [t[p] EXCEPT !.ratio = (UNIT * slots[p \o <<0>>]) \div
                                    (slots[p \o <<0>>] + slots[p \o <<1>>])]]

\* A nudge moves a divider by STEP and stays within 5% and 95%, or where it already is.
Nudged(ratio, up) ==
  LET Least(a, b) == IF a < b THEN a ELSE b
      low == Least(ratio, LOWEST)
      high == IF ratio > HIGHEST THEN ratio ELSE HIGHEST
  IN IF up THEN Least(ratio + STEP, high)
     ELSE IF ratio < low + STEP THEN low ELSE ratio - STEP

\* Move the deepest divider around the pane that lies on the axis and can still move.
Resize(t, pane, axis, grow) ==
  LET p == PathOf(t, pane)
      New(q) == Nudged(t[q].ratio, (p[Len(q) + 1] = 0) = grow)
      movable == {q \in BranchPaths(t) : IsStrictPrefix(q, p) /\ t[q].dir = axis /\ New(q) # t[q].ratio}
      deepest == CHOOSE q \in movable : \A r \in movable : Len(r) <= Len(q)
  IN IF movable = {} THEN t ELSE [t EXCEPT ![deepest].ratio = New(deepest)]

Clamped(ratio) == CASE ratio < LOWEST -> LOWEST [] ratio > HIGHEST -> HIGHEST [] OTHER -> ratio

SetRatioAt(t, path, want) ==
  IF path \in BranchPaths(t) THEN [t EXCEPT ![path].ratio = Clamped(want)] ELSE t
-----------------------------------------------------------------------------
\* An extent shared by two children and the one cell between them.
Divider(extent) == IF extent >= 1 THEN 1 ELSE 0

First(extent, ratio) ==
  LET usable == extent - Divider(extent)
      r == CASE ratio < 3 -> 3 [] ratio > 297 -> 297 [] OTHER -> ratio
      rounded == (2 * usable * r + UNIT) \div (2 * UNIT)
  IN IF rounded > usable THEN usable ELSE rounded

(* Mutant: the cell of the divider is given to the second child as well.   *)
SecondOverlaps(extent, ratio) == extent - First(extent, ratio)

Second(extent, ratio) == extent - Divider(extent) - First(extent, ratio)

ChildRect(n, r, side) ==
  CASE n.dir = "right" /\ side = 0 -> [r EXCEPT !.cols = First(r.cols, n.ratio)]
    [] n.dir = "right" /\ side = 1 ->
         [r EXCEPT !.x = @ + First(r.cols, n.ratio) + Divider(r.cols), !.cols = Second(@, n.ratio)]
    [] n.dir = "down" /\ side = 0 -> [r EXCEPT !.rows = First(r.rows, n.ratio)]
    [] OTHER ->
         [r EXCEPT !.y = @ + First(r.rows, n.ratio) + Divider(r.rows), !.rows = Second(@, n.ratio)]

\* The rectangle of every subtree when the tree is tiled into area.
Rects(t, area) ==
  LET R[p \in DOMAIN t] ==
        IF p = <<>> THEN [x |-> 0, y |-> 0, cols |-> area.cols, rows |-> area.rows]
        ELSE ChildRect(t[Front(p)], R[Front(p)], Last(p))
  IN R

\* The cells of the divider of a branch.
DividerRect(n, r) ==
  IF n.dir = "right"
  THEN [x |-> r.x + First(r.cols, n.ratio), y |-> r.y, cols |-> Divider(r.cols), rows |-> r.rows]
  ELSE [x |-> r.x, y |-> r.y + First(r.rows, n.ratio), cols |-> r.cols, rows |-> Divider(r.rows)]

\* The size of every terminal of the tree.
SizesIn(t, rects) ==
  LET PathTo(term) == CHOOSE p \in LeafPaths(t) : t[p].terminal = term
      Size(r) == [cols |-> r.cols, rows |-> r.rows]
  IN [term \in Terminals(t) |-> Size(rects[PathTo(term)])]

DeriveSizes(t, area) == SizesIn(t, Rects(t, area))

\* The first terminal below each side of a branch: what a drag remembers of its divider.
Ends(t, p) ==
  LET FirstTerminal(q) == Leaves(Subtree(t, q))[1].terminal
  IN <<FirstTerminal(p \o <<0>>), FirstTerminal(p \o <<1>>)>>
=============================================================================
