------------------------------- MODULE Trees -------------------------------
(***************************************************************************)
(* The red-black and splay trees of sys/wnt/libevent/include/tree.h: the   *)
(* macros RB_GENERATE and SPLAY_GENERATE as operators on trees, checked    *)
(* against the set of the elements in the tree.                            *)
(*                                                                         *)
(* An element is its key.  A tree has a root and, for each element, the    *)
(* children on both sides, and in a red-black tree the parent and the      *)
(* color.  The left and right cases of the macros are mirror images; an    *)
(* operator takes the side as a parameter.  Reading a field of NULL is an  *)
(* error that stops the model checker.                                     *)
(***************************************************************************)
EXTENDS Integers, Sequences, FiniteSets, FiniteSetsExt, SequencesExt

CONSTANTS Keys   \* the keys, positive integers

ASSUME TreesAssumption == IsFiniteSet(Keys) /\ Keys \subseteq Nat \ {0}

NULL == 0
LEFT == 1
RIGHT == 2
Other(side) == 3 - side
RB_BLACK == 0
RB_RED == 1
NEGINF == 0
INF == Max(Keys) + 1
\* The local variable __node of SPLAY.
node == -1

VARIABLES
    kind,      \* which of the two trees is in use
    tree,      \* the tree
    members,   \* the elements inserted and not removed
    last       \* what the last operation was called with and returned

treesVars == <<kind, tree, members, last>>

-----------------------------------------------------------------------------
(* Red-black trees *)

SetColor(t, x, c) == [t EXCEPT !.color[x] = c]
SetParent(t, x, p) == IF x = NULL THEN t ELSE [t EXCEPT !.parent[x] = p]
SetBlackRed(t, black, red) == SetColor(SetColor(t, black, RB_BLACK), red, RB_RED)
IsBlack(t, x) == x = NULL \/ t.color[x] = RB_BLACK
Blacken(t, x) == IF x = NULL THEN t ELSE SetColor(t, x, RB_BLACK)

\* new takes the place of old below p, or at the root.
Replace(t, p, old, new) ==
    IF p = NULL THEN [t EXCEPT !.root = new]
    ELSE [t EXCEPT !.child[IF t.child[LEFT][p] = old THEN LEFT ELSE RIGHT][p] = new]

\* RB_ROTATE_LEFT and RB_ROTATE_RIGHT: elm goes down to the given side.
Rotate(t, side, elm) ==
    LET tmp  == t.child[Other(side)][elm]
        mid  == t.child[side][tmp]
        down == SetParent([t EXCEPT !.child[Other(side)][elm] = mid], mid, elm)
        up   == Replace(SetParent(down, tmp, t.parent[elm]), t.parent[elm], elm, tmp)
    IN  SetParent([up EXCEPT !.child[side][tmp] = elm], elm, tmp)

RECURSIVE RB_INSERT_COLOR(_, _)
RB_INSERT_COLOR(t, elm) ==
    LET parent  == t.parent[elm]
        gparent == t.parent[parent]
        side    == IF t.child[LEFT][gparent] = parent THEN LEFT ELSE RIGHT
        uncle   == t.child[Other(side)][gparent]
        inner   == t.child[Other(side)][parent] = elm
        line    == IF inner THEN Rotate(t, side, parent) ELSE t
        top     == IF inner THEN elm ELSE parent
        bottom  == IF inner THEN parent ELSE elm
    IN  IF IsBlack(t, parent) THEN SetColor(t, t.root, RB_BLACK)
        ELSE IF ~IsBlack(t, uncle)
        THEN RB_INSERT_COLOR(SetBlackRed(Blacken(t, uncle), parent, gparent), gparent)
        ELSE RB_INSERT_COLOR(Rotate(SetBlackRed(line, top, gparent),
                                    Other(side), gparent), bottom)

RECURSIVE RB_REMOVE_COLOR(_, _, _)
RB_REMOVE_COLOR(t, parent, elm) ==
    LET side    == IF t.child[LEFT][parent] = elm THEN LEFT ELSE RIGHT
        far     == Other(side)
        sibling == t.child[far][parent]
        t1      == IF t.color[sibling] = RB_BLACK THEN t
                   ELSE Rotate(SetBlackRed(t, sibling, parent), side, parent)
        tmp     == t1.child[far][parent]
        t2      == IF ~IsBlack(t1, t1.child[far][tmp]) THEN t1
                   ELSE Rotate(SetColor(Blacken(t1, t1.child[side][tmp]), tmp, RB_RED),
                               far, tmp)
        top     == t2.child[far][parent]
        t3      == SetColor(SetColor(t2, top, t2.color[parent]), parent, RB_BLACK)
        t4      == Rotate(Blacken(t3, t3.child[far][top]), side, parent)
    IN  IF ~IsBlack(t, elm) \/ elm = t.root THEN Blacken(t, elm)
        ELSE IF \A s \in {LEFT, RIGHT} : IsBlack(t1, t1.child[s][tmp])
        THEN RB_REMOVE_COLOR(SetColor(t1, tmp, RB_RED), t1.parent[parent], parent)
        ELSE Blacken(t4, t4.root)

\* The last element on the way to one side, as the loops of RB_MINMAX,
\* RB_NEXT, RB_REMOVE and SPLAY_NEXT find it.
RECURSIVE Outermost(_, _, _)
Outermost(t, side, x) ==
    IF t.child[side][x] = NULL THEN x ELSE Outermost(t, side, t.child[side][x])

\* Where the loops of RB_FIND and RB_INSERT end: the element with the key, or
\* NULL below the parent of a new element.
RECURSIVE Descend(_, _, _, _)
Descend(t, key, x, parent) ==
    IF x \in {NULL, key} THEN [elm |-> x, parent |-> parent]
    ELSE Descend(t, key, t.child[IF key < x THEN LEFT ELSE RIGHT][x], x)

\* Mutant: the tree is not rebalanced.
InsertColor_none(t, elm) == SetColor(t, t.root, RB_BLACK)
InsertColor(t, elm) == RB_INSERT_COLOR(t, elm)

RB_INSERT(t, elm) ==
    LET at   == Descend(t, elm, t.root, NULL)
        set  == [t EXCEPT !.parent[elm] = at.parent, !.color[elm] = RB_RED]
        side == IF elm < at.parent THEN LEFT ELSE RIGHT
    IN  IF at.elm # NULL THEN [tree |-> t, result |-> at.elm]
        ELSE [tree |-> InsertColor(IF at.parent = NULL
                                   THEN [set EXCEPT !.root = elm]
                                   ELSE [set EXCEPT !.child[side][at.parent] = elm], elm),
              result |-> NULL]

\* What follows the label color of RB_REMOVE.  The fields of the removed
\* element are the caller's and are forgotten.
RemoveColor(t, old, color, parent, child) ==
    LET fixed == IF color = RB_BLACK THEN RB_REMOVE_COLOR(t, parent, child) ELSE t
    IN  [fixed EXCEPT !.child[LEFT][old] = NULL, !.child[RIGHT][old] = NULL,
                      !.parent[old] = NULL, !.color[old] = RB_BLACK]

ParentAfter(parent, elm, old) == IF parent = old THEN elm ELSE parent

RB_REMOVE(t, old) ==
    LET left   == t.child[LEFT][old]
        right  == t.child[RIGHT][old]
        elm    == IF NULL \in {left, right} THEN old ELSE Outermost(t, LEFT, right)
        child  == IF left = NULL THEN right
                  ELSE IF right = NULL THEN left ELSE t.child[RIGHT][elm]
        parent == t.parent[elm]
        cut    == Replace(SetParent(t, child, parent), parent, elm, child)
        moved  == [cut EXCEPT !.child[LEFT][elm] = cut.child[LEFT][old],
                              !.child[RIGHT][elm] = cut.child[RIGHT][old],
                              !.parent[elm] = cut.parent[old],
                              !.color[elm] = cut.color[old]]
        swap   == SetParent(SetParent(Replace(moved, moved.parent[old], old, elm),
                                      moved.child[LEFT][old], elm),
                            moved.child[RIGHT][old], elm)
    IN  IF elm = old THEN RemoveColor(cut, old, t.color[old], parent, child)
        ELSE RemoveColor(swap, old, t.color[elm], ParentAfter(parent, elm, old), child)

RB_FIND(t, key) == Descend(t, key, t.root, NULL).elm

RECURSIVE Climb(_, _)
Climb(t, x) ==
    IF t.parent[x] # NULL /\ t.child[RIGHT][t.parent[x]] = x
    THEN Climb(t, t.parent[x]) ELSE t.parent[x]

RB_NEXT(t, x) ==
    IF t.child[RIGHT][x] # NULL THEN Outermost(t, LEFT, t.child[RIGHT][x])
    ELSE Climb(t, x)

RB_MINMAX(t, side) == IF t.root = NULL THEN NULL ELSE Outermost(t, side, t.root)

\* RB_FOREACH from x on; no more steps than there are keys.
RECURSIVE RB_FOREACH(_, _, _)
RB_FOREACH(t, x, steps) ==
    IF x = NULL \/ steps = 0 THEN << >>
    ELSE <<x>> \o RB_FOREACH(t, RB_NEXT(t, x), steps - 1)

-----------------------------------------------------------------------------
(* Splay trees *)

SetChild(t, side, x, y) == [t EXCEPT !.child[side][x] = y]

\* SPLAY_ROTATE_RIGHT and SPLAY_ROTATE_LEFT: tmp, the child of the root on the
\* given side, becomes the root.
SplayRotate(t, side) ==
    LET tmp == t.child[side][t.root]
    IN  [SetChild(SetChild(t, side, t.root, t.child[Other(side)][tmp]),
                  Other(side), tmp, t.root) EXCEPT !.root = tmp]

\* Mutant: the last two assignments are swapped.
Assemble_swapped(t, hand) ==
    LET t1 == SetChild(t, RIGHT, hand[RIGHT], t.child[LEFT][t.root])
        t2 == SetChild(t1, LEFT, hand[LEFT], t1.child[RIGHT][t.root])
        t3 == SetChild(t2, LEFT, t2.root, t2.child[LEFT][node])
    IN  SetChild(t3, RIGHT, t3.root, t3.child[RIGHT][node])
\* SPLAY_ASSEMBLE, where hand[RIGHT] is __left and hand[LEFT] is __right.
Assemble(t, hand) ==
    LET t1 == SetChild(t, RIGHT, hand[RIGHT], t.child[LEFT][t.root])
        t2 == SetChild(t1, LEFT, hand[LEFT], t1.child[RIGHT][t.root])
        t3 == SetChild(t2, LEFT, t2.root, t2.child[RIGHT][node])
    IN  SetChild(t3, RIGHT, t3.root, t3.child[LEFT][node])

\* The loop of SPLAY.  SPLAY_MINMAX is the same with a key beyond all others.
RECURSIVE SplayLoop(_, _, _)
SplayLoop(t, key, hand) ==
    LET Side(x) == IF key < x THEN LEFT ELSE RIGHT
        side    == Side(t.root)
        tmp     == t.child[side][t.root]
        zig     == tmp # key /\ Side(tmp) = side
        t1      == IF zig THEN SplayRotate(t, side) ELSE t
        linked  == [SetChild(t1, side, hand[side], t1.root) EXCEPT
                      !.root = t1.child[side][t1.root]]
    IN  IF key = t.root \/ tmp = NULL THEN Assemble(t, hand)
        ELSE IF zig /\ t1.child[side][t1.root] = NULL THEN Assemble(t1, hand)
        ELSE SplayLoop(linked, key, [hand EXCEPT ![side] = t1.root])

\* __node is a local variable: its fields are NULL before and forgotten after.
SPLAY(t, key) ==
    SetChild(SetChild(SplayLoop(t, key, [side \in {LEFT, RIGHT} |-> node]),
                      LEFT, node, NULL), RIGHT, node, NULL)

SPLAY_INSERT(t, elm) ==
    LET s    == SPLAY(t, elm)
        side == IF elm < s.root THEN LEFT ELSE RIGHT
    IN  IF t.root = NULL THEN [tree |-> [t EXCEPT !.root = elm], result |-> NULL]
        ELSE IF s.root = elm THEN [tree |-> s, result |-> elm]
        ELSE [tree |-> [SetChild(SetChild(SetChild(s,
                            side, elm, s.child[side][s.root]),
                            Other(side), elm, s.root),
                            side, s.root, NULL) EXCEPT !.root = elm],
              result |-> NULL]

Forget(t, x) == SetChild(SetChild(t, LEFT, x, NULL), RIGHT, x, NULL)

SPLAY_REMOVE(t, elm) ==
    LET s     == SPLAY(t, elm)
        left  == SPLAY([s EXCEPT !.root = s.child[LEFT][elm]], elm)
    IN  IF t.root = NULL THEN [tree |-> t, result |-> NULL]
        ELSE IF s.root # elm THEN [tree |-> s, result |-> NULL]
        ELSE [tree |-> Forget(IF s.child[LEFT][elm] = NULL
                              THEN [s EXCEPT !.root = s.child[RIGHT][elm]]
                              ELSE SetChild(left, RIGHT, left.root, s.child[RIGHT][elm]),
                              elm),
              result |-> elm]

SPLAY_FIND(t, key) ==
    IF t.root = NULL THEN [tree |-> t, result |-> NULL]
    ELSE [tree |-> SPLAY(t, key),
          result |-> IF SPLAY(t, key).root = key THEN key ELSE NULL]

SPLAY_NEXT(t, x) ==
    LET s == SPLAY(t, x)
    IN  [tree |-> s,
         result |-> IF s.child[RIGHT][x] = NULL THEN NULL
                    ELSE Outermost(s, LEFT, s.child[RIGHT][x])]

\* SPLAY_MIN and SPLAY_MAX.
SPLAY_MIN_MAX(t, val) ==
    IF t.root = NULL THEN [tree |-> t, result |-> NULL]
    ELSE [tree |-> SPLAY(t, val), result |-> SPLAY(t, val).root]

RECURSIVE SplayEach(_, _)
SplayEach(r, steps) ==
    IF r.result = NULL \/ steps = 0 THEN << >>
    ELSE <<r.result>> \o SplayEach(SPLAY_NEXT(r.tree, r.result), steps - 1)

SPLAY_FOREACH(t) == SplayEach(SPLAY_MIN_MAX(t, NEGINF), Cardinality(Keys) + 1)

-----------------------------------------------------------------------------
(* The specification *)

\* RB_INIT and SPLAY_INIT.
Empty ==
    [root |-> NULL, child |-> [side \in {LEFT, RIGHT} |-> [x \in Keys \cup {node} |-> NULL]],
     parent |-> [x \in Keys |-> NULL], color |-> [x \in Keys |-> RB_BLACK]]

TreesInit ==
    /\ kind \in {"RB", "SPLAY"} /\ tree = Empty /\ members = {}
    /\ last = [op |-> "INIT", key |-> NULL, result |-> NULL]

Does(op, key, t, result) ==
    /\ tree' = t
    /\ last' = [op |-> op, key |-> key, result |-> result]
    /\ UNCHANGED kind

rb_insert(k) ==
    /\ kind = "RB"
    /\ LET r == RB_INSERT(tree, k) IN Does("INSERT", k, r.tree, r.result)
    /\ members' = members \cup {k}

\* The element must be in the tree.
rb_remove(k) ==
    /\ kind = "RB" /\ k \in members
    /\ Does("REMOVE", k, RB_REMOVE(tree, k), k)
    /\ members' = members \ {k}

splay_insert(k) ==
    /\ kind = "SPLAY"
    /\ LET r == SPLAY_INSERT(tree, k) IN Does("INSERT", k, r.tree, r.result)
    /\ members' = members \cup {k}

splay_remove(k) ==
    /\ kind = "SPLAY"
    /\ LET r == SPLAY_REMOVE(tree, k) IN Does("REMOVE", k, r.tree, r.result)
    /\ members' = members \ {k}

splay_find(k) ==
    /\ kind = "SPLAY"
    /\ LET r == SPLAY_FIND(tree, k) IN Does("FIND", k, r.tree, r.result)
    /\ UNCHANGED members

splay_min_max(val) ==
    /\ kind = "SPLAY"
    /\ LET r == SPLAY_MIN_MAX(tree, val) IN Does("MINMAX", val, r.tree, r.result)
    /\ UNCHANGED members

TreesNext ==
    \/ \E k \in Keys : rb_insert(k) \/ rb_remove(k) \/ splay_insert(k)
                       \/ splay_remove(k) \/ splay_find(k)
    \/ \E val \in {NEGINF, INF} : splay_min_max(val)

TreesSpec == TreesInit /\ [][TreesNext]_treesVars

-----------------------------------------------------------------------------
(* Properties *)

\* The types of the fields of tree.h; the local node of SPLAY is never left linked.
TreesTypeOK ==
    /\ kind \in {"RB", "SPLAY"} /\ members \subseteq Keys
    /\ tree.root \in Keys \cup {NULL}
    /\ tree.child \in [{LEFT, RIGHT} -> [Keys \cup {node} -> Keys \cup {NULL}]]
    /\ tree.parent \in [Keys -> Keys \cup {NULL}]
    /\ tree.color \in [Keys -> {RB_BLACK, RB_RED}]
    /\ \A s \in {LEFT, RIGHT} : tree.child[s][node] = NULL

\* RB_FOREACH and SPLAY_FOREACH visit the elements of the tree, each once and
\* in order, after any sequence of insertions, removals and lookups, although
\* SPLAY_NEXT changes the tree it walks over.
ForeachVisitsMembers ==
    LET visited == IF kind = "RB"
                   THEN RB_FOREACH(tree, RB_MINMAX(tree, LEFT), Cardinality(Keys) + 1)
                   ELSE SPLAY_FOREACH(tree)
    IN  /\ ToSet(visited) = members
        /\ \A i \in 1..Len(visited) - 1 : visited[i] < visited[i + 1]

RECURSIVE BlackHeights(_)
BlackHeights(x) ==
    IF x = NULL THEN {0}
    ELSE {h + (IF tree.color[x] = RB_BLACK THEN 1 ELSE 0) :
          h \in BlackHeights(tree.child[LEFT][x]) \cup BlackHeights(tree.child[RIGHT][x])}

\* The conditions that the comment of tree.h states of red-black trees: every
\* path from the root has the same number of black nodes and no red node has a
\* red parent; and the root is black, so that RB_INSERT_COLOR always finds a
\* grandparent.
RedBlackConditions ==
    kind = "RB" =>
        /\ Cardinality(BlackHeights(tree.root)) = 1
        /\ IsBlack(tree, tree.root)
        /\ \A x \in members : IsBlack(tree, x) \/ IsBlack(tree, tree.parent[x])

\* The parent fields agree with the child fields, which RB_NEXT and
\* RB_REMOVE_COLOR rely on when they walk up.
ParentsAgree ==
    kind = "RB" => \A x \in members :
        IF tree.parent[x] = NULL THEN tree.root = x
        ELSE \E s \in {LEFT, RIGHT} : tree.child[s][tree.parent[x]] = x

\* The results are those of a set: RB_INSERT and SPLAY_INSERT return the
\* element that is there already, SPLAY_REMOVE and SPLAY_FIND an element of
\* the set, SPLAY_MIN and SPLAY_MAX its ends; and RB_FIND finds the members.
ResultsAreOfSet ==
    [][/\ last'.op \in {"INSERT", "REMOVE", "FIND"} =>
            last'.result = IF last'.key \in members THEN last'.key ELSE NULL
       /\ last'.op = "MINMAX" /\ members # {} =>
            last'.result = IF last'.key = NEGINF THEN Min(members) ELSE Max(members)
       /\ kind = "RB" =>
            \A k \in Keys : RB_FIND(tree', k) = IF k \in members' THEN k ELSE NULL]_treesVars

\* "The splay moves the requested node to the root of the tree": whatever is
\* found or inserted is at the root afterwards.
SplayedToRoot ==
    (kind = "SPLAY" /\ last.op \in {"FIND", "INSERT"} /\ last.key \in members)
        => tree.root = last.key

\* What the comments of tree.h promise of both trees, after any operations.
TreeConditions == ForeachVisitsMembers /\ RedBlackConditions /\ ParentsAgree /\ SplayedToRoot

=============================================================================
