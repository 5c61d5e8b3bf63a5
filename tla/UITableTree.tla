------------------------------ MODULE UITableTree ------------------------------
(***************************************************************************)
(* ui/UITableTree.js with UITableTree.jtpl: a tree shown as the rows of a  *)
(* table.  A node is the path that its id is made of: <<1, 2>> is the      *)
(* second child of the first root ('id-0-1').  The rows know only their    *)
(* depth, a class and whether they are displayed, and a click on a toggle  *)
(* works on these; the nodes are not asked.                                *)
(***************************************************************************)
EXTENDS Naturals, Sequences, FiniteSets, SequencesExt

CONSTANTS MaxNode   \* bound: the nodes of the tree

ASSUME TreeAssumption == MaxNode \in Nat

VARIABLES
  tree,    \* the nodes
  rows,    \* the rows of the page, in their order: the node of each
  depth,   \* per row: data-depth
  closed,  \* per row: it has the class 'expand' (not 'collapse')
  shown    \* per row: it is displayed

rowVars == <<depth, closed, shown>>
vars == <<tree, rows, rowVars>>

Row == DOMAIN depth

-----------------------------------------------------------------------------
(* The tree, and the order in which render() writes its nodes               *)

Children(node) == {n \in tree : Len(n) = Len(node) + 1 /\ IsPrefix(node, n)}
IsAncestor(m, n) == m # n /\ IsPrefix(m, n)

\* A node is written before what is below it, and before its later siblings.
WrittenBefore(m, n) ==
  \/ IsAncestor(m, n)
  \/ \E k \in DOMAIN m \cap DOMAIN n :
       m[k] < n[k] /\ SubSeq(m, 1, k - 1) = SubSeq(n, 1, k - 1)

\* The row of a node comes after those of the nodes that are written before it.
Place(n) == Cardinality({m \in tree : WrittenBefore(m, n)}) + 1

-----------------------------------------------------------------------------
Init == tree = {} /\ rows = <<>> /\ depth = <<>> /\ closed = <<>> /\ shown = <<>>

\* addNode and addChild: a node is the last of its siblings.  The trees of the
\* program are complete before they are rendered.
AddNode ==
  /\ rows = <<>> /\ Cardinality(tree) < MaxNode
  /\ tree' = tree \cup {<<Cardinality(Children(<<>>)) + 1>>}
  /\ UNCHANGED <<rows, rowVars>>

AddChild ==
  /\ rows = <<>> /\ Cardinality(tree) < MaxNode
  /\ \E node \in tree :
       tree' = tree \cup {Append(node, Cardinality(Children(node)) + 1)}
  /\ UNCHANGED <<rows, rowVars>>

\* A row is displayed unless its parent's node is collapsed, and every node is;
\* a tree that is rendered again is collapsed again.
Render ==
  /\ rows' = [r \in 1 .. Cardinality(tree) |-> CHOOSE n \in tree : Place(n) = r]
  /\ depth' = [r \in DOMAIN rows' |-> Len(rows'[r]) - 1]
  /\ closed' = [r \in DOMAIN rows' |-> TRUE]
  /\ shown' = [r \in DOMAIN rows' |-> depth'[r] = 0]
  /\ UNCHANGED tree

\* findChildren: the rows after r up to the first one that is not deeper.
Below(r) == {c \in Row : r < c /\ \A k \in Row : r < k /\ k <= c => depth[r] < depth[k]}

\* Bug: a row opens with everything below it.
Affected_All(r) == Below(r)

\* The rows that a click on r hides or displays: not those below a row that is
\* closed itself.
Affected(r) == Below(r) \ UNION {Below(s) : s \in {c \in Below(r) : closed[c]}}

Close(r) ==
  /\ ~closed[r]
  /\ closed' = [closed EXCEPT ![r] = TRUE]
  /\ shown' = [c \in Row |-> shown[c] /\ c \notin Affected(r)]

Open(r) ==
  /\ closed[r]
  /\ closed' = [closed EXCEPT ![r] = FALSE]
  /\ shown' = [c \in Row |-> shown[c] \/ c \in Affected(r)]

\* A click: a row that is displayed has a toggle if its node has children.
Toggle(r) ==
  /\ shown[r] /\ Children(rows[r]) # {}
  /\ Close(r) \/ Open(r)
  /\ UNCHANGED <<tree, rows, depth>>

-----------------------------------------------------------------------------
Next == AddNode \/ AddChild \/ Render \/ \E r \in Row : Toggle(r)

Spec == Init /\ [][Next]_vars

-----------------------------------------------------------------------------
(* Properties                                                              *)

\* The state of the rows.
TypeOK ==
  /\ depth \in Seq(Nat)
  /\ closed \in [Row -> BOOLEAN]
  /\ shown \in [Row -> BOOLEAN]

\* The rows that are deeper and follow without a gap are those of the nodes
\* below: the page keeps no other trace of the tree.
BelowIsDescendants ==
  \A r \in Row : Below(r) = {c \in Row : IsAncestor(rows[r], rows[c])}

\* A node is displayed exactly when all its ancestors in the tree are open,
\* whatever was opened and closed before, and in whatever order; and what a
\* click takes for the rows below is the nodes below.
RowsShowTree ==
  /\ BelowIsDescendants
  /\ \A c \in Row :
       shown[c] <=> \A r \in Row : IsAncestor(rows[r], rows[c]) => ~closed[r]

\* The second part of the rows alone: a row is displayed unless it is below a closed one.
ShownIffUncovered ==
  \A c \in Row : shown[c] <=> \A r \in Row : c \in Below(r) => ~closed[r]
=============================================================================
