---------------------------- MODULE LayoutGraph ----------------------------
(***************************************************************************)
(* The compound multigraph under the diagram layout                        *)
(* (src/src/diagram/graph_layout.cpp, LGraph).  Nodes and edges are        *)
(* numbered from 1 in the order they were added and never renumbered: a    *)
(* removed one stays in its sequence with alive = FALSE.  0 is the code's  *)
(* -1 (no node, no cluster, the root of the compound tree).                *)
(***************************************************************************)
EXTENDS Integers, SequencesExt

NoRank == -1000

\* The incidence lists of the code hold edge numbers in ascending order, and
\* so do AliveNodes and AliveEdges.
Ascending(S) == SelectSeq([i \in 1 .. Max({0} \cup S) |-> i], LAMBDA i : i \in S)
SortedBy(S, Less(_, _)) == SortSeq(Ascending(S), Less)

\* f itself, written so that TLC computes each of its values once.
Table(f) == f @@ <<>>

BlankNode ==
    [width |-> 0, height |-> 0, dummy |-> "none", border |-> "none",
     parent |-> 0, alive |-> TRUE, rank |-> NoRank, order |-> 0,
     cluster |-> 0, top |-> 0, bottom |-> 0, left |-> <<>>, right |-> <<>>,
     min |-> NoRank, max |-> NoRank, ref |-> 0, loops |-> <<>>, x |-> 0, y |-> 0]

BlankEdge ==
    [v |-> 0, w |-> 0, weight |-> 1, minlen |-> 1, width |-> 0, height |-> 0,
     reversed |-> FALSE, nesting |-> FALSE, labelRank |-> NoRank, input |-> 0,
     alive |-> TRUE]

EmptyGraph == [node |-> <<>>, edge |-> <<>>, kids |-> (0 :> <<>>)]

AddNode(g, n) ==
    LET id == Len(g.node) + 1
    IN  [g EXCEPT !.node = Append(@, n),
                  !.kids = (id :> <<>>) @@ [@ EXCEPT ![0] = Append(@, id)]]

SetParent(g, v, p) ==
    LET without == [g.kids EXCEPT ![g.node[v].parent] = Remove(@, v)]
    IN  [g EXCEPT !.node[v].parent = p,
                  !.kids = [without EXCEPT ![p] = Append(@, v)]]

\* A node added and put straight into the cluster p.
AddChild(g, n, p) == SetParent(AddNode(g, n), Len(g.node) + 1, p)

AddEdge(g, v, w, e) ==
    [g EXCEPT !.edge = Append(@, [e EXCEPT !.v = v, !.w = w, !.alive = TRUE])]

RemoveEdges(g, es) ==
    [g EXCEPT !.edge = [i \in DOMAIN @ |->
        IF i \in es THEN [@[i] EXCEPT !.alive = FALSE] ELSE @[i]]]

LiveNodes(g) == {v \in DOMAIN g.node : g.node[v].alive}
LiveEdges(g) == {e \in DOMAIN g.edge : g.edge[e].alive}
OutEdges(g, v) == Ascending({e \in LiveEdges(g) : g.edge[e].v = v})
InEdges(g, v) == Ascending({e \in LiveEdges(g) : g.edge[e].w = v})

\* Only leaves are removed (the nesting root, the label proxies).
RemoveLeaf(g, v) ==
    LET h == RemoveEdges(g, {e \in LiveEdges(g) : v \in {g.edge[e].v, g.edge[e].w}})
    IN  [h EXCEPT !.node[v].alive = FALSE,
                  !.kids = [@ EXCEPT ![g.node[v].parent] = Remove(@, v)]]

AppendNew(s, x) == IF Contains(s, x) THEN s ELSE Append(s, x)
Successors(g, v) == FoldLeft(LAMBDA s, e : AppendNew(s, g.edge[e].w), <<>>, OutEdges(g, v))
Predecessors(g, v) == FoldLeft(LAMBDA s, e : AppendNew(s, g.edge[e].v), <<>>, InEdges(g, v))

HasChildren(g, v) == g.kids[v] # <<>>
Leaves(g) == {v \in LiveNodes(g) : ~HasChildren(g, v)}
Ranked(g) == {v \in LiveNodes(g) : g.node[v].rank # NoRank}
IsDummy(g, v) == g.node[v].dummy # "none"

\* The clusters around v, innermost first, ending at the root.
RECURSIVE Ancestors(_, _)
Ancestors(g, v) ==
    LET p == g.node[v].parent
    IN  IF p = 0 THEN <<0>> ELSE <<p>> \o Ancestors(g, p)
=============================================================================
