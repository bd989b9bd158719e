---------------------------- MODULE LayoutRanks ----------------------------
(***************************************************************************)
(* The stages of Layouter::Run (graph_layout.cpp) that build the graph,    *)
(* give it ranks and cut its edges into chains of one rank each.  Every    *)
(* operator takes the graph of the stage before and returns the next one.  *)
(* The nesting root is the last leaf NestingGraphRun adds before it        *)
(* descends; its number is known from the input.                           *)
(***************************************************************************)
EXTENDS NetworkSimplex

ClusterPadding == 8 * 14

Horizontal(in) == in.direction \in {"LR", "RL"}

\* The clusters that hold a node, directly or through a nested cluster.
RECURSIVE Around(_, _)
Around(in, c) == IF c = 0 THEN {} ELSE {c} \cup Around(in, in.cluster[c].parent)
UsedClusters(in) == UNION {Around(in, in.node[i].cluster) : i \in DOMAIN in.node}

\* The graph node of each used cluster: they follow the input's nodes.
ClusterNode(in, c) ==
    IF c = 0 THEN 0 ELSE Len(in.node) + Cardinality({d \in UsedClusters(in) : d <= c})

BuildLayoutGraph(in) ==
    LET Node(i) == [BlankNode EXCEPT
            !.width = IF Horizontal(in) THEN in.node[i].h ELSE in.node[i].w,
            !.height = IF Horizontal(in) THEN in.node[i].w ELSE in.node[i].h,
            !.loops = Ascending({k \in DOMAIN in.edge : in.edge[k].from = i /\ in.edge[k].to = i})]
        leaves == FoldLeft(LAMBDA g, i : AddNode(g, Node(i)), EmptyGraph, [i \in DOMAIN in.node |-> i])
        used == Ascending(UsedClusters(in))
        frames == FoldLeft(LAMBDA g, c : AddNode(g, [BlankNode EXCEPT !.cluster = c]), leaves, used)
        Hang(g, v, c) == IF c = 0 THEN g ELSE SetParent(g, v, ClusterNode(in, c))
        nested == FoldLeft(LAMBDA g, c : Hang(g, ClusterNode(in, c), in.cluster[c].parent), frames, used)
        filled == FoldLeft(LAMBDA g, i : Hang(g, i, in.node[i].cluster), nested, [i \in DOMAIN in.node |-> i])
        Edge(k) == [BlankEdge EXCEPT
            !.minlen = Max({1, in.edge[k].minLen}), !.input = k,
            !.width = IF in.edge[k].lw = 0 THEN 0 ELSE IF Horizontal(in) THEN in.edge[k].lh ELSE in.edge[k].lw,
            !.height = IF in.edge[k].lw = 0 THEN 0 ELSE IF Horizontal(in) THEN in.edge[k].lw ELSE in.edge[k].lh]
    IN  FoldLeft(LAMBDA g, k : IF in.edge[k].from = in.edge[k].to THEN g
                               ELSE AddEdge(g, in.edge[k].from, in.edge[k].to, Edge(k)),
                 filled, [k \in DOMAIN in.edge |-> k])

MakeSpaceForEdgeLabels(g) ==
    [g EXCEPT !.edge = [e \in DOMAIN @ |-> [@[e] EXCEPT !.minlen = 2 * @]]]

\* The edges that close a cycle in a depth-first search, sources first.
RECURSIVE Feedback(_, _, _, _)
Feedback(g, acc, v, stack) ==
    LET Follow(a, e) ==
          LET w == g.edge[e].w
          IN  IF w \in stack \cup {v} THEN [a EXCEPT !.fas = Append(@, e)]
              ELSE Feedback(g, a, w, stack \cup {v})
    IN  IF v \in acc.seen THEN acc
        ELSE FoldLeft(Follow, [acc EXCEPT !.seen = @ \cup {v}], OutEdges(g, v))

Acyclic(g) ==
    LET sources == Ascending({v \in LiveNodes(g) : InEdges(g, v) = <<>>})
        fas == FoldLeft(LAMBDA a, v : Feedback(g, a, v, {}), [seen |-> {}, fas |-> <<>>],
                        sources \o Ascending(LiveNodes(g))).fas
        Turn(h, e) == AddEdge(RemoveEdges(h, {e}), g.edge[e].w, g.edge[e].v,
                              [g.edge[e] EXCEPT !.reversed = TRUE])
    IN  FoldLeft(Turn, g, fas)

\* ---- nesting graph ----

Depth(g, v) == Len(Ancestors(g, v))
NestingRoot(in) == Len(in.node) + Cardinality(UsedClusters(in)) + 1
NestingHeight(g) ==
    Max({Depth(g, v) : v \in {n \in LiveNodes(g) : g.node[n].dummy \in {"none", "root"}}}) - 1
NodeRankFactor(height) == 2 * height + 1

TopOf(g, v) == IF g.node[v].top # 0 THEN g.node[v].top ELSE v
BottomOf(g, v) == IF g.node[v].bottom # 0 THEN g.node[v].bottom ELSE v

RECURSIVE Nest(_, _, _, _, _)
Nest(in, height, weight, g, v) ==
    LET root == NestingRoot(in)
        title == in.cluster[g.node[v].cluster].th
        Border(side) == [BlankNode EXCEPT !.dummy = "border",
            !.height = ClusterPadding + (IF in.direction = side THEN title ELSE 0)]
        top == Len(g.node) + 1
        framed == LET two == AddChild(AddChild(g, Border("TB"), v), Border("BT"), v)
                  IN  [two EXCEPT !.node[v].top = top, !.node[v].bottom = top + 1]
        Hold(h, child) ==
          LET n == Nest(in, height, weight, h, child)
              leaf == n.node[child].top = 0
              e == [BlankEdge EXCEPT !.nesting = TRUE,
                    !.weight = IF leaf THEN 2 * weight ELSE weight,
                    !.minlen = IF leaf THEN height - Depth(g, v) + 1 ELSE 1]
          IN  AddEdge(AddEdge(n, top, TopOf(n, child), e), BottomOf(n, child), top + 1, e)
        full == FoldLeft(Hold, framed, g.kids[v])
        RootEdge(len) == [BlankEdge EXCEPT !.weight = 0, !.minlen = len]
    IN  IF v = root THEN g
        ELSE IF ~HasChildren(g, v) THEN AddEdge(g, root, v, RootEdge(NodeRankFactor(height)))
        ELSE IF g.node[v].parent # 0 THEN full
        ELSE AddEdge(full, root, top, RootEdge(height + Depth(g, v)))

NestingGraphRun(in, g) ==
    LET rooted == AddNode(g, [BlankNode EXCEPT !.dummy = "root"])
        height == NestingHeight(rooted)
        longer == [rooted EXCEPT !.edge = [e \in DOMAIN @ |->
                     [@[e] EXCEPT !.minlen = @ * NodeRankFactor(height)]]]
        weight == SumFunctionOnSet([e \in LiveEdges(g) |-> g.edge[e].weight], LiveEdges(g)) + 1
    IN  FoldLeft(LAMBDA h, v : Nest(in, height, weight, h, v), longer, longer.kids[0])

NestingGraphCleanup(in, g) ==
    LET h == RemoveLeaf(g, NestingRoot(in))
    IN  RemoveEdges(h, {e \in LiveEdges(h) : h.edge[e].nesting})

\* ---- ranks ----

SetRanks(g, rank) ==
    [g EXCEPT !.node = [v \in DOMAIN @ |->
        IF v \in DOMAIN rank THEN [@[v] EXCEPT !.rank = rank[v]] ELSE @[v]]]

\* A proxy holds the middle rank of every labelled edge while ranks are closed up.
InjectEdgeLabelProxies(g) ==
    LET labelled == Ascending({e \in LiveEdges(g) : g.edge[e].width > 0 /\ g.edge[e].height > 0})
        Middle(e) == LET a == g.node[g.edge[e].v].rank
                     IN  a + (g.node[g.edge[e].w].rank - a) \div 2
    IN  FoldLeft(LAMBDA h, e : AddNode(h, [BlankNode EXCEPT !.dummy = "proxy", !.rank = Middle(e), !.ref = e]),
                 g, labelled)

RemoveEmptyRanks(g) ==
    LET rank == [v \in Ranked(g) |-> g.node[v].rank]
        offset == Min(Range(rank))
        Empty(r) == /\ r \notin Range(rank)
                    /\ (r - offset) % NodeRankFactor(NestingHeight(g)) # 0
    IN  SetRanks(g, [v \in DOMAIN rank |->
            rank[v] - Cardinality({r \in offset .. rank[v] - 1 : Empty(r)})])

NormalizeRanks(g) ==
    LET rank == [v \in Ranked(g) |-> g.node[v].rank]
    IN  SetRanks(g, [v \in DOMAIN rank |-> rank[v] - Min(Range(rank))])

AssignRankMinMax(g) ==
    [g EXCEPT !.node = [v \in DOMAIN @ |->
        IF @[v].top = 0 \/ ~@[v].alive THEN @[v]
        ELSE [@[v] EXCEPT !.min = g.node[g.node[v].top].rank, !.max = g.node[g.node[v].bottom].rank]]]

RemoveEdgeLabelProxies(g) ==
    LET Take(h, v) == RemoveLeaf([h EXCEPT !.edge[h.node[v].ref].labelRank = h.node[v].rank], v)
    IN  FoldLeft(Take, g, Ascending({v \in LiveNodes(g) : g.node[v].dummy = "proxy"}))

\* ---- chains ----

Cut(g, id) ==
    LET e == g.edge[id]
        first == Len(g.node) + 1
        inner == [i \in 1 .. g.node[e.w].rank - g.node[e.v].rank - 1 |-> g.node[e.v].rank + i]
        link == [BlankEdge EXCEPT !.weight = e.weight]
        Link(h, r) ==
          LET label == e.labelRank = r
              n == [BlankNode EXCEPT !.rank = r, !.ref = id,
                    !.dummy = IF label THEN "label" ELSE "edge",
                    !.width = IF label THEN e.width ELSE 0, !.height = IF label THEN e.height ELSE 0]
              prev == IF Len(h.node) < first THEN e.v ELSE Len(h.node)
          IN  AddEdge(AddNode(h, n), prev, Len(h.node) + 1, link)
        strung == FoldLeft(Link, RemoveEdges(g, {id}), inner)
    IN  AddEdge(strung, IF inner = <<>> THEN e.v ELSE Len(strung.node), e.w, link)

NormalizeRun(g) ==
    FoldLeft(Cut, g, Ascending({e \in LiveEdges(g) : g.node[g.edge[e].w].rank # g.node[g.edge[e].v].rank + 1}))

\* The dummies of the edge e, from its tail to its head.
Chain(g, e) == Ascending({v \in LiveNodes(g) : g.node[v].ref = e /\ g.node[v].dummy \in {"edge", "label"}})
Chains(g) == Ascending({g.node[v].ref : v \in LiveNodes(g)} \ {0})

\* The clusters an edge leaves, their common ancestor, the clusters it enters.
RECURSIVE Climb(_, _)
Climb(s, stop) == IF Head(s) \in stop THEN <<Head(s)>> ELSE <<Head(s)>> \o Climb(Tail(s), stop)
Path(g, e) ==
    LET up == Climb(Ancestors(g, g.edge[e].v), ToSet(Ancestors(g, g.edge[e].w)))
        down == Climb(Ancestors(g, g.edge[e].w), {Last(up)})
    IN  [up |-> up, all |-> up \o Tail(Reverse(down))]

ParentDummyChains(g) ==
    LET \* how far along the path a dummy of rank r stands, from the place i of the one before
        Up(path, i, r) ==
          IF i >= Len(path.up) THEN i
          ELSE Min({j \in i .. Len(path.up) : j = Len(path.up) \/ g.node[path.all[j]].max >= r})
        Down(path, i, r) ==
          IF i < Len(path.up) THEN i
          ELSE Max({j \in i .. Len(path.all) : \A k \in i + 1 .. j : g.node[path.all[k]].min <= r})
        Put(h, v, p) == IF p = 0 THEN h ELSE SetParent(h, v, p)
        Stand(a, path, v, i) == [i |-> i, h |-> Put(a.h, v, path.all[i])]
        Place(a, path, v) ==
          Stand(a, path, v, Down(path, Up(path, a.i, g.node[v].rank), g.node[v].rank))
        Along(h, path, e) == FoldLeft(LAMBDA a, v : Place(a, path, v), [i |-> 1, h |-> h], Chain(g, e)).h
    IN  FoldLeft(LAMBDA h, e : Along(h, Path(g, e), e), g, Chains(g))

\* ---- the left and right borders of every cluster, one pair a rank ----

AddBorderNode(in, g, side, c, r) ==
    LET n == [BlankNode EXCEPT !.dummy = "border", !.border = side, !.rank = r,
                !.width = IF Horizontal(in) /\ side = "left" THEN in.cluster[g.node[c].cluster].th ELSE 0]
        id == Len(g.node) + 1
        old == IF side = "left" THEN g.node[c].left ELSE g.node[c].right
        added == AddChild(g, n, c)
        listed == IF side = "left" THEN [added EXCEPT !.node[c].left = (r :> id) @@ @]
                                   ELSE [added EXCEPT !.node[c].right = (r :> id) @@ @]
    IN  IF r - 1 \in DOMAIN old THEN AddEdge(listed, old[r - 1], id, BlankEdge) ELSE listed

RECURSIVE AddBorders(_, _, _)
AddBorders(in, g, v) ==
    LET inner == FoldLeft(LAMBDA h, c : AddBorders(in, h, c), g, g.kids[v])
        Pair(h, r) == AddBorderNode(in, AddBorderNode(in, h, "left", v, r), "right", v, r)
    IN  IF v = 0 \/ g.node[v].top = 0 THEN inner
        ELSE FoldLeft(Pair, inner, [i \in 1 .. g.node[v].max - g.node[v].min + 1 |-> g.node[v].min + i - 1])

AddBorderSegments(in, g) == AddBorders(in, g, 0)
=============================================================================
