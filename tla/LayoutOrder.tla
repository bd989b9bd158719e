---------------------------- MODULE LayoutOrder ----------------------------
(***************************************************************************)
(* The order of the nodes of every rank (graph_layout.cpp, Order and the   *)
(* operators it calls): layers swept up and down, each sorted by the       *)
(* barycenter of its neighbours with the members of a cluster kept         *)
(* together.  A barycenter is kept as the pair (sum, weight) whose         *)
(* quotient it is; an entry without one has weight 0.                      *)
(***************************************************************************)
EXTENDS LayoutRanks

LayerRoot == -2

MaxRank(g) == Max({0} \cup {g.node[v].rank : v \in Ranked(g)})

InLayer(g, r) == {v \in Ranked(g) : ~HasChildren(g, v) /\ g.node[v].rank = r}
Before(g, v, w) ==
    \/ g.node[v].order < g.node[w].order
    \/ g.node[v].order = g.node[w].order /\ v < w

\* Layer r of the matrix is its element r + 1.
BuildLayerMatrix(g) ==
    Table([k \in 1 .. MaxRank(g) + 1 |->
        SortedBy(InLayer(g, k - 1), LAMBDA v, w : Before(g, v, w))])

SetOrder(g, layer) ==
    FoldLeft(LAMBDA h, i : [h EXCEPT !.node[layer[i]].order = i - 1], g, [i \in DOMAIN layer |-> i])
AssignOrder(g, layering) == FoldLeft(SetOrder, g, layering)

RECURSIVE Discover(_, _, _)
Discover(g, seen, v) ==
    IF Contains(seen, v) THEN seen
    ELSE FoldLeft(LAMBDA s, w : Discover(g, s, w), Append(seen, v), Successors(g, v))

InitOrder(g) ==
    LET simple == SortedBy(Ranked(g) \cap Leaves(g), LAMBDA v, w :
            \/ g.node[v].rank < g.node[w].rank
            \/ g.node[v].rank = g.node[w].rank /\ v < w)
        found == FoldLeft(LAMBDA s, v : Discover(g, s, v), <<>>, simple)
    IN  [k \in 1 .. MaxRank(g) + 1 |-> SelectSeq(found, LAMBDA v : g.node[v].rank = k - 1)]

\* ---- one layer: its nodes and the clusters that span it ----

LayerNodes(g, r) ==
    {v \in LiveNodes(g) : \/ g.node[v].rank = r
                          \/ g.node[v].min # NoRank /\ r \in g.node[v].min .. g.node[v].max}

LayerParent(g, v) == IF g.node[v].parent = 0 THEN LayerRoot ELSE g.node[v].parent
LayerChildren(g, r, p) == Ascending({v \in LayerNodes(g, r) : LayerParent(g, v) = p})

\* The neighbours of v in the layer the sweep comes from, and the edges to them.
LayerIn(g, v, down) == IF down THEN InEdges(g, v) ELSE OutEdges(g, v)
Far(g, e, v) == IF g.edge[e].v = v THEN g.edge[e].w ELSE g.edge[e].v

Entry(vs, i, sum, weight) ==
    [vs |-> vs, i |-> i, sum |-> sum, weight |-> weight,
     indegree |-> 0, ins |-> <<>>, outs |-> <<>>, merged |-> FALSE]

Barycenter(g, v, i, down) ==
    LET In == LayerIn(g, v, down)
    IN  Entry(<<v>>, i,
              FoldLeft(LAMBDA n, e : n + g.edge[e].weight * g.node[Far(g, e, v)].order, 0, In),
              FoldLeft(LAMBDA n, e : n + g.edge[e].weight, 0, In))

\* e's barycenter is at least f's; an entry without one never comes before another.
NotBefore(e, f) ==
    e.weight = 0 \/ f.weight = 0 \/ e.sum * f.weight >= f.sum * e.weight

MergeInto(es, k, u) ==
    [es EXCEPT ![k] = [@ EXCEPT !.vs = es[u].vs \o @, !.sum = @ + es[u].sum,
                                !.weight = @ + es[u].weight, !.i = Min({@, es[u].i})],
               ![u].merged = TRUE]

\* Entries whose constraints (pairs of clusters, left to right) disagree with
\* their barycenters are merged; the stack holds the entries with no
\* unprocessed predecessor.
RECURSIVE Drain(_, _, _)
Drain(es, stack, processed) ==
    IF stack = <<>> THEN [es |-> es, order |-> processed]
    ELSE LET k == Last(stack)
             Absorb(a, u) == IF ~a[u].merged /\ NotBefore(a[u], a[k]) THEN MergeInto(a, k, u) ELSE a
             merged == FoldLeft(Absorb, es, Reverse(es[k].ins))
             Release(a, w) ==
               LET b == [a.es EXCEPT ![w].ins = Append(@, k), ![w].indegree = @ - 1]
               IN  [es |-> b, stack |-> IF b[w].indegree = 0 THEN Append(a.stack, w) ELSE a.stack]
             next == FoldLeft(Release, [es |-> merged, stack |-> Front(stack)], merged[k].outs)
         IN  Drain(next.es, next.stack, Append(processed, k))

ResolveConflicts(entries, ids, cg) ==
    LET Place(v) == SelectInSeq(ids, LAMBDA x : x = v)
        Link(es, c) ==
          IF {c[1], c[2]} \subseteq ToSet(ids)
          THEN [es EXCEPT ![Place(c[2])].indegree = @ + 1, ![Place(c[1])].outs = Append(@, Place(c[2]))]
          ELSE es
        linked == FoldLeft(Link, entries, cg)
        Start(es) == Drain(es, Ascending({k \in DOMAIN es : es[k].indegree = 0}), <<>>)
        Kept(done) == SelectSeq([j \in DOMAIN done.order |-> done.es[done.order[j]]], LAMBDA e : ~e.merged)
    IN  Kept(Start(linked))

\* ---- sort by barycenter; entries without one keep their index ----

ByIndex(es) == SortSeq(es, LAMBDA e, f : e.i < f.i)
ByBarycenter(es, biasRight) ==
    SortSeq(es, LAMBDA e, f :
        \/ e.sum * f.weight < f.sum * e.weight
        \/ /\ e.sum * f.weight = f.sum * e.weight
           /\ IF biasRight THEN e.i > f.i ELSE e.i < f.i)

RECURSIVE Consume(_)
Consume(a) ==
    IF a.left = <<>> \/ Head(a.left).i > a.index THEN a
    ELSE Consume([vs |-> a.vs \o Head(a.left).vs, left |-> Tail(a.left), index |-> a.index + 1])

SortEntries(entries, biasRight) ==
    LET sortable == ByBarycenter(SelectSeq(entries, LAMBDA e : e.weight # 0), biasRight)
        unsortable == ByIndex(SelectSeq(entries, LAMBDA e : e.weight = 0))
        Put(a, e) == Consume([a EXCEPT !.vs = @ \o e.vs, !.index = @ + Len(e.vs)])
        done == FoldLeft(Put, Consume([vs |-> <<>>, left |-> unsortable, index |-> 0]), sortable)
    IN  Entry(done.vs \o FlattenSeq([i \in DOMAIN done.left |-> done.left[i].vs]), 0,
              FoldLeft(LAMBDA n, e : n + e.sum, 0, sortable),
              FoldLeft(LAMBDA n, e : n + e.weight, 0, sortable))

\* ---- one cluster of a layer, its nested clusters sorted first ----

\* A sorted cluster between its borders, which pull it to their own neighbours.
Framed(g, down, sorted, bl, br) ==
    LET lefts == LayerIn(g, bl, down)
        rights == LayerIn(g, br, down)
        Order(e, b) == g.node[Far(g, e, b)].order
        framed == [sorted EXCEPT !.vs = <<bl>> \o @ \o <<br>>]
    IN  IF lefts = <<>> \/ rights = <<>> THEN framed
        ELSE [framed EXCEPT !.sum = @ + Order(lefts[1], bl) + Order(rights[1], br), !.weight = @ + 2]

RECURSIVE SortSubgraph(_, _, _, _, _, _)
SortSubgraph(g, r, down, p, cg, biasRight) ==
    LET bl == IF p = LayerRoot THEN 0 ELSE g.node[p].left[r]
        br == IF p = LayerRoot THEN 0 ELSE g.node[p].right[r]
        Movable == SelectSeq(LayerChildren(g, r, p), LAMBDA v : v \notin {bl, br})
        Sub(v) == IF LayerChildren(g, r, v) = <<>> THEN Entry(<<v>>, 0, 0, 0)
                  ELSE SortSubgraph(g, r, down, v, cg, biasRight)
        Weigh(movable, sub) == Table([k \in DOMAIN movable |->
            [Barycenter(g, movable[k], k - 1, down) EXCEPT
                !.sum = @ + sub[movable[k]].sum, !.weight = @ + sub[movable[k]].weight]])
        Expand(sub, es) == Table([k \in DOMAIN es |->
            [es[k] EXCEPT !.vs = FlattenSeq([i \in DOMAIN @ |-> sub[@[i]].vs])]])
        Sort(movable, sub) ==
            SortEntries(Expand(sub, ResolveConflicts(Weigh(movable, sub), movable, cg)), biasRight)
        Sorted(movable) == Sort(movable, Table([v \in ToSet(movable) |-> Sub(v)]))
    IN  IF bl = 0 \/ br = 0 THEN Sorted(Movable) ELSE Framed(g, down, Sorted(Movable), bl, br)

\* Mutant: nothing keeps the clusters of a layer in the order of the last one.
NoSubgraphConstraints(g, cg, vs) == cg

\* Clusters of one parent seen left to right in a sorted layer must stay so
\* in the layers sorted after it: for each node, the innermost level at which
\* its cluster follows another one.
AddSubgraphConstraints(g, cg, vs) ==
    LET RECURSIVE Walk(_, _)
        Walk(a, c) ==
          LET p == LayerParent(g, c)
              prev == IF p \in DOMAIN a.prev THEN a.prev[p] ELSE 0
              seen == [a EXCEPT !.prev = (p :> c) @@ @]
          IN  IF c = LayerRoot THEN a
              ELSE IF prev \in {0, c} THEN Walk(seen, p)
              ELSE IF Contains(a.cg, <<prev, c>>) THEN seen
              ELSE [seen EXCEPT !.cg = Append(@, <<prev, c>>)]
    IN  FoldLeft(LAMBDA a, v : Walk(a, LayerParent(g, v)), [cg |-> cg, prev |-> <<>>], vs).cg

\* The weight of the pairs of edges that cross between adjacent layers (a
\* layering is sorted by order).
CrossCount(g) ==
    LET tail(e) == g.node[g.edge[e].v]
        head(e) == g.node[g.edge[e].w]
        From(r) == {e \in LiveEdges(g) : tail(e).rank = r /\ head(e).rank = r + 1}
        Crossed(e) == {f \in From(tail(e).rank) : /\ tail(e).order < tail(f).order
                                                  /\ head(e).order > head(f).order}
        Weight(e) == g.edge[e].weight * MapThenSumSet(LAMBDA f : g.edge[f].weight, Crossed(e))
    IN  MapThenSumSet(Weight, LiveEdges(g))

\* Every layer of one sweep, in the direction it goes.
Sweep(g, down, biasRight) ==
    LET ranks == IF down THEN [k \in 1 .. MaxRank(g) |-> k]
                 ELSE [k \in 1 .. MaxRank(g) |-> MaxRank(g) - k]
        Settle(a, vs) == [g |-> SetOrder(a.g, vs), cg |-> AddSubgraphConstraints(a.g, a.cg, vs)]
        Layer(a, r) == Settle(a, SortSubgraph(a.g, r, down, LayerRoot, a.cg, biasRight).vs)
    IN  FoldLeft(Layer, [g |-> g, cg |-> <<>>], ranks).g
=============================================================================
