--------------------------- MODULE LayoutPosition ---------------------------
(***************************************************************************)
(* Coordinates (graph_layout.cpp, PositionY, PositionX and Finish).        *)
(* Lengths are counted in eighths of the code's unit, so that the halves   *)
(* it takes are integers.                                                  *)
(***************************************************************************)
EXTENDS LayoutOrder

EdgeSep == 8 * 20
LoopExtentBare == (8 * 34 * 3) \div 4 + 8 * 6

LoopExtent(in, k) ==
    LET e == in.edge[k]
        label == IF Horizontal(in) THEN e.lh ELSE e.lw
    IN  LoopExtentBare + (IF e.lw > 0 THEN label + 8 * 6 ELSE 0)

\* A dummy as wide as each self loop goes right after its node.
InsertSelfEdges(in, g) ==
    LET Loop(a, k) ==
          [g |-> AddNode(a.g, [BlankNode EXCEPT !.dummy = "self", !.width = LoopExtent(in, k),
                                                !.rank = a.rank, !.order = a.next]),
           next |-> a.next + 1, rank |-> a.rank]
        Visited(a, v) ==
          FoldLeft(Loop, [g |-> [a.g EXCEPT !.node[v].order = a.next],
                          next |-> a.next + 1, rank |-> g.node[v].rank], g.node[v].loops)
        Layer(h, layer) == FoldLeft(Visited, [g |-> h, next |-> 0, rank |-> 0], layer).g
    IN  FoldLeft(Layer, g, BuildLayerMatrix(g))

PositionY(g, rankSep) ==
    LET Layer(a, layer) ==
          LET tall == Max({0} \cup {g.node[layer[i]].height : i \in DOMAIN layer})
          IN  [g |-> [a.g EXCEPT !.node = [v \in DOMAIN @ |->
                       IF Contains(layer, v) THEN [@[v] EXCEPT !.y = a.y + tall \div 2] ELSE @[v]]],
               y |-> a.y + tall + rankSep]
    IN  FoldLeft(Layer, [g |-> g, y |-> 0], BuildLayerMatrix(g)).g

\* ---- conflicts (sets of pairs of nodes that must not be aligned) ----

InnerNeighbour(g, v) ==
    LET us == IF IsDummy(g, v) THEN SelectSeq(Predecessors(g, v), LAMBDA u : IsDummy(g, u)) ELSE <<>>
    IN  IF us = <<>> THEN 0 ELSE Head(us)

\* Edges of a layer that cross the segment between two dummies.
Type1(g, prev, layer) ==
    LET Scan(a, i) ==
          LET w == InnerNeighbour(g, layer[i])
              k1 == IF w # 0 THEN g.node[w].order ELSE Len(prev)
              crossed == {<<u, v>> \in LiveNodes(g) \X {layer[j] : j \in a.from .. i} :
                            /\ Contains(Predecessors(g, v), u)
                            /\ g.node[u].order < a.k0 \/ k1 < g.node[u].order
                            /\ ~(IsDummy(g, u) /\ IsDummy(g, v))}
          IN  IF w = 0 /\ i # Len(layer) THEN a
              ELSE [from |-> i + 1, k0 |-> k1, found |-> a.found \cup {{p[1], p[2]} : p \in crossed}]
    IN  FoldLeft(Scan, [from |-> 1, k0 |-> 0, found |-> {}], [i \in DOMAIN layer |-> i]).found

\* Dummy segments that cross a cluster's border.
Type2(g, north, south) ==
    LET Outside(from, to, lo, hi) ==
          {{p[1], p[2]} : p \in {<<u, v>> \in LiveNodes(g) \X {south[j] : j \in from .. to} :
                            /\ IsDummy(g, u) /\ IsDummy(g, v) /\ Contains(Predecessors(g, v), u)
                            /\ g.node[u].order < lo \/ g.node[u].order > hi}}
        Scan(a, i) ==
          LET preds == IF g.node[south[i]].dummy = "border" THEN Predecessors(g, south[i]) ELSE <<>>
              edge == g.node[preds[1]].order
              b == IF preds = <<>> THEN a
                   ELSE [from |-> i, lo |-> edge, next |-> edge,
                         found |-> a.found \cup Outside(a.from, i - 1, a.lo, edge)]
          IN  [b EXCEPT !.found = @ \cup Outside(b.from, Len(south), b.next, Len(north))]
    IN  FoldLeft(Scan, [from |-> 1, lo |-> -1, next |-> -1, found |-> {}], [i \in DOMAIN south |-> i]).found

Conflicts(g, layering) ==
    UNION {Type1(g, layering[k - 1], layering[k]) \cup Type2(g, layering[k - 1], layering[k])
              : k \in 2 .. Len(layering)}

\* ---- one of the four alignments ----

\* Blocks of vertically aligned nodes; the root of a block is its first node.
VerticalAlignment(g, layering, conflicts, usePreds) ==
    LET all == UNION {ToSet(layering[k]) : k \in DOMAIN layering}
        Layer(v) == CHOOSE k \in DOMAIN layering : Contains(layering[k], v)
        pos == Table([v \in all |-> SelectInSeq(layering[Layer(v)], LAMBDA x : x = v)])
        Medians(v) ==
          LET ws == SortSeq(IF usePreds THEN Predecessors(g, v) ELSE Successors(g, v),
                            LAMBDA a, b : pos[a] < pos[b])
          IN  IF ws = <<>> THEN <<>> ELSE SubSeq(ws, (Len(ws) + 1) \div 2, Len(ws) \div 2 + 1)
        Try(v, a, w) ==
          IF a.align[v] = v /\ a.prev < pos[w] /\ {v, w} \notin conflicts
          THEN [prev |-> pos[w], root |-> [a.root EXCEPT ![v] = a.root[w]],
                align |-> [a.align EXCEPT ![w] = v, ![v] = a.root[w]]]
          ELSE a
        Node(a, v) == FoldLeft(LAMBDA b, w : Try(v, b, w), a, Medians(v))
        Align(a, layer) == FoldLeft(Node, [a EXCEPT !.prev = 0], layer)
        self == Table([v \in all |-> v])
    IN  FoldLeft(Align, [prev |-> 0, root |-> self, align |-> self], layering).root

\* Mutant: the widths are left out of the separation.
SepOfPoints(g, nodeSep, v, w) == IF IsDummy(g, v) \/ IsDummy(g, w) THEN EdgeSep ELSE nodeSep

Sep(g, nodeSep, v, w) ==
    LET Gap(u) == (IF IsDummy(g, u) THEN EdgeSep ELSE nodeSep) \div 2
    IN  g.node[v].width \div 2 + Gap(v) + Gap(w) + g.node[w].width \div 2

\* The block graph: for each pair of neighbouring blocks the largest
\* separation any of their layers asks for.
BlockEdges(layering, root) ==
    UNION {{<<root[layering[k][i]], root[layering[k][i + 1]]>> : i \in 1 .. Len(layering[k]) - 1}
              : k \in DOMAIN layering}

BlockDist(g, nodeSep, layering, root, b, c) ==
    Max(UNION {{Sep(g, nodeSep, layering[k][i], layering[k][i + 1]) :
                   i \in {j \in 1 .. Len(layering[k]) - 1 :
                             root[layering[k][j]] = b /\ root[layering[k][j + 1]] = c}}
                 : k \in DOMAIN layering})

\* A topological order of the blocks; shorter than their number on a cycle.
RECURSIVE Topo(_, _, _)
Topo(blocks, es, done) ==
    LET free == {b \in blocks : ~Contains(done, b) /\ \A e \in es : e[2] = b => Contains(done, e[1])}
    IN  IF free = {} THEN done ELSE Topo(blocks, es, done \o Ascending(free))

\* Coordinates of the blocks from the left, then pulled right where there is
\* room; a border of the side the layout packs towards stays.
HorizontalCompaction(g, nodeSep, layering, root, topo, right) ==
    LET es == BlockEdges(layering, root)
        dist == Table([e \in es |-> BlockDist(g, nodeSep, layering, root, e[1], e[2])])
        side == IF right THEN "left" ELSE "right"
        Leftmost(xs, b) ==
          (b :> Max({0} \cup {xs[e[1]] + dist[e] : e \in {f \in es : f[2] = b}})) @@ xs
        Pull(xs, b) ==
          LET outs == {e \in es : e[1] = b}
          IN  IF outs = {} \/ g.node[b].border = side THEN xs
              ELSE [xs EXCEPT ![b] = Max({@, Min({xs[e[2]] - dist[e] : e \in outs})})]
        xs == FoldLeft(Pull, FoldLeft(Leftmost, <<>>, topo), Reverse(topo))
    IN  Table([v \in DOMAIN root |-> xs[root[v]]])

\* The fallback when the block graph has a cycle: every layer on its own.
Packed(g, nodeSep, layering) ==
    LET Layer(xs, layer) ==
          FoldLeft(LAMBDA a, i :
                (layer[i] :> IF i = 1 THEN 0
                             ELSE a[layer[i - 1]] + Sep(g, nodeSep, layer[i - 1], layer[i])) @@ a,
              xs, [i \in DOMAIN layer |-> i])
    IN  FoldLeft(Layer, <<>>, layering)

\* The layers as seen from the corner an alignment starts in.
Sided(layering, down, right) ==
    LET turned == IF down THEN Reverse(layering) ELSE layering
    IN  Table([k \in DOMAIN turned |-> IF right THEN Reverse(turned[k]) ELSE turned[k]])

Compact(g, nodeSep, layering, root, topo, right) ==
    IF Len(topo) = Cardinality(Range(root))
    THEN HorizontalCompaction(g, nodeSep, layering, root, topo, right)
    ELSE Packed(g, nodeSep, layering)

Coordinates(g, nodeSep, layering, root, right) ==
    LET xs == Compact(g, nodeSep, layering, root,
                      Topo(Range(root), BlockEdges(layering, root), <<>>), right)
    IN  Table([v \in DOMAIN root |-> IF right THEN -xs[v] ELSE xs[v]])

Alignment(g, nodeSep, layering, conflicts, down, right) ==
    LET Aligned(sided) ==
          Coordinates(g, nodeSep, sided, VerticalAlignment(g, sided, conflicts, ~down), right)
    IN  Aligned(Sided(layering, down, right))

\* The mean of the two middle values of four.
Balance(c) ==
    (c[1] + c[2] + c[3] + c[4] - Max({c[i] : i \in 1 .. 4}) - Min({c[i] : i \in 1 .. 4})) \div 2

\* The first of the alignments that is not wider than any other.
Narrowest(g, xss) ==
    LET Width(xs) == Max({xs[v] + g.node[v].width \div 2 : v \in DOMAIN xs})
                     - Min({xs[v] - g.node[v].width \div 2 : v \in DOMAIN xs})
        widths == Table([a \in DOMAIN xss |-> Width(xss[a])])
    IN  CHOOSE a \in DOMAIN xss : \A b \in DOMAIN xss :
            widths[a] < widths[b] \/ (widths[a] = widths[b] /\ a <= b)

\* The left alignments are moved to the left end of the narrowest, the right
\* ones to its right end, and every node goes to the middle.
AlignCoordinates(xss, best) ==
    LET Shift(a) == IF a \in {1, 3} THEN Min(Range(xss[best])) - Min(Range(xss[a]))
                    ELSE Max(Range(xss[best])) - Max(Range(xss[a]))
        shifts == Table([a \in 1 .. 4 |-> Shift(a)])
    IN  Table([v \in DOMAIN xss[best] |-> Balance([a \in 1 .. 4 |-> xss[a][v] + shifts[a]])])

Balanced(g, xss) == AlignCoordinates(xss, Narrowest(g, xss))

SetX(g, xs) ==
    [g EXCEPT !.node = [v \in DOMAIN @ |-> IF v \in DOMAIN xs THEN [@[v] EXCEPT !.x = xs[v]] ELSE @[v]]]

PositionX(g, nodeSep) ==
    LET layering == BuildLayerMatrix(g)
        conflicts == Conflicts(g, layering)
    IN  SetX(g, Balanced(g, Table([a \in 1 .. 4 |->
                Alignment(g, nodeSep, layering, conflicts, a > 2, a \in {2, 4})])))

\* ---- results ----

ToFinal(in, x, y) ==
    CASE in.direction = "TB" -> <<x, y>>
      [] in.direction = "BT" -> <<x, -y>>
      [] in.direction = "LR" -> <<y, x>>
      [] in.direction = "RL" -> <<-y, x>>

Center(in, g, v) == ToFinal(in, g.node[v].x, g.node[v].y)

\* The bends of an input edge in the direction of the input, whatever way
\* the acyclic graph turned it.
EdgePoints(in, g, k) ==
    LET own == {e \in DOMAIN g.edge : g.edge[e].input = k}
        chain == FlattenSeq([i \in DOMAIN Ascending(own) |-> Chain(g, Ascending(own)[i])])
        turned == \E e \in own : g.edge[e].reversed
    IN  <<in.edge[k].from>> \o (IF turned THEN Reverse(chain) ELSE chain) \o <<in.edge[k].to>>

\* The frame of a cluster, from its border nodes, widened for its title.
ClusterRect(in, g, c) ==
    LET n == g.node[ClusterNode(in, c)]
        lx == Min({g.node[b].x - g.node[b].width \div 2 : b \in Range(n.left)})
        rx == Max({g.node[b].x + g.node[b].width \div 2 : b \in Range(n.right)})
        p == ToFinal(in, lx, g.node[n.top].y - g.node[n.top].height \div 2)
        q == ToFinal(in, rx, g.node[n.bottom].y + g.node[n.bottom].height \div 2)
        x0 == Min({p[1], q[1]})
        x1 == Max({p[1], q[1]})
        grow == Max({0, (in.cluster[c].tw + 2 * ClusterPadding - (x1 - x0)) \div 2})
    IN  [x0 |-> x0 - grow, x1 |-> x1 + grow, y0 |-> Min({p[2], q[2]}), y1 |-> Max({p[2], q[2]})]
=============================================================================
