--------------------------- MODULE NetworkSimplex ---------------------------
(***************************************************************************)
(* Ranking by network simplex (graph_layout.cpp, class NetworkSimplex) on  *)
(* the simplified graph: the leaves, with parallel edges merged.  A value  *)
(* s holds the object's fields; every operator returns a new s.            *)
(*   s.edge   merged edges [v, w, weight, minlen], in order of appearance  *)
(*   s.rank   the rank of each leaf                                        *)
(*   s.reach  m_treeNodes, in the order they joined the tree               *)
(*   s.tree   tree edges [a, b, cut, alive], numbered as they were added   *)
(*   s.low, s.lim, s.par  post-order numbering of the tree                 *)
(***************************************************************************)
EXTENDS LayoutGraph

Merged(g) ==
    LET Join(r, id) ==
          LET e == g.edge[id]
              k == SelectInSeq(r, LAMBDA x : x.v = e.v /\ x.w = e.w)
          IN  IF k = 0
              THEN Append(r, [v |-> e.v, w |-> e.w, weight |-> e.weight, minlen |-> e.minlen])
              ELSE [r EXCEPT ![k].weight = @ + e.weight, ![k].minlen = Max({@, e.minlen})]
    IN  FoldLeft(Join, <<>>, Ascending({id \in LiveEdges(g) :
                                  {g.edge[id].v, g.edge[id].w} \subseteq Leaves(g)}))

Slack(s, e) == s.rank[s.edge[e].w] - s.rank[s.edge[e].v] - s.edge[e].minlen
FindEdge(s, v, w) == SelectInSeq(s.edge, LAMBDA e : e.v = v /\ e.w = w)
NodeEdges(s, v) == Ascending({e \in DOMAIN s.edge : s.edge[e].w = v})
                   \o Ascending({e \in DOMAIN s.edge : s.edge[e].v = v})

LongestPath(s) ==
    LET path[v \in DOMAIN s.rank] ==
          LET outs == {e \in DOMAIN s.edge : s.edge[e].v = v}
          IN  IF outs = {} THEN 0
              ELSE Min({path[s.edge[e].w] - s.edge[e].minlen : e \in outs})
    IN  [s EXCEPT !.rank = [v \in DOMAIN s.rank |-> path[v]]]

InTree(s, v) == Contains(s.reach, v)
LiveTree(s) == {t \in DOMAIN s.tree : s.tree[t].alive}
Adjacent(s, v) == Ascending({t \in LiveTree(s) : v \in {s.tree[t].a, s.tree[t].b}})
Other(s, t, v) == IF s.tree[t].a = v THEN s.tree[t].b ELSE s.tree[t].a
\* 0 when no tree edge joins v and w.
TreeEdgeBetween(s, v, w) == Max({0} \cup {t \in LiveTree(s) : {s.tree[t].a, s.tree[t].b} = {v, w}})
AddTreeEdge(s, a, b) == [s EXCEPT !.tree = Append(@, [a |-> a, b |-> b, cut |-> 0, alive |-> TRUE])]

RECURSIVE Grow(_, _)
Grow(s, v) ==
    LET Follow(t, e) ==
          LET w == IF v = t.edge[e].v THEN t.edge[e].w ELSE t.edge[e].v
          IN  IF InTree(t, w) \/ Slack(t, e) # 0 THEN t
              ELSE Grow(AddTreeEdge([t EXCEPT !.reach = Append(@, w)], v, w), w)
    IN  FoldLeft(Follow, s, NodeEdges(s, v))

TightTree(s) == FoldLeft(Grow, s, s.reach)

\* The constructor, LongestPath and the first node of FeasibleTree.
StartSimplex(g) ==
    LongestPath([edge |-> Merged(g), rank |-> [v \in Leaves(g) |-> 0],
                 reach |-> <<Min(Leaves(g))>>, tree |-> <<>>,
                 low |-> <<>>, lim |-> <<>>, par |-> <<>>])

Spans(s) == Len(s.reach) = Cardinality(DOMAIN s.rank)

\* One turn of FeasibleTree's loop: pull the tree towards the nearest edge
\* that leaves it.
Crossing(s) == {e \in DOMAIN s.edge : InTree(s, s.edge[e].v) # InTree(s, s.edge[e].w)}
Nearest(s, es) ==
    Min({e \in es : \A f \in es : Slack(s, e) <= Slack(s, f)})
ShiftTree(s) ==
    LET best == Nearest(s, Crossing(s))
        delta == IF InTree(s, s.edge[best].v) THEN Slack(s, best) ELSE -Slack(s, best)
    IN  [s EXCEPT !.rank = [v \in DOMAIN @ |-> IF InTree(s, v) THEN @[v] + delta ELSE @[v]]]

\* low and lim of a depth-first walk of the tree from its first node.
RECURSIVE Visit(_, _, _)
Visit(acc, v, parent) ==
    LET s == acc.s
        entered == [acc EXCEPT !.seen = @ \cup {v}, !.low = (v :> acc.next) @@ @,
                               !.par = (v :> parent) @@ @]
        Step(a, t) == LET w == Other(s, t, v)
                      IN  IF w \in a.seen THEN a ELSE Visit(a, w, v)
        done == FoldLeft(Step, entered, Adjacent(s, v))
    IN  [done EXCEPT !.lim = (v :> done.next) @@ @, !.next = @ + 1]

InitLowLim(s) ==
    LET a == Visit([s |-> s, next |-> 1, seen |-> {}, low |-> <<>>, lim |-> <<>>, par |-> <<>>],
                   Head(s.reach), 0)
    IN  [s EXCEPT !.low = a.low, !.lim = a.lim, !.par = a.par]

CalcCutValue(s, child) ==
    LET parent == s.par[child]
        childIsTail == FindEdge(s, child, parent) # 0
        ge == IF childIsTail THEN FindEdge(s, child, parent) ELSE FindEdge(s, parent, child)
        Add(sum, e) ==
          LET out == s.edge[e].v = child
              other == IF out THEN s.edge[e].w ELSE s.edge[e].v
              sign == IF out = childIsTail THEN 1 ELSE -1
              te == TreeEdgeBetween(s, child, other)
          IN  IF other = parent THEN sum
              ELSE sum + sign * (s.edge[e].weight - (IF te = 0 THEN 0 ELSE s.tree[te].cut))
    IN  FoldLeft(Add, s.edge[ge].weight, NodeEdges(s, child))

InitCutValues(s) ==
    LET Postorder == SortedBy({v \in DOMAIN s.lim : s.par[v] # 0},
                                  LAMBDA v, w : s.lim[v] < s.lim[w])
        Set(t, v) == [t EXCEPT !.tree[TreeEdgeBetween(t, v, t.par[v])].cut = CalcCutValue(t, v)]
    IN  FoldLeft(Set, s, Postorder)

LeaveEdges(s) == {t \in LiveTree(s) : s.tree[t].cut < 0}

IsDescendant(s, v, root) == s.low[root] <= s.lim[v] /\ s.lim[v] <= s.lim[root]

\* Mutant: the edges that cross the cut the same way as the one that leaves.
EnterSameWay(s, t) ==
    LET below == IF s.lim[s.tree[t].a] > s.lim[s.tree[t].b] THEN s.tree[t].b ELSE s.tree[t].a
    IN  {e \in DOMAIN s.edge : IsDescendant(s, s.edge[e].v, below) # IsDescendant(s, s.edge[e].w, below)}

EnterEdges(s, t) ==
    LET a == s.tree[t].a
        b == s.tree[t].b
        v == IF FindEdge(s, a, b) # 0 THEN a ELSE b
        w == IF v = a THEN b ELSE a
        flip == s.lim[v] > s.lim[w]
        tail == IF flip THEN w ELSE v
    IN  {e \in DOMAIN s.edge : /\ flip = IsDescendant(s, s.edge[e].v, tail)
                               /\ flip # IsDescendant(s, s.edge[e].w, tail)}

\* Ranks from the tree, parents first.
UpdateRanks(s) ==
    LET root == CHOOSE v \in DOMAIN s.par : s.par[v] = 0
        Down == SortedBy(DOMAIN s.par \ {root}, LAMBDA v, w : s.lim[v] > s.lim[w])
        Place(t, v) ==
          LET p == t.par[v]
              up == FindEdge(t, v, p)
          IN  [t EXCEPT !.rank[v] =
                IF up # 0 THEN t.rank[p] - t.edge[up].minlen
                ELSE t.rank[p] + t.edge[FindEdge(t, p, v)].minlen]
    IN  FoldLeft(Place, s, Down)

ExchangeEdges(s, t, e) ==
    UpdateRanks(InitCutValues(InitLowLim(
        AddTreeEdge([s EXCEPT !.tree[t].alive = FALSE], s.edge[e].v, s.edge[e].w))))
=============================================================================
