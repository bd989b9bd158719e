---------------------------- MODULE GraphLayout ----------------------------
(***************************************************************************)
(* The layout of a flowchart or a state diagram                            *)
(* (src/src/diagram/graph_layout.cpp, Layouter::Run): one step per stage,  *)
(* with the loops of the ranking and of the crossing minimisation taken a  *)
(* turn at a time.  The input is fixed in the initial state; everything    *)
(* after it is determined by it.                                           *)
(***************************************************************************)
EXTENDS LayoutPosition

CONSTANT Inputs         \* the diagrams laid out

VARIABLES
    input,      \* m_in
    pc,         \* the stage about to run
    g,          \* m_g
    s,          \* the NetworkSimplex object
    turn,       \* turns taken by the loop that is running
    best,       \* Order: the best layering so far
    bestCC,     \* Order: its crossings, -1 before the first sweep
    lastBest    \* Order: sweeps since it was found

vars == <<input, pc, g, s, turn, best, bestCC, lastBest>>

NoSimplex == [edge |-> <<>>, rank |-> <<>>, reach |-> <<>>, tree |-> <<>>,
              low |-> <<>>, lim |-> <<>>, par |-> <<>>]

Init ==
    /\ input \in Inputs
    /\ pc = "build" /\ g = EmptyGraph /\ s = NoSimplex
    /\ turn = 0 /\ best = <<>> /\ bestCC = -1 /\ lastBest = 0

\* A stage that turns the graph into the next one and hands over.
Stage(from, to, next) ==
    /\ pc = from /\ pc' = to /\ g' = next
    /\ UNCHANGED <<input, s, turn, best, bestCC, lastBest>>

Build == Stage("build", "acyclic", MakeSpaceForEdgeLabels(BuildLayoutGraph(input)))
TurnCycles == Stage("acyclic", "nest", Acyclic(g))
NestClusters == Stage("nest", "rank", NestingGraphRun(input, g))

StartRanking ==
    /\ pc = "rank" /\ pc' = "tighten" /\ s' = StartSimplex(g)
    /\ UNCHANGED <<input, g, turn, best, bestCC, lastBest>>

\* One turn of FeasibleTree.
Tighten ==
    LET grown == TightTree(s)
    IN  /\ pc = "tighten"
        /\ \/ /\ Spans(grown) \/ Crossing(grown) = {}
              /\ s' = InitCutValues(InitLowLim(grown)) /\ pc' = "exchange"
           \/ /\ ~Spans(grown) /\ Crossing(grown) # {}
              /\ s' = ShiftTree(grown) /\ pc' = pc
        /\ UNCHANGED <<input, g, turn, best, bestCC, lastBest>>

MaxExchanges == 50 + 10 * Len(s.edge)

CanExchange ==
    /\ turn < MaxExchanges /\ LeaveEdges(s) # {}
    /\ EnterEdges(s, Min(LeaveEdges(s))) # {}

Exchange ==
    /\ pc = "exchange" /\ CanExchange
    /\ LET t == Min(LeaveEdges(s))
       IN  s' = ExchangeEdges(s, t, Nearest(s, EnterEdges(s, t)))
    /\ turn' = turn + 1
    /\ UNCHANGED <<input, pc, g, best, bestCC, lastBest>>

AssignRanks ==
    /\ ~CanExchange
    /\ Stage("exchange", "empty", InjectEdgeLabelProxies(SetRanks(g, s.rank)))

CloseRanks == Stage("empty", "minmax",
    NormalizeRanks(NestingGraphCleanup(input, RemoveEmptyRanks(g))))
MeasureClusters == Stage("minmax", "chain", RemoveEdgeLabelProxies(AssignRankMinMax(g)))
CutEdges == Stage("chain", "parent", NormalizeRun(g))
HomeDummies == Stage("parent", "border", ParentDummyChains(g))
AddFrames == Stage("border", "order", AddBorderSegments(input, g))

StartOrder ==
    /\ pc = "order" /\ pc' = "sweep"
    /\ g' = AssignOrder(g, InitOrder(g))
    /\ best' = BuildLayerMatrix(g') /\ turn' = 0
    /\ UNCHANGED <<input, s, bestCC, lastBest>>

MoreSweeps == lastBest < 4 /\ turn < 64

SweepLayers ==
    /\ pc = "sweep" /\ MoreSweeps
    /\ g' = Sweep(g, turn % 2 = 1, turn % 4 >= 2)
    /\ LET layering == BuildLayerMatrix(g')
           cc == CrossCount(g')
       IN  \/ /\ bestCC = -1 \/ cc < bestCC
              /\ best' = layering /\ bestCC' = cc /\ lastBest' = 1
           \/ /\ bestCC # -1 /\ cc >= bestCC
              /\ lastBest' = lastBest + 1 /\ UNCHANGED <<best, bestCC>>
    /\ turn' = turn + 1
    /\ UNCHANGED <<input, pc, s>>

KeepBest == ~MoreSweeps /\ Stage("sweep", "place", AssignOrder(g, best))

Place == Stage("place", "done",
    PositionX(PositionY(InsertSelfEdges(input, g), input.rankSep \div 2), input.nodeSep))

Finished == pc = "done" /\ UNCHANGED vars

Next ==
    \/ Build \/ TurnCycles \/ NestClusters \/ StartRanking \/ Tighten \/ Exchange
    \/ AssignRanks \/ CloseRanks \/ MeasureClusters \/ CutEdges \/ HomeDummies
    \/ AddFrames \/ StartOrder \/ SweepLayers \/ KeepBest \/ Place \/ Finished

Spec == Init /\ [][Next]_vars
-----------------------------------------------------------------------------
InputEdges == {e \in LiveEdges(g) : g.edge[e].input # 0}
Frames == {v \in LiveNodes(g) : g.node[v].cluster # 0}
Within(v, c) == c \in ToSet(Ancestors(g, v))

\* The ranking (NetworkSimplex::Run) never breaks an edge: from the first
\* spanning tree to the last exchange every edge is at least as long as asked
\* and every tree edge exactly as long.  It stops because no exchange can
\* shorten the drawing, not because of the bound on exchanges or for want of
\* an edge to enter.
RankingIsSound ==
    /\ pc = "exchange" =>
        /\ Spans(s)
        /\ \A e \in DOMAIN s.edge : Slack(s, e) >= 0
        /\ \A t \in LiveTree(s) :
              \E e \in DOMAIN s.edge : /\ {s.edge[e].v, s.edge[e].w} = {s.tree[t].a, s.tree[t].b}
                                       /\ Slack(s, e) = 0
    /\ pc = "empty" => LeaveEdges(s) = {}

\* Closing up the ranks the nesting left empty (RemoveEmptyRanks) keeps every
\* edge at its length, room for its label included, and every node strictly
\* inside the ranks of the clusters around it.
RanksKeepStructure ==
    pc = "chain" =>
        /\ \A e \in InputEdges :
              g.node[g.edge[e].w].rank - g.node[g.edge[e].v].rank
                 >= 2 * Max({1, input.edge[g.edge[e].input].minLen})
        /\ \A c \in Frames, i \in DOMAIN input.node :
              Within(i, c) => g.node[i].rank \in g.node[c].min + 1 .. g.node[c].max - 1

\* After NormalizeRun and ParentDummyChains every edge joins neighbouring
\* ranks, every labelled edge has exactly one place for its label, and a
\* dummy is in a cluster only in a rank the cluster spans, so that
\* AddBorderSegments has a pair of borders there.
ChainsAreSound ==
    pc = "border" =>
        /\ \A e \in LiveEdges(g) : g.node[g.edge[e].w].rank = g.node[g.edge[e].v].rank + 1
        /\ \A k \in DOMAIN input.edge :
              input.edge[k].lw > 0 /\ input.edge[k].from # input.edge[k].to =>
                 Cardinality({v \in LiveNodes(g) : /\ g.node[v].dummy = "label"
                                                   /\ g.edge[g.node[v].ref].input = k}) = 1
        /\ \A v \in Ranked(g), c \in Frames :
              Within(v, c) => g.node[v].rank \in g.node[c].min .. g.node[c].max

\* In the layering Order settles on, what stands between the two borders of a
\* cluster in a layer belongs to the cluster, and its nodes stand there.
LayersKeepBorders ==
    pc = "place" =>
        \A c \in Frames : \A r \in g.node[c].min .. g.node[c].max :
            LET Between(v) == /\ Before(g, g.node[c].left[r], v)
                              /\ Before(g, v, g.node[c].right[r])
                borders == {g.node[c].left[r], g.node[c].right[r]}
            IN  \A v \in InLayer(g, r) \ borders :
                    /\ Between(v) => Within(v, c)
                    /\ Within(v, c) /\ ~IsDummy(g, v) => Between(v)

Overlap(a, b) == a.x0 < b.x1 /\ b.x0 < a.x1 /\ a.y0 < b.y1 /\ b.y0 < a.y1
Inside(a, b) == b.x0 <= a.x0 /\ a.x1 <= b.x1 /\ b.y0 <= a.y0 /\ a.y1 <= b.y1
NodeRect(i) ==
    LET p == Center(input, g, i)
    IN  [x0 |-> p[1] - input.node[i].w \div 2, x1 |-> p[1] + input.node[i].w \div 2,
         y0 |-> p[2] - input.node[i].h \div 2, y1 |-> p[2] + input.node[i].h \div 2]
Member(i, c) == Within(i, ClusterNode(input, c))

\* No two nodes of the finished drawing overlap, and the bends of every edge
\* lead away from its source rank by rank, whether or not the edge was turned
\* to break a cycle.
DrawingIsClear ==
    pc = "done" =>
        /\ \A i, j \in DOMAIN input.node : i # j => ~Overlap(NodeRect(i), NodeRect(j))
        /\ \A k \in DOMAIN input.edge :
              LET bends == EdgePoints(input, g, k)
                  Step(i) == g.node[bends[i + 1]].rank - g.node[bends[i]].rank
              IN  input.edge[k].from # input.edge[k].to =>
                    \/ \A i \in 1 .. Len(bends) - 1 : Step(i) = 1
                    \/ \A i \in 1 .. Len(bends) - 1 : Step(i) = -1

\* A node that is not in a subgraph is drawn outside its frame
\* (docs/DECISIONS.md:170: the layout expels foreign nodes from the frame of
\* every subgraph, in every rank it spans).
StrangersOutside ==
    pc = "done" =>
        \A c \in UsedClusters(input), i \in DOMAIN input.node :
            ~Member(i, c) => ~Overlap(NodeRect(i), ClusterRect(input, g, c))

\* From stage to stage a subgraph keeps what is its own, and in the drawing its
\* frame holds its nodes, no other node, and none of the frames beside it
\* (Finish).
FramesAreSound ==
    /\ RanksKeepStructure /\ ChainsAreSound /\ LayersKeepBorders
    /\ StrangersOutside
    /\ pc = "done" =>
        /\ \A c \in UsedClusters(input), i \in DOMAIN input.node :
              Member(i, c) => Inside(NodeRect(i), ClusterRect(input, g, c))
        /\ \A c, d \in UsedClusters(input) :
              c # d /\ input.cluster[c].parent = input.cluster[d].parent =>
                 ~Overlap(ClusterRect(input, g, c), ClusterRect(input, g, d))
=============================================================================
