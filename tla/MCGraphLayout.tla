--------------------------- MODULE MCGraphLayout ---------------------------
(***************************************************************************)
(* The diagrams laid out by the runs: every graph of one or two edges over *)
(* three nodes in four ways of sharing two subgraphs, and a few larger     *)
(* ones picked for what they exercise.                                     *)
(***************************************************************************)
EXTENDS GraphLayout

Box(c) == [w |-> 320, h |-> 320, cluster |-> c]
Boxes(cs) == [i \in DOMAIN cs |-> Box(cs[i])]
Edge(i, j) == [from |-> i, to |-> j, minLen |-> 1, lw |-> 0, lh |-> 0]
Labelled(i, j) == [Edge(i, j) EXCEPT !.lw = 480, !.lh = 160]
Long(i, j) == [Edge(i, j) EXCEPT !.minLen = 2]
Titled(parents, tw) == [c \in DOMAIN parents |-> [parent |-> parents[c], tw |-> tw, th |-> 160]]

Diagram(d, homes, parents, es) ==
    [direction |-> d, node |-> Boxes(homes), edge |-> es, cluster |-> Titled(parents, 0),
     nodeSep |-> 288, rankSep |-> 384]

Homes == {<<0, 0, 0>>, <<1, 1, 0>>, <<1, 0, 2>>, <<1, 2, 0>>}
Pairs == (1 .. 3) \X (1 .. 3)
Small ==
    {Diagram("TB", h, t, [k \in DOMAIN ps |-> Edge(ps[k][1], ps[k][2])])
       : h \in Homes, t \in {<<0, 0>>, <<0, 1>>}, ps \in [1 .. 1 -> Pairs] \cup [1 .. 2 -> Pairs]}

Larger == {
    \* a cycle that leaves a subgraph and comes back, with labels
    Diagram("TB", <<1, 0, 1>>, <<0>>, <<Labelled(1, 2), Labelled(2, 3), Edge(3, 1)>>),
    Diagram("RL", <<1, 1, 0>>, <<0>>, <<Labelled(1, 2), Long(2, 3), Edge(3, 1), Edge(2, 2)>>),
    Diagram("LR", <<0, 0, 0>>, <<>>, <<Labelled(1, 2), Edge(2, 3), Labelled(1, 3)>>),
    \* subgraphs that span the same ranks
    Diagram("TB", <<1, 2, 1, 2>>, <<0, 0>>,
            <<Edge(1, 4), Edge(2, 3), Edge(1, 4), Edge(2, 3), Edge(1, 4), Edge(2, 3)>>),
    \* two layers whose first order crosses
    Diagram("BT", <<0, 0, 0, 0>>, <<>>, <<Edge(1, 4), Edge(2, 3), Edge(1, 3), Edge(2, 4)>>),
    Diagram("LR", <<1, 2, 1, 2>>, <<0, 0>>, <<Edge(1, 4), Edge(2, 3), Labelled(1, 3)>>),
    \* nested subgraphs joined across their borders, a parallel edge
    Diagram("TB", <<2, 0, 1>>, <<0, 1>>, <<Edge(1, 2), Edge(2, 3), Labelled(1, 3), Edge(1, 3)>>),
    Diagram("TB", <<1, 2, 0, 0>>, <<0, 0>>, <<Edge(1, 3), Edge(1, 4), Edge(2, 3), Edge(4, 2)>>),
    \* loops beside a neighbour
    Diagram("TB", <<0, 0, 0>>, <<>>, <<Edge(1, 2), Edge(1, 3), Labelled(2, 2), Edge(2, 2)>>),
    \* the ranking has to exchange tree edges
    Diagram("TB", <<0, 0, 0, 0>>, <<>>, <<Edge(1, 2), Edge(2, 3), Edge(3, 4), Edge(1, 4), Edge(1, 4)>>),
    Diagram("LR", <<0, 0, 0, 0>>, <<>>, <<Edge(1, 2), Edge(2, 4), Edge(3, 4), Long(1, 3), Edge(4, 1)>>)}

MCInputs == Small \cup Larger

\* A subgraph of one node beside another node, with a title wider than it.
WideTitles ==
    {[Diagram(d, <<1, 0, 0>>, <<0>>, <<Edge(3, 1), Edge(3, 2)>>) EXCEPT !.cluster = Titled(<<0>>, tw)]
       : d \in {"TB", "BT"}, tw \in {0, 1600}}
=============================================================================
