---------------------------- MODULE MermaidFlow ----------------------------
(***************************************************************************)
(* Flowcharts and state diagrams, from the lines of a Mermaid block to the *)
(* graph that is laid out (src/src/diagram/mermaid_flowchart.cpp and the   *)
(* dispatch of mermaid.cpp).  One step reads one statement; then the names *)
(* that stand for a subgraph are replaced, the limits are checked, the     *)
(* boxes are measured and the stages of GraphLayout run.                   *)
(*                                                                         *)
(* A statement is a record with its keyword in op.  The identifier of a    *)
(* node is a pair of what it is and its name, since the code composes the  *)
(* identifiers of the dots and notes of a state diagram with a prefix no   *)
(* written name has.  Lengths are in eighths of a DIP, rounded down; 0 is  *)
(* the code's -1 where a node or a subgraph is meant.                      *)
(***************************************************************************)
EXTENDS GraphLayout

CONSTANTS
    Sources,    \* the blocks read: [kind, direction, lines]
    MaxNodes,   \* kMaxNodes
    MaxEdges    \* kMaxEdges

VARIABLES
    source,     \* the block that is read
    line,       \* the statement about to be read
    flow,       \* m_g
    open,       \* m_clusterStack
    note,       \* m_inNote, m_noteTarget and m_noteCount
    parsed      \* history: m_g as it was read, before RetargetClusterNodes

readVars == <<source, line, flow, open, note, parsed>>
layoutVars == <<input, g, s, turn, best, bestCC, lastBest>>

TextLine == 145         \* LineHeight(kNodeFont)
PadX == 112
PadY == 72
NameWidth == 64         \* of a name written as its own label

Name(x) == <<"name", x>>
EmptyFlow == [direction |-> "TB", node |-> <<>>, edge |-> <<>>, cluster |-> <<>>]

FindNode(f, id) == SelectInSeq(f.node, LAMBDA n : n.id = id)

AddFlowNode(f, id, tw, shape) ==
    IF FindNode(f, id) # 0 THEN f
    ELSE [f EXCEPT !.node = Append(@,
            [id |-> id, tw |-> tw, rows |-> 1, shape |-> shape, explicit |-> FALSE, cluster |-> 0])]

Shaped(f, id, shape, tw) ==
    [f EXCEPT !.node[FindNode(f, id)] = [@ EXCEPT !.shape = shape, !.tw = tw, !.explicit = TRUE]]

AddFlowEdge(f, i, j, l) ==
    [f EXCEPT !.edge = Append(@, [from |-> i, to |-> j, minLen |-> l.minLen, tw |-> l.tw,
                                  nth |-> Len(f.edge) + 1])]
Plain == [minLen |-> 1, tw |-> 0]

Innermost(stack) == IF stack = <<>> THEN 0 ELSE Last(stack)

\* Creates the node if needed and moves it into the innermost open subgraph.
TouchNode(f, stack, id) ==
    LET with == AddFlowNode(f, id, NameWidth, "rect")
    IN  IF stack = <<>> THEN with
        ELSE [with EXCEPT !.node[FindNode(with, id)].cluster = Last(stack)]

ParseNode(f, stack, n) ==
    LET touched == TouchNode(f, stack, Name(n.id))
    IN  IF n.shape = "none" THEN touched ELSE Shaped(touched, Name(n.id), n.shape, n.tw)

ParseGroup(f, stack, group) == FoldLeft(LAMBDA f1, n : ParseNode(f1, stack, n), f, group)

\* Every node on the left of a link is joined to every node on its right.
LinkGroups(f, left, right, l) ==
    FoldLeft(LAMBDA f1, a :
        FoldLeft(LAMBDA f2, b : AddFlowEdge(f2, FindNode(f, Name(a.id)), FindNode(f, Name(b.id)), l),
                 f1, right), f, left)

ParseChain(f, stack, chain) ==
    FoldLeft(LAMBDA f1, k :
                LinkGroups(ParseGroup(f1, stack, chain.groups[k + 1]),
                           chain.groups[k], chain.groups[k + 1], chain.links[k]),
             ParseGroup(f, stack, chain.groups[1]),
             [k \in DOMAIN chain.links |-> k])

ScopeKey(f, stack) == IF stack = <<>> THEN "" ELSE f.cluster[Last(stack)].id[2]

IsDot(name) == name = "[*]"
StateId(f, stack, name, asSource) ==
    IF ~IsDot(name) THEN Name(name)
    ELSE <<IF asSource THEN "start" ELSE "end", ScopeKey(f, stack)>>

\* A state belongs to the scope that names it first.
StateRef(f, stack, name, asSource) ==
    LET id == StateId(f, stack, name, asSource)
        added == AddFlowNode(f, id, IF IsDot(name) THEN 0 ELSE NameWidth,
                             IF IsDot(name) THEN id[1] ELSE "state")
    IN  IF FindNode(f, id) # 0 THEN f
        ELSE [added EXCEPT !.node[Len(added.node)].cluster = Innermost(stack),
                           !.node[Len(added.node)].explicit = IsDot(name)]

Transition(f, stack, t) ==
    LET left == StateRef(f, stack, t.from, TRUE)
        both == StateRef(left, stack, t.to, FALSE)
    IN  AddFlowEdge(both, FindNode(both, StateId(both, stack, t.from, TRUE)),
                    FindNode(both, StateId(both, stack, t.to, FALSE)), [minLen |-> 1, tw |-> t.tw])

FinishNote(f, n) ==
    LET id == <<"note", ToString(n.count)>>
        with == Shaped(AddFlowNode(f, id, 0, "note"), id, "note", n.tw)
    IN  AddFlowEdge([with EXCEPT !.node[Len(with.node)].cluster = f.node[n.target].cluster],
                    n.target, Len(with.node), Plain)

NoNote == [inside |-> FALSE, target |-> 0, tw |-> 0, count |-> 0]
-----------------------------------------------------------------------------
\* Replacing the nodes that stand for a subgraph.

NodeInCluster(f, i, c) == c \in Around(f, f.node[i].cluster)

FirstMember(f, c, excluded) ==
    SelectInSeq([i \in DOMAIN f.node |-> i],
                LAMBDA i : f.node[i].id # excluded /\ NodeInCluster(f, i, c))

Representative(kind, f, c, incoming) ==
    LET id == f.cluster[c].id
        dot == IF kind = "state" THEN FindNode(f, <<IF incoming THEN "start" ELSE "end", id[2]>>) ELSE 0
    IN  IF dot # 0 THEN dot ELSE FirstMember(f, c, id)

ClusterNamed(f, id) == SelectInSeq(f.cluster, LAMBDA c : c.id = id)

Placeholders(f) == {i \in DOMAIN f.node : ClusterNamed(f, f.node[i].id) # 0 /\ ~f.node[i].explicit}

\* The nodes that leave the graph: those with a member to stand in for them.
Replaced(kind, f) ==
    {i \in Placeholders(f) :
        \A incoming \in BOOLEAN :
            Representative(kind, f, ClusterNamed(f, f.node[i].id), incoming) \notin {0, i}}

\* Mutant: both ends move to where the subgraph is entered.
MoveToIncoming(kind, f, edges, i) ==
    LET c == ClusterNamed(f, f.node[i].id)
    IN  [k \in DOMAIN edges |->
            [edges[k] EXCEPT !.to = IF @ = i THEN Representative(kind, f, c, TRUE) ELSE @,
                             !.from = IF @ = i THEN Representative(kind, f, c, TRUE) ELSE @]]

MoveEnds(kind, f, edges, i) ==
    LET c == ClusterNamed(f, f.node[i].id)
    IN  [k \in DOMAIN edges |->
            [edges[k] EXCEPT
                !.to = IF @ = i THEN Representative(kind, f, c, TRUE) ELSE @,
                !.from = IF @ = i THEN Representative(kind, f, c, FALSE) ELSE @]]

\* The place of node i once the nodes in gone have left.
Compacted(gone, i) == Cardinality(1 .. i \ gone)

RetargetClusterNodes(kind, f) ==
    LET gone == Replaced(kind, f)
        moved == FoldLeft(LAMBDA es, i : MoveEnds(kind, f, es, i), f.edge, Ascending(gone))
        kept == SelectSeq(moved, LAMBDA e : e.from \notin gone /\ e.to \notin gone)
    IN  [f EXCEPT
            !.node = [k \in 1 .. Cardinality(DOMAIN f.node \ gone) |->
                        f.node[CHOOSE i \in DOMAIN f.node \ gone : Compacted(gone, i) = k]],
            !.edge = [k \in DOMAIN kept |->
                        [kept[k] EXCEPT !.from = Compacted(gone, @), !.to = Compacted(gone, @)]]]
-----------------------------------------------------------------------------
\* Measuring (the first half of BuildFlowScene).

Clamp(n, lo, hi) == Max({lo, Min({n, hi})})
HasLabel(shape) == shape \notin {"start", "end", "bar", "choice"}
Upright(w, h, horizontal) == IF horizontal THEN <<h, w>> ELSE <<w, h>>

NodeSize(shape, tw, th, horizontal) ==
    LET boxH == th + 2 * PadY
        padded == tw + 2 * PadX
        round == Max({tw, th}) + 2 * PadY + 48
        wide == tw + th + 2 * PadX
        drum == Max({padded, 400})
    IN  CASE shape \in {"stadium", "hexagon"} -> <<padded + boxH \div 2, boxH>>
          [] shape = "subroutine" -> <<padded + 128, boxH>>
          [] shape = "cylinder" -> <<drum, boxH + 2 * Clamp((drum * 8) \div 100, 40, 96)>>
          [] shape = "circle" -> <<round, round>>
          [] shape = "doublecircle" -> <<round + 80, round + 80>>
          [] shape = "diamond" -> <<wide, Max({(th * wide) \div Max({8, wide - tw}), wide \div 2, boxH})>>
          [] shape \in {"start", "end"} -> <<128, 128>>
          [] shape = "bar" -> Upright(512, 64, horizontal)
          [] shape = "choice" -> <<224, 224>>
          [] OTHER -> <<Max({padded, 320}), boxH>>

\* Even, so that half of a box is a whole number of units.
Even(n) == n + (n % 2)

LayoutInput(f) ==
    [direction |-> f.direction, nodeSep |-> 288, rankSep |-> 384,
     node |-> [i \in DOMAIN f.node |->
        LET n == f.node[i]
            labelled == HasLabel(n.shape)
            size == NodeSize(n.shape, IF labelled THEN n.tw ELSE 0,
                             IF labelled THEN n.rows * TextLine ELSE 0, f.direction \in {"LR", "RL"})
        IN  [w |-> Even(size[1]), h |-> Even(size[2]), cluster |-> n.cluster]],
     edge |-> [k \in DOMAIN f.edge |->
        LET e == f.edge[k]
        IN  [from |-> e.from, to |-> e.to, minLen |-> e.minLen,
             lw |-> IF e.tw = 0 THEN 0 ELSE Even(e.tw + 80), lh |-> IF e.tw = 0 THEN 0 ELSE 162]],
     cluster |-> [c \in DOMAIN f.cluster |->
        [parent |-> f.cluster[c].parent, tw |-> f.cluster[c].tw,
         th |-> IF f.cluster[c].tw = 0 THEN 0 ELSE 152]]]
-----------------------------------------------------------------------------
ReadInit ==
    /\ source \in Sources /\ line = 1 /\ open = <<>> /\ note = NoNote
    /\ flow = [EmptyFlow EXCEPT !.direction = source.direction] /\ parsed = EmptyFlow
    /\ input = LayoutInput(EmptyFlow) /\ pc = "parse" /\ g = EmptyGraph /\ s = NoSimplex
    /\ turn = 0 /\ best = <<>> /\ bestCC = -1 /\ lastBest = 0

Stmt == source.lines[line]
AtLine == pc = "parse" /\ line <= Len(source.lines)
Reading(op) == AtLine /\ ~note.inside /\ Stmt.op = op

\* The statement is read and the graph becomes f.
Read(f) ==
    /\ flow' = f /\ line' = line + 1
    /\ UNCHANGED <<pc, source, parsed>> /\ UNCHANGED layoutVars

ReadChain == Reading("chain") /\ Read(ParseChain(flow, open, Stmt)) /\ UNCHANGED <<open, note>>

\* `class' and `style' name nodes, which brings those of a flowchart into the subgraph too.
ReadClass ==
    /\ Reading("class")
    /\ Read(FoldLeft(LAMBDA f, id : IF source.kind = "state" THEN StateRef(f, open, id, TRUE)
                                   ELSE TouchNode(f, open, Name(id)), flow, Stmt.ids))
    /\ UNCHANGED <<open, note>>

OpenSubgraph ==
    /\ Reading("subgraph")
    /\ LET id == IF Stmt.id = "" THEN "subgraph_" \o ToString(Len(flow.cluster)) ELSE Stmt.id
       IN  Read([flow EXCEPT !.cluster =
                    Append(@, [id |-> Name(id), tw |-> Stmt.tw, parent |-> Innermost(open)])])
    /\ open' = Append(open, Len(flow.cluster) + 1)
    /\ UNCHANGED note

\* `end', or the closing brace of a composite state; one too many is ignored.
CloseSubgraph ==
    /\ Reading("end") /\ Read(flow)
    /\ open' = IF open = <<>> THEN open ELSE Front(open)
    /\ UNCHANGED note

ReadTransition == Reading("arrow") /\ Read(Transition(flow, open, Stmt)) /\ UNCHANGED <<open, note>>

\* `state X' or a bare name; with a label it replaces the one the state had.
DeclareState ==
    /\ Reading("state")
    /\ LET f == StateRef(flow, open, Stmt.id, TRUE)
           i == FindNode(f, StateId(f, open, Stmt.id, TRUE))
       IN  Read(IF Stmt.tw = 0 THEN f ELSE [f EXCEPT !.node[i].tw = Stmt.tw, !.node[i].rows = 1])
    /\ UNCHANGED <<open, note>>

\* A fork, a join or a choice.
DeclareBar ==
    /\ Reading("bar")
    /\ Read(Shaped(StateRef(flow, open, Stmt.id, TRUE), Name(Stmt.id), Stmt.shape, 0))
    /\ UNCHANGED <<open, note>>

AppendDescription ==
    /\ Reading("describe")
    /\ LET f == StateRef(flow, open, Stmt.id, TRUE)
           i == FindNode(f, Name(Stmt.id))
       IN  Read([f EXCEPT !.node[i].tw = Max({@, Stmt.tw}), !.node[i].rows = @ + 1])
    /\ UNCHANGED <<open, note>>

\* The direction of a composite state is ignored.
ReadDirection ==
    /\ Reading("direction")
    /\ Read(IF open = <<>> THEN [flow EXCEPT !.direction = Stmt.direction] ELSE flow)
    /\ UNCHANGED <<open, note>>

\* A note with its text on the line is finished at once; without it the lines
\* that follow are its text, whatever they say, until `end note'.
ReadNote ==
    /\ Reading("note")
    /\ LET f == StateRef(flow, open, Stmt.id, TRUE)
           n == [note EXCEPT !.target = FindNode(f, Name(Stmt.id)), !.tw = Stmt.tw]
       IN  \/ /\ Stmt.tw > 0
              /\ Read(FinishNote(f, n)) /\ note' = [NoNote EXCEPT !.count = note.count + 1]
           \/ /\ Stmt.tw = 0
              /\ Read(f) /\ note' = [n EXCEPT !.inside = TRUE]
    /\ UNCHANGED open

ReadNoteText ==
    /\ AtLine /\ note.inside
    /\ \/ /\ Stmt.op = "endnote"
          /\ Read(FinishNote(flow, note)) /\ note' = [NoNote EXCEPT !.count = note.count + 1]
       \/ /\ Stmt.op # "endnote"
          /\ Read(flow) /\ note' = [note EXCEPT !.tw = NameWidth]
    /\ UNCHANGED open

\* A line the parser cannot read: no diagram, the block is shown as code.
ReadBroken ==
    /\ Reading("broken") /\ pc' = "refused"
    /\ UNCHANGED readVars /\ UNCHANGED layoutVars

EndOfSource ==
    /\ pc = "parse" /\ line > Len(source.lines)
    /\ pc' = "check" /\ parsed' = flow /\ flow' = RetargetClusterNodes(source.kind, flow)
    /\ UNCHANGED <<source, line, open, note>> /\ UNCHANGED layoutVars

WithinLimits == Len(flow.node) \in 1 .. MaxNodes /\ Len(flow.edge) <= MaxEdges

Refuse ==
    /\ pc = "check" /\ ~WithinLimits /\ pc' = "refused"
    /\ UNCHANGED readVars /\ UNCHANGED layoutVars

Measure ==
    /\ pc = "check" /\ WithinLimits
    /\ input' = LayoutInput(flow) /\ pc' = "build"
    /\ UNCHANGED readVars /\ UNCHANGED <<g, s, turn, best, bestCC, lastBest>>

Refused == pc = "refused" /\ UNCHANGED readVars /\ UNCHANGED vars

ReadNext ==
    \/ ReadChain \/ ReadClass \/ OpenSubgraph \/ CloseSubgraph \/ ReadTransition
    \/ DeclareState \/ DeclareBar \/ AppendDescription \/ ReadDirection \/ ReadNote
    \/ ReadNoteText \/ ReadBroken \/ EndOfSource \/ Refuse \/ Measure \/ Refused
-----------------------------------------------------------------------------
Retargeted == pc \notin {"parse", "refused"} /\ source.lines # <<>>
Names(i) == ClusterNamed(parsed, parsed.node[i].id)
StandsIn(i) == i \in Replaced(source.kind, parsed)

\* The names of other subgraphs that the one named i holds.
NamedInside(i) ==
    {j \in Replaced(source.kind, parsed) : NodeInCluster(parsed, j, Names(i))}
Holds(i, drawn) ==
    \E c \in DOMAIN flow.cluster :
        flow.cluster[c].id = parsed.node[i].id /\ NodeInCluster(flow, drawn, c)
Dot(i, end) ==
    IF source.kind = "state" THEN FindNode(flow, <<end, parsed.node[i].id[2]>>) ELSE 0

\* The node drawn at the end of a link is the one written there or, where a
\* subgraph was written, what stands for it.
Joins(drawn, i, end) ==
    IF ~StandsIn(i) THEN flow.node[drawn].id = parsed.node[i].id
    ELSE IF Dot(i, end) # 0 THEN drawn = Dot(i, end)
    ELSE \E j \in {i} \cup NamedInside(i) : Holds(j, drawn)

\* Every link that is drawn joins what was written: each end is the node of
\* that name or, where the name is a subgraph's, a node inside it or inside a
\* subgraph named in it; in a state diagram the dot the composite state starts
\* or ends at, if it has one.  The only links that are not drawn lead to a
\* subgraph that holds the name of another one (RetargetClusterNodes picks a
\* member that itself leaves).
LinksLeadWhereWritten ==
    Retargeted =>
        /\ \A k \in DOMAIN flow.edge :
              LET e == flow.edge[k]
                  w == parsed.edge[e.nth]
              IN  /\ Joins(e.from, w.from, "end") /\ Joins(e.to, w.to, "start")
                  /\ e.tw = w.tw /\ e.minLen = w.minLen
        /\ \A k \in DOMAIN parsed.edge :
              \/ Cardinality({j \in DOMAIN flow.edge : flow.edge[j].nth = k}) = 1
              \/ \E i \in {parsed.edge[k].from, parsed.edge[k].to} :
                    StandsIn(i) /\ NamedInside(i) # {}

\* Naming a subgraph in a link leaves no stray box (tests/unit/test_mermaid.cpp,
\* FlowchartSubgraphsEncloseTheirNodes): a plain node with the name of a
\* subgraph stays only while that has no other member, and nothing but such
\* names leaves the diagram.
NoStrayNames ==
    Retargeted =>
        /\ \A i \in DOMAIN flow.node, j \in DOMAIN flow.node :
              LET c == ClusterNamed(flow, flow.node[i].id)
              IN  i # j /\ c # 0 /\ ~flow.node[i].explicit => ~NodeInCluster(flow, j, c)
        /\ \A i \in DOMAIN parsed.node :
              \/ \E j \in DOMAIN flow.node : flow.node[j] = parsed.node[i]
              \/ Names(i) # 0 /\ ~parsed.node[i].explicit

\* Subgraphs may be linked by their names: the links join what was written, and the names leave
\* nothing behind.
RetargetingIsSound == LinksLeadWhereWritten /\ NoStrayNames
=============================================================================
