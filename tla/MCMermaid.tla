----------------------------- MODULE MCMermaid -----------------------------
(***************************************************************************)
(* The diagrams of the run: the graphs of MCGraphLayout; flowcharts with   *)
(* two subgraphs, nested or side by side, that name each other; a few      *)
(* state diagrams; and every sequence diagram of up to four of the lines   *)
(* below.                                                                  *)
(***************************************************************************)
EXTENDS Mermaid, MCGraphLayout

N(id) == [id |-> id, shape |-> "none", tw |-> 0]
S(id, shape) == [id |-> id, shape |-> shape, tw |-> 160]
Solid == [minLen |-> 1, tw |-> 0]
Tagged == [minLen |-> 1, tw |-> 400]

Alone(n) == [op |-> "chain", groups |-> <<<<n>>>>, links |-> <<>>]
Link(a, b) == [op |-> "chain", groups |-> <<<<N(a)>>, <<N(b)>>>>, links |-> <<Solid>>]
Open(id) == [op |-> "subgraph", id |-> id, tw |-> 320]
End == [op |-> "end"]
Class(ids) == [op |-> "class", ids |-> ids]
Flowchart(lines) == [kind |-> "flowchart", direction |-> "TB", lines |-> lines]

InA == {Alone(N("a")), Alone(N("B")), Link("a", "B"), Alone(N("A"))}
InB == {<<Alone(N("b"))>>, <<Alone(N("A"))>>, <<Link("b", "a")>>, <<>>}
After == {Link("A", "B"), Link("a", "A"), Link("c", "A"), Link("B", "c")}
Flowcharts ==
    {Flowchart(<<Open("A"), l>> \o <<End, Open("B")>> \o m \o <<End, n>>)
       : l \in InA, m \in InB, n \in After}
    \cup
    {Flowchart(<<n, Open("A"), l, Open("B")>> \o m \o <<End, End>>)
       : l \in InA, m \in InB, n \in After}
    \cup {
    Flowchart(<<Open(""), Alone(S("a", "diamond")), End, End, Link("subgraph_0", "b"), Class(<<"a", "b">>)>>),
    Flowchart(<<Open("A"), Alone(N("a")), End, Alone(S("A", "circle")), Link("A", "a")>>),
    [Flowchart(<<[op |-> "chain", groups |-> <<<<N("a"), S("b", "cylinder")>>, <<N("c"), S("d", "stadium")>>>>,
                  links |-> <<Tagged>>], Alone(S("e", "subroutine")), Alone(S("f", "doublecircle"))>>)
        EXCEPT !.direction = "LR"],
    Flowchart(<<Link("a", "b"), [op |-> "broken"]>>),
    Flowchart(<<Open("A"), End>>)}

Arrow(a, b) == [op |-> "arrow", from |-> a, to |-> b, tw |-> 0]
Bar(id, shape) == [op |-> "bar", id |-> id, shape |-> shape]
State(id, tw) == [op |-> "state", id |-> id, tw |-> tw]
Described(id) == [op |-> "describe", id |-> id, tw |-> 240]
Note(id, tw) == [op |-> "note", id |-> id, tw |-> tw]
Direction(d) == [op |-> "direction", direction |-> d]
EndNote == [op |-> "endnote"]
StateDiagram(lines) == [kind |-> "state", direction |-> "TB", lines |-> lines]

Inner == {<<Arrow("[*]", "x"), Arrow("x", "[*]")>>, <<Arrow("[*]", "x")>>, <<Arrow("x", "y")>>,
          <<Arrow("x", "[*]"), State("C", 0)>>}
Outer == {<<Arrow("[*]", "P"), Arrow("P", "q")>>, <<Arrow("q", "P"), Arrow("P", "[*]")>>,
          <<Note("P", 200), Arrow("P", "C")>>}
StateDiagrams ==
    {StateDiagram(<<Open("P")>> \o i \o <<End>> \o o) : i \in Inner, o \in Outer}
    \cup {StateDiagram(o \o <<Open("P")>> \o i \o <<End>>) : i \in Inner, o \in Outer}
    \cup {
    StateDiagram(<<Open("P"), Direction("LR"), Open("C")>> \o i \o <<End, End, Arrow("P", "C"), Direction("LR")>>)
       : i \in Inner}
    \cup {
    StateDiagram(<<Bar("f", "bar"), Arrow("x", "f"), Bar("k", "choice"), Arrow("f", "k"), Described("x"), State("x", 320)>>),
    StateDiagram(<<Arrow("x", "y"), Note("x", 0), Arrow("y", "x"), EndNote, Arrow("y", "x")>>),
    StateDiagram(<<Arrow("x", "y"), Open("P"), Class(<<"x", "z">>), End, Arrow("z", "P")>>),
    StateDiagram(<<Note("x", 0), Arrow("y", "x")>>)}

MCSources == Flowcharts \cup StateDiagrams

Message(a, b, tw) ==
    [op |-> "message", from |-> a, to |-> b, tw |-> tw, rows |-> 1, plus |-> FALSE, minus |-> FALSE]
NoteAt(place, a, b, tw) == [op |-> "note", place |-> place, from |-> a, to |-> b, tw |-> tw, rows |-> 1]
Switch(op, a) == [op |-> op, from |-> a]
Block(rect, tw) == [op |-> "block", rect |-> rect, tw |-> tw]
MCLines == {
    [op |-> "participant", id |-> "b", actor |-> TRUE, tw |-> 400],
    [Message("a", "b", 480) EXCEPT !.plus = TRUE],
    [Message("b", "a", 80) EXCEPT !.minus = TRUE],
    [Message("a", "a", 600) EXCEPT !.plus = TRUE],
    Message("c", "a", 1200),
    NoteAt("right", "a", "a", 480), NoteAt("over", "b", "a", 800), NoteAt("over", "b", "b", 480),
    Switch("activate", "a"), Switch("deactivate", "a"),
    Block(FALSE, 0), Block(TRUE, 0), [op |-> "else"], [op |-> "end"], [op |-> "box"], [op |-> "broken"]}
=============================================================================
