------------------------------ MODULE Mermaid ------------------------------
(***************************************************************************)
(* A Mermaid block of the document becomes a drawing                       *)
(* (src/src/diagram/mermaid.cpp, RenderMermaid): its header says whether   *)
(* it is a graph, which is read, laid out and framed, or a sequence        *)
(* diagram.  The layout is also run on diagrams given as graphs, which     *)
(* reach shapes that take many lines to write.                             *)
(***************************************************************************)
EXTENDS MermaidFlow, MermaidSequence

allVars == <<vars, readVars, seqVars>>

NoSource == [kind |-> "none", direction |-> "TB", lines |-> <<>>]

NoReading ==
    /\ source = NoSource /\ line = 1 /\ open = <<>> /\ note = NoNote
    /\ flow = EmptyFlow /\ parsed = EmptyFlow

NoGraph ==
    /\ NoReading /\ input = LayoutInput(EmptyFlow) /\ pc = "refused" /\ g = EmptyGraph
    /\ s = NoSimplex /\ turn = 0 /\ best = <<>> /\ bestCC = -1 /\ lastBest = 0

NoSequence ==
    /\ stage = "refused" /\ read = 0 /\ who = <<>> /\ event = <<>> /\ groups = <<>>
    /\ x = <<>> /\ at = 1 /\ y = 0 /\ arrow = 0 /\ active = <<>> /\ bar = <<>>
    /\ block = <<>> /\ opened = <<>> /\ ink = {}

MermaidInit ==
    \/ ReadInit /\ NoSequence
    \/ Init /\ NoReading /\ NoSequence
    \/ NoGraph /\ SeqInit

MermaidNext ==
    \/ ReadNext /\ UNCHANGED seqVars
    \/ Next /\ UNCHANGED readVars /\ UNCHANGED seqVars
    \/ SeqNext /\ UNCHANGED vars /\ UNCHANGED readVars

MermaidSpec == MermaidInit /\ [][MermaidNext]_allVars
=============================================================================
