-------------------------- MODULE MermaidSequence --------------------------
(***************************************************************************)
(* Sequence diagrams (src/src/diagram/mermaid_sequence.cpp): the lines are *)
(* read one by one into participants and events, the lifelines are placed, *)
(* and the events are drawn from top to bottom.  Lengths are in halves of  *)
(* a DIP; y grows downwards.  A line is a record with its keyword in op.   *)
(***************************************************************************)
EXTENDS Integers, SequencesExt

CONSTANTS
    Lines,      \* the lines a diagram may have
    MaxLines    \* bound: lines read

VARIABLES
    stage,      \* "read", "place", "draw", "done", or "refused"
    read,       \* lines read
    who,        \* m_participants
    event,      \* m_events
    groups,     \* blockIsBox
    x,          \* of each lifeline
    at,         \* the event about to be drawn
    y,
    arrow,      \* lastArrowY
    active,     \* the activations open on each lifeline
    bar,        \* the activation boxes drawn
    block,      \* blocks
    opened,     \* openBlocks
    ink         \* what was drawn for messages and notes, and in which blocks

seqVars == <<stage, read, who, event, groups, x, at, y, arrow, active, bar, block, opened, ink>>

ActorGap == 88
Margin == 20
BarWidth == 20
LoopWidth == 68
LoopHeight == 48
MessageLine == 36
NoteLine == 34
BlockLine == 32
Keyword == 96       \* kwWidth: the tab with the keyword of a block
Endless == 1000000      \* 1.0e9f

Known(ps, id) == SelectInSeq(ps, LAMBDA p : p.id = id)
NewParticipant(ps, id) ==
    IF Known(ps, id) # 0 THEN ps
    ELSE Append(ps, [id |-> id, tw |-> 32, rows |-> 1, actor |-> FALSE])
Width(p) == Max({p.tw + 48, 168})
BoxHeight(p) == p.rows * MessageLine + 36 + (IF p.actor THEN 76 ELSE 0)

SeqInit ==
    /\ stage = "read" /\ read = 0 /\ who = <<>> /\ event = <<>> /\ groups = <<>>
    /\ x = <<>> /\ at = 1 /\ y = 0 /\ arrow = 0 /\ active = <<>> /\ bar = <<>>
    /\ block = <<>> /\ opened = <<>> /\ ink = {}
-----------------------------------------------------------------------------
drawVars == <<x, at, y, arrow, active, bar, block, opened, ink>>

ReadLine(l, op) ==
    /\ stage = "read" /\ read < MaxLines /\ l.op = op
    /\ read' = read + 1
    /\ UNCHANGED stage /\ UNCHANGED drawVars

DeclareParticipant(l) ==
    /\ ReadLine(l, "participant")
    /\ LET ps == NewParticipant(who, l.id)
       IN  who' = [ps EXCEPT ![Known(ps, l.id)].actor = l.actor,
                             ![Known(ps, l.id)].tw = IF l.tw = 0 THEN @ ELSE l.tw]
    /\ UNCHANGED <<event, groups>>

ParseMessage(l) ==
    /\ ReadLine(l, "message")
    /\ who' = NewParticipant(NewParticipant(who, l.from), l.to)
    /\ event' = Append(event, [l EXCEPT !.from = Known(who', @), !.to = Known(who', @)])
    /\ UNCHANGED groups

\* The ends of a note over two participants are put in order.
ParseNote(l) ==
    /\ ReadLine(l, "note")
    /\ who' = NewParticipant(NewParticipant(who, l.from), l.to)
    /\ LET ends == {Known(who', l.from), Known(who', l.to)}
       IN  event' = Append(event, [l EXCEPT !.from = Min(ends), !.to = Max(ends)])
    /\ UNCHANGED groups

ParseActivation(l) ==
    /\ \E op \in {"activate", "deactivate"} : ReadLine(l, op)
    /\ who' = NewParticipant(who, l.from)
    /\ event' = Append(event, [l EXCEPT !.from = Known(who', @)])
    /\ UNCHANGED groups

StartBlock(l) ==
    /\ ReadLine(l, "block")
    /\ event' = Append(event, l) /\ groups' = Append(groups, FALSE)
    /\ UNCHANGED who

\* `box' groups are accepted and not drawn.
StartBox(l) ==
    /\ ReadLine(l, "box") /\ groups' = Append(groups, TRUE)
    /\ UNCHANGED <<who, event>>

ParseElse(l) ==
    /\ ReadLine(l, "else") /\ event' = Append(event, l)
    /\ UNCHANGED <<who, groups>>

\* An `end' too many is ignored; that of a box ends no block.
ParseEnd(l) ==
    /\ ReadLine(l, "end")
    /\ event' = IF groups = <<>> \/ Last(groups) THEN event ELSE Append(event, [op |-> "blockend"])
    /\ groups' = IF groups = <<>> THEN groups ELSE Front(groups)
    /\ UNCHANGED who

\* An incomplete message or a note without text: no diagram.
ParseError(l) ==
    /\ stage = "read" /\ read < MaxLines /\ l.op = "broken"
    /\ stage' = "refused"
    /\ UNCHANGED <<read, who, event, groups>> /\ UNCHANGED drawVars

\* Blocks left open end with the diagram.
EndOfLines ==
    /\ stage = "read"
    /\ LET left == SelectSeq(groups, LAMBDA b : ~b)
       IN  event' = event \o [k \in DOMAIN left |-> [op |-> "blockend"]]
    /\ stage' = IF who = <<>> THEN "refused" ELSE "place"
    /\ UNCHANGED <<read, who, groups>> /\ UNCHANGED drawVars
-----------------------------------------------------------------------------
\* The lifelines stand far enough apart for what is written between them.

Apart(i, j, d) == [left |-> i, right |-> j, distance |-> d]
Half(i) == Width(who[i]) \div 2
RoomAfter(i, d) == IF i = Len(who) THEN {} ELSE {Apart(i, i + 1, d + Half(i + 1))}
RoomBefore(i, d) == IF i = 1 THEN {} ELSE {Apart(i - 1, i, d + Half(i - 1))}

\* Mutant: a message to oneself asks for no room.
RoomBesidesLoops(e) ==
    CASE e.op = "message" /\ e.from # e.to ->
            {Apart(Min({e.from, e.to}), Max({e.from, e.to}), e.tw + 56)}
      [] e.op = "note" /\ e.place = "right" -> RoomAfter(e.from, e.tw + 76)
      [] e.op = "note" /\ e.place = "left" -> RoomBefore(e.from, e.tw + 76)
      [] OTHER -> {}

Room(e) ==
    CASE e.op = "message" /\ e.from = e.to -> RoomAfter(e.from, LoopWidth + e.tw + 32)
      [] e.op = "message" /\ e.from # e.to ->
            {Apart(Min({e.from, e.to}), Max({e.from, e.to}), e.tw + 56)}
      [] e.op = "note" /\ e.place = "right" -> RoomAfter(e.from, e.tw + 76)
      [] e.op = "note" /\ e.place = "left" -> RoomBefore(e.from, e.tw + 76)
      [] e.op = "note" /\ e.place = "over" /\ e.from # e.to -> {Apart(e.from, e.to, e.tw - 40)}
      [] e.op = "note" /\ e.place = "over" /\ e.from = e.to ->
            LET half == (e.tw + 40) \div 2
            IN  RoomBefore(e.from, half + 20) \cup RoomAfter(e.from, half + 20)
      [] OTHER -> {}

Constraints ==
    {Apart(i - 1, i, Half(i - 1) + Half(i) + ActorGap) : i \in 2 .. Len(who)}
       \cup UNION {Room(event[k]) : k \in DOMAIN event}

Lifelines(cs) ==
    LET place[k \in 1 .. Len(who)] ==
            IF k = 1 THEN Half(1)
            ELSE Max({place[k - 1]} \cup {place[c.left] + c.distance : c \in {c \in cs : c.right = k}})
    IN  place

Place0 == Margin + Max({BoxHeight(who[i]) : i \in DOMAIN who}) + 44

PlaceLifelines ==
    /\ stage = "place" /\ stage' = "draw"
    /\ x' = Lifelines(Constraints) /\ y' = Place0 /\ arrow' = Place0
    /\ active' = [i \in DOMAIN who |-> <<>>]
    /\ UNCHANGED <<read, who, event, groups, at, bar, block, opened, ink>>
-----------------------------------------------------------------------------
readVarsOfSequence == <<stage, read, who, event, groups, x>>

Drawing(op) == stage = "draw" /\ at <= Len(event) /\ event[at].op = op
Event == event[at]

Activate(act, i, from) == [act EXCEPT ![i] = Append(@, [start |-> from, level |-> Len(@)])]
Deactivated(act, i) == IF act[i] = <<>> THEN act ELSE [act EXCEPT ![i] = Front(@)]
Deactivate(bars, act, i, to) ==
    IF act[i] = <<>> THEN bars
    ELSE LET a == Last(act[i])
         IN  Append(bars, [on |-> i, level |-> a.level, top |-> a.start,
                           bottom |-> a.start + Max({16, to - a.start})])

\* Where a message meets the lifeline i, given its activation boxes.
EdgeX(act, i, rightwards) ==
    IF act[i] = <<>> THEN x[i]
    ELSE IF rightwards THEN x[i] + (Len(act[i]) - 1) * 8 + BarWidth \div 2
    ELSE x[i] - BarWidth \div 2

\* Every open block is made wide enough for what is drawn in it.
TouchX(blocks, x0, x1) ==
    [b \in DOMAIN blocks |->
        IF b \notin ToSet(opened) THEN blocks[b]
        ELSE [blocks[b] EXCEPT !.minX = Min({@, x0}), !.maxX = Max({@, x1})]]

Ink(k, x0, x1, y0, y1) ==
    {[of |-> k, x0 |-> x0, x1 |-> x1, y0 |-> y0, y1 |-> y1, within |-> ToSet(opened)]}

DrawMessage ==
    /\ Drawing("message") /\ Event.from # Event.to
    /\ LET e == Event
           at0 == y + e.rows * MessageLine + 12
           right == x[e.to] > x[e.from]
           act == IF e.plus THEN Activate(active, e.to, at0) ELSE active
           mid == (EdgeX(act, e.from, right) + EdgeX(act, e.to, ~right)) \div 2
           half == e.tw \div 2
       IN  /\ block' = TouchX(TouchX(block, Min({x[e.from], x[e.to]}), Max({x[e.from], x[e.to]})),
                              mid - half, mid + half)
           /\ ink' = ink \cup Ink(at, mid - half, mid + half, y, at0)
           /\ bar' = IF e.minus THEN Deactivate(bar, act, e.from, at0) ELSE bar
           /\ active' = IF e.minus THEN Deactivated(act, e.from) ELSE act
           /\ arrow' = at0 /\ y' = at0 + 40
    /\ at' = at + 1 /\ UNCHANGED opened /\ UNCHANGED readVarsOfSequence

DrawSelfMessage ==
    /\ Drawing("message") /\ Event.from = Event.to
    /\ LET e == Event
           bottom == y + e.rows * MessageLine + 8 + LoopHeight
           x0 == EdgeX(active, e.from, TRUE)
           act == IF e.plus THEN Activate(active, e.to, bottom) ELSE active
           reach == x0 + Max({LoopWidth, e.tw + 12})
       IN  /\ block' = TouchX(block, x[e.from], reach)
           /\ ink' = ink \cup Ink(at, x[e.from], reach, y, bottom)
           /\ bar' = IF e.minus THEN Deactivate(bar, act, e.from, bottom) ELSE bar
           /\ active' = IF e.minus THEN Deactivated(act, e.from) ELSE act
           /\ arrow' = bottom /\ y' = bottom + 36
    /\ at' = at + 1 /\ UNCHANGED opened /\ UNCHANGED readVarsOfSequence

DrawNote ==
    /\ Drawing("note")
    /\ LET e == Event
           spans == e.place = "over" /\ e.from # e.to
           w == IF spans THEN Max({e.tw + 40, x[e.to] - x[e.from] + 100}) ELSE e.tw + 40
           left == CASE e.place = "right" -> x[e.from] + 24
                     [] e.place = "left" -> x[e.from] - 24 - w
                     [] OTHER -> (x[e.from] + x[e.to]) \div 2 - w \div 2
           bottom == y + 8 + e.rows * NoteLine + 24
       IN  /\ block' = TouchX(block, left, left + w)
           /\ ink' = ink \cup Ink(at, left, left + w, y + 8, bottom)
           /\ y' = bottom + 28
    /\ at' = at + 1 /\ UNCHANGED <<arrow, active, bar, opened>> /\ UNCHANGED readVarsOfSequence

DrawBlockStart ==
    /\ Drawing("block")
    /\ block' = Append(block, [rect |-> Event.rect, tw |-> Event.tw, top |-> y + 12, bottom |-> 0,
                               minX |-> Endless, maxX |-> -Endless, inner |-> 0, sections |-> <<>>,
                               parent |-> IF opened = <<>> THEN 0 ELSE Last(opened)])
    /\ opened' = Append(opened, Len(block) + 1)
    /\ y' = y + 12 + (IF Event.rect THEN 16 ELSE BlockLine + 32)
    /\ at' = at + 1 /\ UNCHANGED <<arrow, active, bar, ink>> /\ UNCHANGED readVarsOfSequence

DrawElse ==
    /\ Drawing("else")
    /\ IF opened = <<>> THEN UNCHANGED <<block, y>>
       ELSE /\ block' = [block EXCEPT ![Last(opened)].sections = Append(@, y + 12)]
            /\ y' = y + 12 + BlockLine + 24
    /\ at' = at + 1 /\ UNCHANGED <<arrow, active, bar, opened, ink>> /\ UNCHANGED readVarsOfSequence

DrawBlockEnd ==
    /\ Drawing("blockend") /\ opened # <<>>
    /\ block' = [block EXCEPT ![Last(opened)].bottom = y + 8]
    /\ opened' = Front(opened) /\ y' = y + 28
    /\ at' = at + 1 /\ UNCHANGED <<arrow, active, bar, ink>> /\ UNCHANGED readVarsOfSequence

DrawActivation ==
    /\ LET from == Max({arrow, y - 40})
       IN  \/ /\ Drawing("activate")
              /\ active' = Activate(active, Event.from, from) /\ UNCHANGED bar
           \/ /\ Drawing("deactivate")
              /\ bar' = Deactivate(bar, active, Event.from, from)
              /\ active' = Deactivated(active, Event.from)
    /\ at' = at + 1 /\ UNCHANGED <<y, arrow, block, opened, ink>> /\ UNCHANGED readVarsOfSequence

\* The activations left open end with the lifelines.
LifelineEnd == y + 12

LastBars ==
    FoldLeft(LAMBDA bars, i :
        bars \o [k \in DOMAIN active[i] |->
                    Deactivate(<<>>, [active EXCEPT ![i] = SubSeq(@, 1, Len(@) + 1 - k)], i, LifelineEnd)[1]],
        bar, [i \in DOMAIN active |-> i])

\* Mutant: a block is given no more margin than those inside it.
TakeInAsDeep(blocks, b) ==
    LET parent == blocks[b].parent
    IN  IF parent = 0 THEN blocks
        ELSE [blocks EXCEPT ![parent] = [@ EXCEPT !.minX = Min({@, blocks[b].minX}),
                                                  !.maxX = Max({@, blocks[b].maxX})]]

\* A block takes in the blocks inside it, the last opened first.
TakeIn(blocks, b) ==
    LET parent == blocks[b].parent
    IN  IF parent = 0 THEN blocks
        ELSE [blocks EXCEPT ![parent] =
                [@ EXCEPT !.inner = Max({@, blocks[b].inner + 1}), !.minX = Min({@, blocks[b].minX}),
                          !.maxX = Max({@, blocks[b].maxX})]]

FinishDrawing ==
    /\ stage = "draw" /\ at > Len(event) /\ stage' = "done"
    /\ bar' = LastBars /\ active' = [i \in DOMAIN who |-> <<>>]
    /\ block' = FoldRight(LAMBDA b, blocks : TakeIn(blocks, b), [b \in DOMAIN block |-> b], block)
    /\ UNCHANGED <<read, who, event, groups, x, at, y, arrow, opened, ink>>

SeqFinished == stage \in {"done", "refused"} /\ UNCHANGED seqVars

SeqNext ==
    \/ \E l \in Lines :
          \/ DeclareParticipant(l) \/ ParseMessage(l) \/ ParseNote(l) \/ ParseActivation(l)
          \/ StartBlock(l) \/ StartBox(l) \/ ParseElse(l) \/ ParseEnd(l) \/ ParseError(l)
    \/ EndOfLines \/ PlaceLifelines
    \/ DrawMessage \/ DrawSelfMessage \/ DrawNote \/ DrawBlockStart \/ DrawElse
    \/ DrawBlockEnd \/ DrawActivation \/ FinishDrawing \/ SeqFinished
-----------------------------------------------------------------------------
\* The frame drawn around a block.
FrameLeft(b) ==
    IF b.minX <= b.maxX THEN b.minX - 72 - 16 * b.inner ELSE x[1] - Half(1)
ContentRight(b) ==
    IF b.minX <= b.maxX THEN b.maxX + 72 + 16 * b.inner ELSE x[Len(who)] + Half(Len(who))
FrameRight(b) ==
    IF b.rect THEN ContentRight(b)
    ELSE Max({ContentRight(b), FrameLeft(b) + Keyword + b.tw + 48})
Drawn(b) == b.minX <= b.maxX

RECURSIVE Enclosing(_)
Enclosing(b) == IF b = 0 THEN {} ELSE {b} \cup Enclosing(block[b].parent)

Activations ==
    {k \in DOMAIN event : event[k].op = "activate" \/ (event[k].op = "message" /\ event[k].plus)}

\* Every activation is drawn once, between the participants at the top and at
\* the bottom, and a nested one starts inside the one around it and sticks
\* out of it by no more than the least height of a box.
BarsNest ==
    stage = "done" =>
        /\ Len(bar) = Cardinality(Activations)
        /\ \A k \in DOMAIN bar :
            /\ bar[k].top >= Place0 - 40 /\ bar[k].bottom <= LifelineEnd + 8
            /\ bar[k].level > 0 =>
                 \E j \in DOMAIN bar :
                    /\ bar[j].on = bar[k].on /\ bar[j].level = bar[k].level - 1
                    /\ bar[j].top <= bar[k].top /\ bar[k].bottom <= bar[j].bottom + 16

\* A block's frame holds what was drawn while it was open, its separators in
\* order, and the frames of the blocks inside it (one that is empty, or wider
\* than its content because of its condition, may reach further to the side);
\* blocks that are not nested do not overlap.
BlocksNest ==
    stage = "done" =>
        /\ \A i \in ink, b \in DOMAIN block :
            LET f == block[b]
            IN  IF b \in i.within
                THEN /\ FrameLeft(f) < i.x0 /\ i.x1 < FrameRight(f)
                     /\ f.top < i.y0 /\ i.y1 < f.bottom
                     /\ \A k \in DOMAIN f.sections : f.sections[k] \notin i.y0 .. i.y1
                ELSE i.y1 < f.top \/ f.bottom < i.y0
        /\ \A b \in DOMAIN block :
            LET f == block[b]
                lines == <<f.top>> \o f.sections \o <<f.bottom>>
            IN  \A k \in 1 .. Len(lines) - 1 : lines[k] < lines[k + 1]
        /\ \A a, b \in DOMAIN block :
            a < b =>
              IF a \in Enclosing(b)
              THEN /\ block[a].top < block[b].top /\ block[b].bottom < block[a].bottom
                   /\ Drawn(block[b]) =>
                        /\ FrameLeft(block[a]) < FrameLeft(block[b])
                        /\ ContentRight(block[b]) < FrameRight(block[a])
              ELSE block[a].bottom < block[b].top

\* Bars and frames, closed in whatever order or never, nest as they were opened.
BarsAndBlocksNest == BarsNest /\ BlocksNest

\* What is written about one participant, or between two, stays clear of the
\* lifelines beyond.
TextKeepsClear ==
    stage = "done" =>
        \A i \in ink :
            LET e == event[i.of]
                first == Min({e.from, e.to})
                last == Max({e.from, e.to})
                alone == first = last
            IN  /\ e.op = "message" /\ ~alone => x[first] < i.x0 /\ i.x1 < x[last]
                /\ alone /\ first > 1 => x[first - 1] < i.x0
                /\ alone /\ last < Len(who) => i.x1 < x[last + 1]
=============================================================================
