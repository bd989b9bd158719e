------------------------------ MODULE Outline ------------------------------
(***************************************************************************)
(* The outline panel: the headings of the last tree as a tree of titles,   *)
(* the section of the caret highlighted in it, and navigation to a heading *)
(* by the keyboard and by the mouse.  A click posts a message to the panel *)
(* that is handled after what is already in the queue.                     *)
(***************************************************************************)
EXTENDS Integers, Sequences, FiniteSetsExt, SequencesExt

CONSTANT MaxItems    \* the headings the panel lists at most

NoItem == -1         \* no heading: nothing selected, or the line that says there are none
Unknown == -2        \* the selection must be worked out again
Placeholder == "none"

VARIABLES
    headings,        \* m_headings: line, level and title of each
    items,           \* the tree control: title, parent and heading of each item
    selected,        \* the item the control has selected, 0 for none
    selectedIndex,   \* m_selectedIndex: the heading the panel believes selected, from 0
    lastLine,        \* m_lastLine
    posted           \* the WM_APP_NAVIGATE_ITEM on its way: the heading clicked, or NoItem

outlineVars == <<headings, items, selected, selectedIndex, lastLine, posted>>

Panel == [headings |-> headings, items |-> items, selected |-> selected, selectedIndex |-> selectedIndex, lastLine |-> lastLine]

PanelIs(panel) ==
    /\ headings = panel.headings
    /\ items = panel.items
    /\ selected = panel.selected
    /\ selectedIndex = panel.selectedIndex
    /\ lastLine = panel.lastLine

PanelBecomes(panel) ==
    /\ headings' = panel.headings
    /\ items' = panel.items
    /\ selected' = panel.selected
    /\ selectedIndex' = panel.selectedIndex
    /\ lastLine' = panel.lastLine

\* The last heading at or above the line, from 0; NoItem before the first.
FindSectionIndex(hs, line) == Max({i \in 0..Len(hs) : \A k \in 1..i : hs[k].line <= line}) - 1

Highlighted(panel, index) ==
    IF index = panel.selectedIndex THEN panel
    ELSE [panel EXCEPT !.selectedIndex = index, !.selected = IF index >= 0 /\ index < Len(panel.headings) THEN index + 1 ELSE 0]

HighlightLine(panel, line) == Highlighted([panel EXCEPT !.lastLine = line], FindSectionIndex(panel.headings, line))

\* Each heading is under the closest heading above it of a higher level.
ParentOf(hs, i) ==
    Max({0} \cup {k \in 1..i - 1 : hs[k].level < hs[i].level /\ \A m \in k + 1..i - 1 : hs[m].level >= hs[i].level})

ItemsOf(hs) ==
    IF hs = <<>> THEN <<[title |-> Placeholder, parent |-> 0, index |-> NoItem]>>
    ELSE [i \in DOMAIN hs |-> [title |-> hs[i].title, parent |-> ParentOf(hs, i), index |-> i - 1]]

Rebuild(panel) ==
    HighlightLine([panel EXCEPT !.items = ItemsOf(panel.headings), !.selected = 0, !.selectedIndex = Unknown], panel.lastLine)

\* Mutant: the levels are not compared.
SameCount(panel, new) == panel.headings # <<>> /\ Len(panel.headings) = Len(new)

SameShape(panel, new) ==
    /\ panel.headings # <<>>
    /\ Len(panel.headings) = Len(new)
    /\ \A i \in DOMAIN new : new[i].level = panel.headings[i].level

\* When only titles and lines change the items stay, with what is expanded and the scroll.
Retitled(panel, new) ==
    HighlightLine([panel EXCEPT !.items = [i \in DOMAIN @ |-> [@[i] EXCEPT !.title = new[i].title]],
                                !.headings = new, !.selectedIndex = Unknown], panel.lastLine)

SetHeadings(panel, new) ==
    IF SameShape(panel, new) THEN Retitled(panel, new)
    ELSE IF new = <<>> /\ panel.headings = <<>> THEN panel
    ELSE Rebuild([panel EXCEPT !.headings = new])

ItemIndex(item) ==
    IF item = 0 THEN NoItem
    ELSE IF items[item].index \in 0..Len(headings) - 1 THEN items[item].index ELSE NoItem

\* The panel as it is created.
NewPanel == [headings |-> <<>>, items |-> ItemsOf(<<>>), selected |-> 0, selectedIndex |-> NoItem, lastLine |-> 0]

\* The control selects another item, and says so unless the panel did it.
SelectItem(item) ==
    /\ selected' = item
    /\ selectedIndex' = ItemIndex(item)
    /\ UNCHANGED <<headings, items, lastLine>>

\* Where Navigate takes the caret: the line of a heading, or no line.
NavigateLine(index) == IF index \in 0..Len(headings) - 1 THEN headings[index + 1].line ELSE 0
=============================================================================
