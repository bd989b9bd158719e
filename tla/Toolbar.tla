------------------------------ MODULE Toolbar ------------------------------
(***************************************************************************)
(* Which items of a toolbar fit and which go to its overflow menu          *)
(* (Toolbar::Layout).  An item is [kind, width, alignRight]; items aligned *)
(* right come last.                                                        *)
(***************************************************************************)
EXTENDS Integers, Sequences, FiniteSetsExt

CONSTANTS Items, Pad, Gap, ButtonWidth

\* As in MainItems and FormatItems: what is aligned right comes last, and a separator comes before
\* an item of another group.
ASSUME ToolbarAssumption ==
    /\ Items \in Seq([kind : {"Button", "Toggle", "Dropdown", "Segment", "Separator"},
                      width : Nat \ {0}, alignRight : BOOLEAN])
    /\ \A i \in 2 .. Len(Items) : Items[i - 1].alignRight => Items[i].alignRight
    /\ \A i \in DOMAIN Items : Items[i].kind = "Separator" =>
          i < Len(Items) /\ Items[i + 1].kind # "Separator" /\ ~Items[i + 1].alignRight
    /\ Pad \in Nat /\ Gap \in Nat /\ Gap <= Pad /\ ButtonWidth \in Nat

\* Buttons are apart; separators and the segments of one control are contiguous.
After(item) == IF item.kind \in {"Separator", "Segment"} THEN 0 ELSE Gap

Left == {i \in DOMAIN Items : ~Items[i].alignRight}

\* Where the item after each begins, if none is aligned right.
NextX[i \in 0 .. Len(Items)] ==
    IF i = 0 THEN Pad ELSE NextX[i - 1] + Items[i].width + After(Items[i])

\* The right edge of an item that is not aligned right.
RightOf(i) == NextX[i - 1] + Items[i].width

\* Where the items aligned right begin.
RightLimit(client) == (client - Pad) - Cardinality(DOMAIN Items \ Left) * (ButtonWidth + Gap)

\* `while (cut > 0 && again) --cut`, counting from 1.
Back(cut, again) == Max({c \in 1 .. cut : c = 1 \/ c \notin again})

NoSplit(cut) == Back(cut, {c \in 2 .. cut : Items[c].kind = "Segment" /\ Items[c - 1].kind = "Segment"})
NoDangling(cut) == Back(cut, {c \in 2 .. cut : Items[c - 1].kind = "Separator"})

TooFar(client) == {i \in Left : RightOf(i) > RightLimit(client)}
Overflows(client) == TooFar(client) # {}

\* The button of the overflow menu must fit too.
MakeRoom(cut, client) ==
    Back(cut, {c \in 2 .. cut : RightOf(c - 1) > (RightLimit(client) - ButtonWidth) - Gap})

\* The first item of the overflow menu.
Cut(client) == NoDangling(NoSplit(MakeRoom(Min(TooFar(client)), client)))

Hidden(client) == IF Overflows(client) THEN {i \in Left : i >= Cut(client)} ELSE {}

\* The right edge of the overflow button, after the last item shown.
OverflowRight(client) ==
    IF Cut(client) = 1 THEN Pad + ButtonWidth ELSE RightOf(Cut(client) - 1) + Gap + ButtonWidth

\* The overflow menu: the commands of the hidden items, without the separators.
OverflowCommands(client) == {i \in Hidden(client) : Items[i].kind # "Separator"}
=============================================================================
