--------------------------- MODULE MarkdownFormat ---------------------------
(***************************************************************************)
(* The line formats of the format bar: headings, quotes and lists.  A line *)
(* is a sequence of tokens: the marks of Markdown, white space, numbers of *)
(* ordered items ("1."), the boxes of tasks, and words.                    *)
(***************************************************************************)
EXTENDS Integers, Sequences, SequencesExt

Space == " "
Bullets == {"-", "*", "+"}
Numbers == <<"1.", "2.", "3.", "4.">>
Boxes == {"[ ]", "[x]"}

FromToken(line, n) == SubSeq(line, n + 1, Len(line))
TokenAt(line, i) == IF i \in DOMAIN line THEN line[i] ELSE "end"
IsBlank(line) == \A i \in DOMAIN line : line[i] = Space

\* The number of times a token begins the line, at most limit.
Leading(line, token, limit) ==
    Max({n \in 0..Len(line) : n <= limit /\ \A i \in 1..n : line[i] = token})

LeadingWhitespace(line) == Leading(line, Space, Len(line))

\* One "> " with up to three spaces before it.
QuoteMarkerLength(line) ==
    LET i == Leading(line, Space, 3) IN
    IF TokenAt(line, i + 1) # ">" THEN 0
    ELSE IF TokenAt(line, i + 2) = Space THEN i + 2 ELSE i + 1

QuotePrefixLength(line) ==
    LET past(from) == from + QuoteMarkerLength(FromToken(line, from))
        after[n \in 0..Len(line)] == IF n = 0 THEN 0 ELSE past(after[n - 1])
    IN  after[Len(line)]

Body(line) == FromToken(line, QuotePrefixLength(line))

\* Where the mark of a list item ends, or 0: "**bold**", "-->" and "1.5" are text.
MarkerEnd(body, at) ==
    IF TokenAt(body, at) \in Bullets \cup {Numbers[k] : k \in DOMAIN Numbers}
       /\ TokenAt(body, at + 1) \in {Space, "end"}
    THEN IF at + 1 \in DOMAIN body THEN at + 1 ELSE at
    ELSE 0

HasBox(body, j) == TokenAt(body, j + 1) \in Boxes /\ TokenAt(body, j + 2) \in {Space, "end"}

Marker(body, indent, j) ==
    [found |-> j # 0, ordered |-> j # 0 /\ TokenAt(body, indent + 1) \notin Bullets, task |-> j # 0 /\ HasBox(body, j),
     indent |-> indent,
     contentStart |-> IF j = 0 THEN 0
                      ELSE IF ~HasBox(body, j) THEN j
                      ELSE IF j + 2 \in DOMAIN body THEN j + 2 ELSE j + 1]

ParseListMarker(body) ==
    Marker(body, LeadingWhitespace(body), MarkerEnd(body, LeadingWhitespace(body) + 1))

IsKind(m, kind) ==
    CASE kind = "Bullet" -> m.found /\ ~m.ordered /\ ~m.task
      [] kind = "Numbered" -> m.found /\ m.ordered /\ ~m.task
      [] kind = "Task" -> m.found /\ m.task

HasLineKind(line, kind) ==
    IF kind = "Quote" THEN QuoteMarkerLength(line) > 0 ELSE IsKind(ParseListMarker(Body(line)), kind)

-----------------------------------------------------------------------------
(* Headings. *)

HeadingLevel(line) ==
    LET i == Leading(line, Space, 3)
        level == Leading(FromToken(line, i), "#", Len(line))
    IN  IF level \in 1..6 /\ TokenAt(line, i + level + 1) \in {Space, "end"} THEN level ELSE 0

WithoutHeading(body) ==
    IF HeadingLevel(body) > 0 THEN FromToken(body, LeadingWhitespace(body) + HeadingLevel(body)) ELSE body

Trimmed(body) == FromToken(body, LeadingWhitespace(body))

SetHeadingLevel(line, level) ==
    SubSeq(line, 1, QuotePrefixLength(line))
        \o (IF level > 0 THEN [i \in 1..level |-> "#"] \o <<Space>> ELSE <<>>)
        \o Trimmed(WithoutHeading(Body(line)))

-----------------------------------------------------------------------------
(* Toggling a kind of line: it is removed if every target has it. *)

\* A lone line is a target even when blank, so that the text can be typed after the marker.
Targets(lines) == {i \in DOMAIN lines : Len(lines) = 1 \/ ~IsBlank(lines[i])}

ToggleQuote(lines, target, remove) ==
    [i \in DOMAIN lines |->
        IF i \in target
        THEN IF remove THEN FromToken(lines[i], QuoteMarkerLength(lines[i])) ELSE <<">", Space>> \o lines[i]
        ELSE IF ~remove /\ Min(target) < i /\ i < Max(target) THEN <<">">> ELSE lines[i]]

Lead(line) == SubSeq(line, 1, QuotePrefixLength(line) + LeadingWhitespace(Body(line)))
Content(body, m) == FromToken(body, IF m.found THEN m.contentStart ELSE m.indent)
Unmarked(line) == Lead(line) \o Content(Body(line), ParseListMarker(Body(line)))
Marked(line, marker) == Lead(line) \o marker \o Content(Body(line), ParseListMarker(Body(line)))

Indent(line) == LeadingWhitespace(Body(line))

\* The levels that are open after an item: (indent, last number), the deepest last.
Numbered(numbering, indent) ==
    LET open == SelectSeq(numbering, LAMBDA n : n[1] <= indent) IN
    IF open # <<>> /\ Last(open)[1] = indent
    THEN Append(Front(open), <<indent, Last(open)[2] + 1>>)
    ELSE Append(open, <<indent, 1>>)

NumberOf(lines, target, i) ==
    Last(FoldLeft(LAMBDA numbering, j : IF j \in target THEN Numbered(numbering, Indent(lines[j])) ELSE numbering,
                  <<>>, [j \in 1..i |-> j]))[2]

NewMarker(lines, target, i, kind) ==
    IF kind = "Numbered" THEN <<Numbers[NumberOf(lines, target, i)], Space>>
    ELSE IF kind = "Bullet" THEN <<"-", Space>> ELSE <<"-", Space, "[ ]", Space>>

\* "*" bullets and checked tasks are kept.
ToggleList(lines, target, remove, kind) ==
    [i \in DOMAIN lines |->
        IF i \notin target THEN lines[i]
        ELSE IF remove THEN Unmarked(lines[i])
        ELSE IF kind # "Numbered" /\ HasLineKind(lines[i], kind) THEN lines[i]
        ELSE Marked(lines[i], NewMarker(lines, target, i, kind))]

AllHave(lines, kind) == \A i \in Targets(lines) : HasLineKind(lines[i], kind)

ToggleLineKind(lines, kind) ==
    IF Targets(lines) = {} THEN lines
    ELSE IF kind = "Quote" THEN ToggleQuote(lines, Targets(lines), AllHave(lines, kind))
    ELSE ToggleList(lines, Targets(lines), AllHave(lines, kind), kind)
=============================================================================
