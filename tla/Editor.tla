------------------------------- MODULE Editor -------------------------------
(***************************************************************************)
(* What the menu, the format bar and the find dialog do to the text.  The  *)
(* text is a sequence of tokens (see MarkdownFormat) and line endings; a   *)
(* position is the number of tokens before it.  Scintilla keeps the text,  *)
(* the selection and the undo history.                                     *)
(***************************************************************************)
EXTENDS MarkdownFormat, FiniteSets

CONSTANTS
    Texts,          \* the documents that are edited
    Letters,        \* the tokens that make words
    Needle, Replacement, \* what the find dialog holds
    MaxSteps        \* bound: the operations of a session

\* What is typed is a sequence of tokens; the find dialog does not search for nothing.
ASSUME EditorAssumption == (\A text \in Texts \cup {Needle, Replacement} : text \in Seq(Range(text))) /\ Needle # <<>>

VARIABLES
    doc,            \* the text, the anchor and the caret
    steps           \* the operations so far

vars == <<doc, steps>>

Endings == {"lf", "crlf"}
Urls == {"http"}

Doc(text, anchor, caret) == [text |-> text, anchor |-> anchor, caret |-> caret]
SelStart(d) == IF d.anchor < d.caret THEN d.anchor ELSE d.caret
SelEnd(d) == IF d.anchor < d.caret THEN d.caret ELSE d.anchor
GetRange(text, from, to) == SubSeq(text, from + 1, to)

\* SCI_REPLACETARGET, SCI_DELETERANGE, SCI_INSERTTEXT and, of the selection, SCI_REPLACESEL.
Put(text, from, to, new) == GetRange(text, 0, from) \o new \o GetRange(text, to, Len(text))

LineFromPosition(text, pos) == Cardinality({i \in 1..pos : text[i] \in Endings})
LineCount(text) == LineFromPosition(text, Len(text)) + 1
PositionsOfLine(text, line) == {pos \in 0..Len(text) : LineFromPosition(text, pos) = line}
PositionFromLine(text, line) == Min(PositionsOfLine(text, line))
LineEndPosition(text, line) == Max(PositionsOfLine(text, line))
GetLine(text, line) == GetRange(text, PositionFromLine(text, line), LineEndPosition(text, line))

-----------------------------------------------------------------------------
(* Marks around the selection. *)

\* "**bold**" is not mistaken for "*italic*".
DoubledMark(text) ==
    \/ text[2] = text[1] /\ ~(Len(text) > 3 /\ text[3] = text[1])
    \/ text[Len(text) - 1] = text[1] /\ ~(Len(text) > 3 /\ text[Len(text) - 2] = text[1])

IsWrappedBy(text, prefix, suffix) ==
    /\ Len(text) >= Len(prefix) + Len(suffix) /\ IsPrefix(prefix, text) /\ IsSuffix(suffix, text)
    /\ ~(Len(prefix) = 1 /\ Len(text) > 2 /\ DoubledMark(text))

Around(d, p, s) ==
    IF SelStart(d) >= p /\ SelEnd(d) + s <= Len(d.text) THEN GetRange(d.text, SelStart(d) - p, SelEnd(d) + s) ELSE <<>>

\* A mutant: the markers around the selection are not looked for.
WrapAgain(d, prefix, suffix) ==
    LET start == SelStart(d)  end == SelEnd(d)  selected == GetRange(d.text, start, end) IN
    IF start # end /\ IsWrappedBy(selected, prefix, suffix)
    THEN LET inner == GetRange(selected, Len(prefix), Len(selected) - Len(suffix)) IN
         Doc(Put(d.text, start, end, inner), start, start + Len(inner))
    ELSE Doc(Put(d.text, start, end, prefix \o selected \o suffix), start + Len(prefix), end + Len(prefix))

WrapSelection(d, prefix, suffix) ==
    LET start == SelStart(d)  end == SelEnd(d)  selected == GetRange(d.text, start, end) IN
    IF start # end /\ IsWrappedBy(selected, prefix, suffix)
    THEN LET inner == GetRange(selected, Len(prefix), Len(selected) - Len(suffix)) IN
         Doc(Put(d.text, start, end, inner), start, start + Len(inner))
    ELSE IF Around(d, Len(prefix), Len(suffix)) # <<>>
            /\ IsWrappedBy(Around(d, Len(prefix), Len(suffix)), prefix, suffix)
    THEN Doc(Put(d.text, start - Len(prefix), end + Len(suffix), selected), start - Len(prefix), end - Len(prefix))
    ELSE Doc(Put(d.text, start, end, prefix \o selected \o suffix), start + Len(prefix), end + Len(prefix))

Bold == <<"*", "*">>
Italic == <<"*">>
Strikethrough == <<"~", "~">>
Code == <<"tick">>
Fence == <<"tick", "tick", "tick">>

InsertCode(d) ==
    LET selected == GetRange(d.text, SelStart(d), SelEnd(d))
        eol == IF \E i \in DOMAIN selected : selected[i] = "crlf" THEN <<"crlf">> ELSE <<"lf">>
    IN  IF \E i \in DOMAIN selected : selected[i] \in Endings
        THEN WrapSelection(d, Fence \o eol, eol \o Fence)
        ELSE WrapSelection(d, Code, Code)

\* A selected URL becomes the target; any other text becomes the label, and the target is selected.
InsertLinkMarkup(d, open) ==
    LET start == SelStart(d)  selected == GetRange(d.text, start, SelEnd(d)) IN
    IF selected = <<>> THEN Doc(Put(d.text, start, start, <<open, "](", "url", ")">>), start + 1, start + 1)
    ELSE IF selected[1] \in Urls
    THEN Doc(Put(d.text, start, SelEnd(d), <<open, "](">> \o selected \o <<")">>), start + 1, start + 1)
    ELSE Doc(Put(d.text, start, SelEnd(d), <<open>> \o selected \o <<"](", "url", ")">>),
             start + Len(selected) + 2, start + Len(selected) + 3)

-----------------------------------------------------------------------------
(* Formats of whole lines: every line the selection touches, but not the   *)
(* one at whose start it ends.                                             *)

SelectedLines(d) ==
    LET first == LineFromPosition(d.text, SelStart(d))
        touched == LineFromPosition(d.text, SelEnd(d))
        last == IF touched > first /\ SelEnd(d) = PositionFromLine(d.text, touched) THEN touched - 1 ELSE touched
    IN  [firstLine |-> first, lastLine |-> last,
         start |-> PositionFromLine(d.text, first), end |-> LineEndPosition(d.text, last)]

LinesOf(text, r) == [i \in 1 .. r.lastLine - r.firstLine + 1 |-> GetLine(text, r.firstLine + i - 1)]

\* A mutant: every line gets the ending of the first.
JoinedAlike(text, r, lines) ==
    FlattenSeq([i \in DOMAIN lines |->
        lines[i] \o (IF i = Len(lines) THEN <<>> ELSE <<text[LineEndPosition(text, r.firstLine) + 1]>>)])

\* The text of the lines, each with the ending it had: a document may mix them.
Joined(text, r, lines) ==
    FlattenSeq([i \in DOMAIN lines |->
        lines[i] \o (IF i = Len(lines) THEN <<>> ELSE <<text[LineEndPosition(text, r.firstLine + i - 1) + 1]>>)])

ClampTo(lo, hi, x) == IF x < lo THEN lo ELSE IF x > hi THEN hi ELSE x

\* The caret of a single line is shifted with the text.
Shift(pos, r, old, new) == ClampTo(r.start, r.start + Len(new), pos + Len(new) - Len(old))

Transformed(d, r, lines, out) ==
    IF out = lines THEN d
    ELSE IF r.firstLine = r.lastLine
    THEN Doc(Put(d.text, r.start, r.end, Joined(d.text, r, out)),
             Shift(d.anchor, r, lines[1], out[1]), Shift(d.caret, r, lines[1], out[1]))
    ELSE Doc(Put(d.text, r.start, r.end, Joined(d.text, r, out)), r.start, r.start + Len(Joined(d.text, r, out)))

SetHeadings(lines, level) ==
    [i \in DOMAIN lines |->
        IF IsBlank(lines[i]) /\ Len(lines) > 1 THEN lines[i] ELSE SetHeadingLevel(lines[i], level)]

Selected(d) == LinesOf(d.text, SelectedLines(d))
SetHeading(d, level) == Transformed(d, SelectedLines(d), Selected(d), SetHeadings(Selected(d), level))
ToggleLines(d, kind) == Transformed(d, SelectedLines(d), Selected(d), ToggleLineKind(Selected(d), kind))

-----------------------------------------------------------------------------
(* Blocks: they are set apart by blank lines. *)

BlankLine(text, line) == line < 0 \/ line >= LineCount(text) \/ IsBlank(GetLine(text, line))

\* A mutant: no blank line is put after the block.
NothingAfter(text, line, eol) == <<>>

\* What follows the block, before the ending of the line it replaces or is put after.
GapAfter(text, line, eol) == IF BlankLine(text, line + 1) THEN <<>> ELSE eol

ConvertEol(text, eol) == [i \in DOMAIN text |-> IF text[i] \in Endings THEN eol[1] ELSE text[i]]

InsertBlock(d, block, eol) ==
    LET line == LineFromPosition(d.text, d.caret)
        lineEnd == LineEndPosition(d.text, line)
        from == IF BlankLine(d.text, line) THEN PositionFromLine(d.text, line) ELSE lineEnd
        before == IF ~BlankLine(d.text, line) THEN eol \o eol
                  ELSE IF BlankLine(d.text, line - 1) THEN <<>> ELSE eol
    IN  Doc(Put(d.text, from, lineEnd, before \o ConvertEol(block.text, eol) \o GapAfter(d.text, line, eol)),
            from + Len(before) + block.selectStart, from + Len(before) + block.selectEnd)

Block(text, selectStart, selectEnd) == [text |-> text, selectStart |-> selectStart, selectEnd |-> selectEnd]
HorizontalRule == Block(<<"-", "-", "-">>, 3, 3)
Table == Block(<<"|a|", "lf", "|-|", "lf", "| |">>, 0, 1)
Diagram == Block(Fence \o <<"mermaid", "lf", "graph", "lf">> \o Fence, 6, 6)
EmptyFence == Block(Fence \o <<"lf", "lf">> \o Fence, 4, 4)

IsFence(line) ==
    LeadingWhitespace(line) <= 3
    /\ (IsPrefix(Fence, Trimmed(line)) \/ IsPrefix(<<"~", "~", "~">>, Trimmed(line)))

Fenced(text, r) ==
    /\ r.firstLine > 0 /\ r.lastLine + 1 < LineCount(text)
    /\ IsFence(GetLine(text, r.firstLine - 1)) /\ IsFence(GetLine(text, r.lastLine + 1))

\* The lines of a fenced block lose their fences, other lines get them.
FenceLines(d, r, eol) ==
    IF Fenced(d.text, r)
    THEN LET open == PositionFromLine(d.text, r.firstLine - 1) IN
         Doc(Put(Put(d.text, r.end, LineEndPosition(d.text, r.lastLine + 1), <<>>), open, r.start, <<>>),
             open, r.end - (r.start - open))
    ELSE Doc(Put(Put(d.text, r.end, r.end, eol \o Fence), r.start, r.start, Fence \o eol), r.start + 3, r.start + 3)

InsertCodeBlock(d, eol) ==
    LET r == SelectedLines(d) IN
    IF r.firstLine = r.lastLine /\ IsBlank(GetLine(d.text, r.firstLine)) THEN InsertBlock(d, EmptyFence, eol)
    ELSE FenceLines(d, r, eol)

-----------------------------------------------------------------------------
(* Finding and replacing. *)

WordEdge(text, pos) == ~(TokenAt(text, pos) \in Letters /\ TokenAt(text, pos + 1) \in Letters)

MatchAt(text, pos, wholeWord) ==
    /\ GetRange(text, pos, pos + Len(Needle)) = Needle
    /\ wholeWord => WordEdge(text, pos) /\ WordEdge(text, pos + Len(Needle))

\* SCI_SEARCHINTARGET: the matches that lie in a part of the text.
MatchesIn(text, from, to, wholeWord) ==
    {pos \in from .. to - Len(Needle) : MatchAt(text, pos, wholeWord)}

\* Mutant: the search does not come round to the other end.
FindStraight(d, wholeWord, forward) ==
    LET later == MatchesIn(d.text, SelEnd(d), Len(d.text), wholeWord)
        earlier == MatchesIn(d.text, 0, SelStart(d), wholeWord)
    IN  IF forward THEN IF later = {} THEN {} ELSE {Min(later)}
        ELSE IF earlier = {} THEN {} ELSE {Max(earlier)}

\* The match after the selection, else the first one up to its end; backward the same way.
Found(d, wholeWord, forward) ==
    LET later == MatchesIn(d.text, SelEnd(d), Len(d.text), wholeWord)
        untilEnd == MatchesIn(d.text, 0, SelEnd(d), wholeWord)
        earlier == MatchesIn(d.text, 0, SelStart(d), wholeWord)
        fromStart == MatchesIn(d.text, SelStart(d), Len(d.text), wholeWord)
    IN  IF forward THEN IF later # {} THEN {Min(later)} ELSE IF untilEnd # {} THEN {Min(untilEnd)} ELSE {}
        ELSE IF earlier # {} THEN {Max(earlier)} ELSE IF fromStart # {} THEN {Max(fromStart)} ELSE {}

Find(d, wholeWord, forward) ==
    IF Found(d, wholeWord, forward) = {} THEN d
    ELSE LET pos == Min(Found(d, wholeWord, forward)) IN Doc(d.text, pos, pos + Len(Needle))

\* Only a selection that is the current match is replaced; then the next one is found.
ReplaceOne(d, wholeWord, forward) ==
    IF GetRange(d.text, SelStart(d), SelEnd(d)) = Needle
    THEN LET end == SelStart(d) + Len(Replacement) IN
         Find(Doc(Put(d.text, SelStart(d), SelEnd(d), Replacement), end, end), wholeWord, forward)
    ELSE Find(d, wholeWord, forward)

\* What is replaced is not searched again; s.rest is what the target still covers.
ReplaceNext(s, wholeWord) ==
    LET text == s.done \o s.rest
        later == MatchesIn(text, Len(s.done), Len(text), wholeWord)
    IN  IF later = {} THEN s
        ELSE [done |-> GetRange(text, 0, Min(later)) \o Replacement,
              rest |-> GetRange(text, Min(later) + Len(Needle), Len(text))]

ReplaceAllIn(text, wholeWord) ==
    LET turns[n \in 0..Len(text)] ==
            IF n = 0 THEN [done |-> <<>>, rest |-> text] ELSE ReplaceNext(turns[n - 1], wholeWord)
    IN  turns[Len(text)].done \o turns[Len(text)].rest

\* The mark of a task: the box whose middle is at the offset.  The selection is left alone.
SetTaskMark(text, i, checked) ==
    IF i \in DOMAIN text /\ text[i] \in Boxes THEN [text EXCEPT ![i] = IF checked THEN "[x]" ELSE "[ ]"] ELSE text

-----------------------------------------------------------------------------
Step(d) == steps < MaxSteps /\ doc' = d /\ steps' = steps + 1

WrapIn(marks) == Step(WrapSelection(doc, marks, marks))
InsertBold == WrapIn(Bold)
InsertItalic == WrapIn(Italic)
InsertStrikethrough == WrapIn(Strikethrough)
InsertCodeMark == Step(InsertCode(doc))
InsertLink == \E open \in {"[", "!["} : Step(InsertLinkMarkup(doc, open))
FormatHeading == \E level \in 0..2 : Step(SetHeading(doc, level))
FormatLines == \E kind \in {"Quote", "Bullet", "Numbered", "Task"} : Step(ToggleLines(doc, kind))
PutBlock == \E block \in {HorizontalRule, Table, Diagram} : Step(InsertBlock(doc, block, <<"lf">>))
PutCodeBlock == Step(InsertCodeBlock(doc, <<"lf">>))
FindNext == \E wholeWord, forward \in BOOLEAN : Step(Find(doc, wholeWord, forward))
Replace == \E wholeWord, forward \in BOOLEAN : Step(ReplaceOne(doc, wholeWord, forward))

\* The control moves the caret along; anywhere, for this model.
ReplaceEverywhere ==
    \E wholeWord \in BOOLEAN : LET text == ReplaceAllIn(doc.text, wholeWord) IN
        /\ text # doc.text
        /\ \E pos \in 0..Len(text) : Step(Doc(text, pos, pos))

ToggleTask ==
    \E i \in DOMAIN doc.text, checked \in BOOLEAN :
        Step([doc EXCEPT !.text = SetTaskMark(doc.text, i, checked)])

Init ==
    /\ \E text \in Texts : \E anchor, caret \in 0..Len(text) : doc = Doc(text, anchor, caret)
    /\ steps = 0

Next ==
    \/ InsertBold \/ InsertItalic \/ InsertStrikethrough \/ InsertCodeMark \/ InsertLink
    \/ FormatHeading \/ FormatLines \/ PutBlock \/ PutCodeBlock
    \/ FindNext \/ Replace \/ ReplaceEverywhere \/ ToggleTask

Spec == Init /\ [][Next]_vars

-----------------------------------------------------------------------------
(* Properties. *)

Selection(d) == <<SelStart(d), SelEnd(d)>>
Same(d, e) == d.text = e.text /\ Selection(d) = Selection(e)

\* The selection begins or ends with one mark of its own.
LoneMark(selected, m) ==
    /\ selected # <<>>
    /\ \/ selected[1] = m /\ TokenAt(selected, 2) # m
       \/ Last(selected) = m /\ TokenAt(selected, Len(selected) - 1) # m

OffAgain(once, marks) == Len(once.text) > Len(doc.text) => Same(WrapSelection(once, marks, marks), doc)

\* A second press takes off the marks the first one put on, and the same text is selected.  The
\* marks are single characters, so a selection that already ends in one of them is not told apart.
InlineTogglesOff ==
    /\ \A marks \in {Bold, Strikethrough} : OffAgain(WrapSelection(doc, marks, marks), marks)
    /\ \A marks \in {Italic, Code} :
          ~LoneMark(GetRange(doc.text, SelStart(doc), SelEnd(doc)), marks[1])
          => OffAgain(WrapSelection(doc, marks, marks), marks)

\* How many of the tokens before and after the selection are stars, whichever are fewer.
Stars(d) ==
    LET before == GetRange(d.text, 0, SelStart(d))  after == GetRange(d.text, SelEnd(d), Len(d.text))
        a == Leading(Reverse(before), "*", Len(before))  b == Leading(after, "*", Len(after))
    IN  IF a < b THEN a ELSE b

\* "Italic must not eat one star of a bold span."
ItalicKeepsBold == Stars(doc) = 2 /\ SelStart(doc) # SelEnd(doc) => Stars(WrapSelection(doc, Italic, Italic)) # 1

TailFrom(text, pos) == GetRange(text, pos, LineEndPosition(text, LineFromPosition(text, pos)))

OnlyItsLines(d, e) ==
    LET r == SelectedLines(d) IN
    /\ GetRange(e.text, 0, r.start) = GetRange(d.text, 0, r.start)
    /\ IsSuffix(GetRange(d.text, r.end, Len(d.text)), e.text)
    /\ SelectSeq(e.text, LAMBDA t : t \in Endings) = SelectSeq(d.text, LAMBDA t : t \in Endings)
    /\ e # d => SelStart(e) >= r.start /\ SelEnd(e) <= Len(e.text) - (Len(d.text) - r.end)
    /\ r.firstLine = r.lastLine /\ d.caret <= r.end
            /\ IsSuffix(TailFrom(d.text, d.caret), TailFrom(e.text, r.start))
       => TailFrom(e.text, e.caret) = TailFrom(d.text, d.caret)

\* Headings, quotes and lists change nothing beyond the selected lines, keep every line ending of a
\* document that mixes them, and leave the caret before the same text (TransformSelectedLines).
LineFormatsKeepTheRest ==
    /\ \A level \in 0..2 : OnlyItsLines(doc, SetHeading(doc, level))
    /\ \A kind \in {"Quote", "Bullet", "Numbered", "Task"} : OnlyItsLines(doc, ToggleLines(doc, kind))

\* The number an item gets: one more than the items before it that are as deep, since the last one
\* less deep.
CountUpTo(lines, i) ==
    Cardinality({j \in Targets(lines) : j <= i /\ Indent(lines[j]) = Indent(lines[i])
        /\ \A k \in Targets(lines) : j < k /\ k < i => Indent(lines[k]) >= Indent(lines[i])})

\* A text that is itself a box would become a task of the bullet put before it.
StartsWithBox(line) == TokenAt(Content(Body(line), ParseListMarker(Body(line))), 1) \in Boxes

Toggles(lines, kind, out) ==
    IF AllHave(lines, kind)
    THEN \A i \in Targets(lines) : IsSuffix(out[i], lines[i]) \/ out[i] = Unmarked(lines[i])
    ELSE /\ \A i \in Targets(lines) : HasLineKind(out[i], kind) \/ (kind # "Quote" /\ StartsWithBox(lines[i]))
         /\ kind = "Numbered" => \A i \in Targets(lines) :
               TokenAt(Body(out[i]), Indent(lines[i]) + 1) = Numbers[CountUpTo(lines, i)]

\* "removes it when every non-blank line already has it, otherwise applies it to all of them
\* (converting other list markers). Numbered items are renumbered from 1 per indentation level."
KindIsToggled ==
    \A kind \in {"Quote", "Bullet", "Numbered", "Task"} : Toggles(Selected(doc), kind, ToggleLineKind(Selected(doc), kind))

\* A line format does what it says to the lines that are selected, and nothing else.
LineFormatsHold == LineFormatsKeepTheRest /\ KindIsToggled

StandsApart(e, size) ==
    LET first == LineFromPosition(e.text, SelStart(e)) IN
    /\ BlankLine(e.text, first - 1)
    /\ BlankLine(e.text, first + size)

\* A block that is inserted has a blank line, or the end of the text, before and after it, wherever
\* the caret was: "---" right below text would turn that text into a heading.
BlockStandsApart ==
    /\ StandsApart(InsertBlock(doc, HorizontalRule, <<"lf">>), 1)
    /\ StandsApart(InsertBlock(doc, Table, <<"lf">>), 3)

Cut(pos) == pos < SelEnd(doc) /\ SelEnd(doc) < pos + Len(Needle)
CutBackward(pos) == pos < SelStart(doc) /\ SelStart(doc) < pos + Len(Needle)

\* The search comes round the whole text: nothing is found only if there is no match, but for one
\* that begins before the place the search begins at and ends after it.
FindsWhatIsThere ==
    \A wholeWord \in BOOLEAN : \A pos \in MatchesIn(doc.text, 0, Len(doc.text), wholeWord) :
        /\ ~Cut(pos) => Found(doc, wholeWord, TRUE) # {}
        /\ ~CutBackward(pos) => Found(doc, wholeWord, FALSE) # {}
=============================================================================
