----------------------------- MODULE PreviewText -----------------------------
(***************************************************************************)
(* What the preview does with the text of a layout: the character, word,   *)
(* link or checkbox under a point, the place of a character in the source, *)
(* the text and the source of a selection, and searching.  A position is a *)
(* unit of the layout and a count of UTF-16 units.                         *)
(***************************************************************************)
EXTENDS PreviewLayout

Pos(unit, offset) == [unit |-> unit, offset |-> offset]
Before(a, b) == a.unit < b.unit \/ (a.unit = b.unit /\ a.offset < b.offset)
Earlier(a, b) == IF Before(b, a) THEN b ELSE a
Later(a, b) == IF Before(a, b) THEN b ELSE a
Origin == Pos(1, 0)

\* The text of a unit, with where it is drawn.
ViewOf(layout, u) ==
    LET unit == layout.units[u]
        box == layout.boxes[unit.box]
        drawn == IF unit.row = 0 THEN box ELSE box.rows[unit.row][unit.col]
    IN  [text |-> drawn.rich.text, segs |-> drawn.rich.segs, links |-> drawn.rich.links,
         x |-> drawn.x, y |-> drawn.y, width |-> drawn.width, area |-> drawn.area]

TextOf(layout, u) == ViewOf(layout, u).text
DocumentEnd(layout) ==
    IF layout.units = <<>> THEN Origin ELSE Pos(Len(layout.units), Len(TextOf(layout, Len(layout.units))))

InArea(a, x, y) == x >= a.left /\ x <= a.right /\ y >= a.top /\ y <= a.bottom
Gap(from, to, v) == IF v < from THEN from - v ELSE IF v > to THEN v - to ELSE 0

\* The character of a row nearest a place in it.
InRow(places, here, at) == Max({Min(here)} \cup {i \in here : places[i].col * CharWidth <= at})

\* The two halves of a surrogate pair are one character.
CharacterAt(text, places, i, at, inText) ==
    LET len == IF text[i] = "F0" THEN 2 ELSE 1
        left == places[i].col * CharWidth
        right == left + len * CharWidth
    IN  [pos |-> i - 1, len |-> len, trailing |-> 2 * at >= left + right, inside |-> inText /\ at >= 0 /\ at < right]

WholeCharacter(text, i) == IF text[i] = "9F" THEN i - 1 ELSE i

\* DirectWrite: the character nearest a point of a text, whether the point is in its second
\* half, and whether it is in it at all.
HitTestRow(text, places, here, at, inText) ==
    IF here = {} THEN [pos |-> Len(text), len |-> 0, trailing |-> FALSE, inside |-> FALSE]
    ELSE CharacterAt(text, places, WholeCharacter(text, InRow(places, here, at)), at, inText)

HitTestPlaces(text, places, at, down) ==
    LET row == Max({0, Min({Last(places).row, down \div LineHeight})})
    IN  HitTestRow(text, places, {i \in DOMAIN text : places[i].row = row}, at,
                   down >= 0 /\ down < LineHeight * (Last(places).row + 1))

HitTestPoint(view, x, y) == HitTestPlaces(view.text, Places(view.text, view.width), x - view.x, y - view.y)

Edge(hit) == hit.pos + (IF hit.trailing THEN hit.len ELSE 0)

\* The nearest unit: by height first, then across the cells of a row.
NearestUnit(layout, x, y) ==
    LET area == [u \in DOMAIN layout.units |-> ViewOf(layout, u).area]
        nearest(us, gap) == {u \in us : \A v \in us : gap[u] <= gap[v]}
        level == nearest(DOMAIN area, [u \in DOMAIN area |-> Gap(area[u].top, area[u].bottom, y)])
    IN  Min(nearest(level, [u \in DOMAIN area |-> Gap(area[u].left, area[u].right, x)]))

HitInUnit(u, view, hit) ==
    [unit |-> u, caret |-> Min({Edge(hit), Len(view.text)}), character |-> Min({hit.pos, Len(view.text)}), text |-> view.text]

HitView(u, view, x, y) == HitInUnit(u, view, HitTestPoint(view, x, y))
HitUnit(layout, u, x, y) == HitView(u, ViewOf(layout, u), x, y)
HitTestUnit(layout, x, y) == HitUnit(layout, NearestUnit(layout, x, y), x, y)

HitTestTextPosition(layout, x, y) ==
    LET at(hit) == Pos(hit.unit, hit.caret)
    IN  IF layout.units = <<>> THEN Origin ELSE at(HitTestUnit(layout, x, y))

\* The task of the checkbox at a point, which may be missed by a little.
HitTestTaskBox(layout, x, y) ==
    LET hit == {b \in DOMAIN layout.boxes :
                  /\ layout.boxes[b].task # NoSource
                  /\ InArea([left |-> layout.boxes[b].mark.left - Slop, top |-> layout.boxes[b].mark.top - Slop,
                             right |-> layout.boxes[b].mark.right + Slop, bottom |-> layout.boxes[b].mark.bottom + Slop], x, y)}
    IN  IF hit = {} THEN 0 ELSE Min(hit)

SetTaskChecked(layout, mark, checked) ==
    [layout EXCEPT !.boxes = [b \in DOMAIN @ |-> IF @[b].task = mark THEN [@[b] EXCEPT !.checked = checked] ELSE @[b]]]

InLink(view, places, link, x, y) ==
    \E i \in link.at + 1 .. link.at + link.len :
        LET left == view.x + places[i].col * CharWidth
            top == view.y + places[i].row * LineHeight
        IN  InArea(Rect(left, top, left + CharWidth, top + LineHeight), x, y)

\* The address of the first link of the layout at a point, or no address.
HitTestLink(layout, x, y) ==
    LET within(view, places) == {l \in DOMAIN view.links : InLink(view, places, view.links[l], x, y)}
        linksIn(view) == within(view, Places(view.text, view.width))
        there == {u \in DOMAIN layout.units : linksIn(ViewOf(layout, u)) # {}}
        first(view) == view.links[Min(linksIn(view))].url
    IN  IF there = {} THEN NoUrl ELSE first(ViewOf(layout, Min(there)))

-----------------------------------------------------------------------------
(* Words. *)

ClassOf(c) ==
    CASE c \in {" ", "ls", "lf"} -> "Space"
      [] c \in {":", "*", "&", "(", ")", ".", "#", "tick", "-"} -> "Other"
      [] OTHER -> "Word"

WordBounds(text, index) ==
    LET i == Min({index, Len(text) - 1}) + 1
        same(a, b) == \A k \in a..b : ClassOf(text[k]) = ClassOf(text[i])
    IN  IF text = <<>> THEN <<0, 0>>
        ELSE <<Min({a \in 1..i : same(a, i)}) - 1, Max({b \in i..Len(text) : same(i, b)})>>

WordAt(layout, x, y) ==
    LET range(hit, word) == <<Pos(hit.unit, word[1]), Pos(hit.unit, word[2])>>
        wordOf(hit) == range(hit, WordBounds(hit.text, hit.character))
    IN  IF layout.units = <<>> THEN <<Origin, Origin>> ELSE wordOf(HitTestUnit(layout, x, y))

UnitAt(layout, x, y) ==
    LET all(u) == <<Pos(u, 0), Pos(u, Len(TextOf(layout, u)))>>
    IN  IF layout.units = <<>> THEN <<Origin, Origin>> ELSE all(HitTestUnit(layout, x, y).unit)

-----------------------------------------------------------------------------
(* Back to the source. *)

NoHit(line) == [line |-> line, exact |-> FALSE, src |-> 0, delta |-> 0]
Hit(line, src, delta) == [line |-> line, exact |-> TRUE, src |-> src, delta |-> delta]

\* Mutant: between two segments a position belongs to the first, whichever side it is seen from.
ResolveLeft(segs, pos, trailing, line) ==
    LET ending == {i \in DOMAIN segs : segs[i].at + segs[i].len >= pos}
        it == IF ending = {} THEN Len(segs) + 1 ELSE Min(ending)
    IN  IF segs = <<>> THEN NoHit(line)
        ELSE IF it \in DOMAIN segs /\ segs[it].at <= pos THEN Hit(line, segs[it].src, pos - segs[it].at)
        ELSE IF it > 1 THEN Hit(line, segs[it - 1].src, segs[it - 1].len)
        ELSE Hit(line, segs[it].src, 0)

\* In a segment, the same distance from its beginning; in a text that is no copy, the end of
\* the segment before it, or the beginning of the first.
ResolveSource(segs, pos, trailing, line) ==
    LET ending == {i \in DOMAIN segs : segs[i].at + segs[i].len >= pos}
        first == IF ending = {} THEN Len(segs) + 1 ELSE Min(ending)
        ends == first < Len(segs) /\ segs[first].at + segs[first].len = pos /\ segs[first + 1].at = pos
        it == IF ends /\ ~trailing THEN first + 1 ELSE first
    IN  IF segs = <<>> THEN NoHit(line)
        ELSE IF it \in DOMAIN segs /\ segs[it].at <= pos THEN Hit(line, segs[it].src, pos - segs[it].at)
        ELSE IF it > 1 THEN Hit(line, segs[it - 1].src, segs[it - 1].len)
        ELSE Hit(line, segs[it].src, 0)

\* A row of a table is one line, and the line of dashes follows the header.
RowLine(box, row) == box.start + row - 1 + (IF row - 1 >= box.headerRows THEN 1 ELSE 0)

UnitLines(layout, u) ==
    LET unit == layout.units[u]
        box == layout.boxes[unit.box]
    IN  IF unit.row = 0 THEN <<box.start, box.end>> ELSE <<RowLine(box, unit.row), RowLine(box, unit.row)>>

SourceOfHit(segs, hit, line) == ResolveSource(segs, Edge(hit), hit.trailing, line)
HitText(drawn, x, y, line) ==
    IF ~drawn.hasText THEN NoHit(line)
    ELSE SourceOfHit(drawn.rich.segs, HitTestPoint([text |-> drawn.rich.text, x |-> drawn.x, y |-> drawn.y, width |-> drawn.width], x, y), line)

HitTestCell(box, r, x, y) ==
    LET c == Min({k \in DOMAIN box.rows[r] : k = Len(box.rows[r]) \/ x <= box.rows[r][k].area.right})
    IN  HitText(box.rows[r][c], x, y, RowLine(box, r))

HitTestBlock(box, x, y) ==
    IF box.type = "Table" /\ box.rows # <<>>
    THEN HitTestCell(box, Min({k \in DOMAIN box.rows : k = Len(box.rows) \/ y <= box.rows[k][1].area.bottom}), x, y)
    ELSE IF box.diagram THEN NoHit(Min({box.start + 1, box.end}))
    ELSE HitText(box, x, y, box.start)

\* The source at a point: that of the nearest block, of the cell in a table, of the character.
HitTestSource(layout, x, y) ==
    LET gaps == [i \in DOMAIN layout.sync |->
                    Gap(layout.boxes[layout.sync[i]].area.top, layout.boxes[layout.sync[i]].area.bottom, y)]
        nearest == Min({i \in DOMAIN gaps : \A j \in DOMAIN gaps : gaps[i] <= gaps[j]})
    IN  IF layout.sync = <<>> THEN NoHit(1) ELSE HitTestBlock(layout.boxes[layout.sync[nearest]], x, y)

SourceAt(layout, p, trailing) ==
    ResolveSource(ViewOf(layout, p.unit).segs, p.offset, trailing,
                  IF trailing THEN UnitLines(layout, p.unit)[2] ELSE UnitLines(layout, p.unit)[1])

\* The source of a selection: its ends, its lines, and whether only whole lines will do.
GetSourceSelection(layout, p, q) ==
    LET a == Earlier(p, q)
        b == Later(p, q)
        start == SourceAt(layout, a, FALSE)
        end == SourceAt(layout, b, TRUE)
    IN  [start |-> start, end |-> end, startLine |-> UnitLines(layout, a.unit)[1], endLine |-> UnitLines(layout, b.unit)[2],
         wholeLines |-> \/ a.unit # b.unit
                        \/ a.offset = 0 /\ b.offset >= Len(TextOf(layout, b.unit))
                        \/ ~start.exact \/ ~end.exact]

\* Whether a point is in one of the GetSelectionRects, which are clipped like the text.
InSelection(layout, p, q, x, y) ==
    LET a == Earlier(p, q)
        b == Later(p, q)
        part(u) == (IF u = a.unit THEN a.offset ELSE 0) + 1 .. IF u = b.unit THEN b.offset ELSE Len(TextOf(layout, u))
        at(view, place) == Rect(view.x + place.col * CharWidth, view.y + place.row * LineHeight,
                                view.x + (place.col + 1) * CharWidth, view.y + (place.row + 1) * LineHeight)
        covers(view, places, chars) ==
            /\ x >= view.area.left /\ x <= view.area.right
            /\ \E i \in chars : view.text[i] \notin {"lf", "ls"} /\ InArea(at(view, places[i]), x, y)
        here(view, chars) == covers(view, Places(view.text, view.width), chars)
    IN  \E u \in a.unit..b.unit : here(ViewOf(layout, u), part(u))

\* Cells of a row are separated by tabs, rows and items by line ends, blocks by a blank line.
GetSelectedText(layout, p, q) ==
    LET a == Earlier(p, q)
        b == Later(p, q)
        between(u) ==
            LET prev == layout.units[u - 1]
                unit == layout.units[u]
                sameTable == prev.box = unit.box /\ unit.row # 0
                items == layout.boxes[prev.box].type = "ListItem" /\ layout.boxes[unit.box].type = "ListItem"
            IN  IF sameTable /\ prev.row = unit.row THEN <<"tab">>
                ELSE IF sameTable \/ items THEN <<"crlf">> ELSE <<"crlf", "crlf">>
        part(u) == SubSeq(TextOf(layout, u), (IF u = a.unit THEN a.offset ELSE 0) + 1,
                          IF u = b.unit THEN b.offset ELSE Len(TextOf(layout, u)))
        plain(text) == [i \in DOMAIN text |-> IF text[i] \in {"lf", "ls"} THEN "crlf" ELSE text[i]]
    IN  FoldLeft(LAMBDA out, u : out \o (IF u > a.unit THEN between(u) ELSE <<>>) \o plain(part(u)), <<>>,
                 [k \in 1..b.unit - a.unit + 1 |-> a.unit + k - 1])

-----------------------------------------------------------------------------
(* Searching and anchors. *)

MatchesAt(text, i, needle, wholeWord) ==
    LET n == Len(needle) IN
    /\ i + n <= Len(text)
    /\ SubSeq(text, i + 1, i + n) = needle
    /\ wholeWord => /\ i = 0 \/ ClassOf(text[i]) # "Word" \/ ClassOf(text[i + 1]) # "Word"
                    /\ i + n = Len(text) \/ ClassOf(text[i + n + 1]) # "Word" \/ ClassOf(text[i + n]) # "Word"

\* The places where a match may begin in the unit a step away: after the start on the first
\* step, before it on the last one, when the search is back in the unit it began in.
WindowIn(count, u, size, from, n, forward, step) ==
    LET limit == size - n
        low == IF forward THEN IF step = 0 THEN from.offset ELSE 0
               ELSE IF step = count THEN from.offset - n + 1 ELSE 0
        high == IF forward THEN IF step = count THEN Min({from.offset - 1, limit}) ELSE limit
                ELSE IF step = 0 THEN Min({limit, from.offset - n}) ELSE limit
    IN  [unit |-> u, from |-> Max({0, low}), to |-> high]

\* The first or the last match in a window, or none.
MatchIn(text, needle, wholeWord, forward, window) ==
    LET n == Len(needle)
        at(i) == <<Pos(window.unit, i), Pos(window.unit, i + n)>>
        best(found) == IF found = {} THEN <<>> ELSE at(IF forward THEN Min(found) ELSE Max(found))
    IN  best({i \in window.from..window.to : MatchesAt(text, i, needle, wholeWord)})

\* The unit some steps on from another, all the way around.
UnitAround(count, unit, forward, step) ==
    (IF forward THEN (unit - 1 + step) % count ELSE (unit - 1 + count - (step % count)) % count) + 1

\* The first match from a position on, or the last one before it, all the way around; or none.
FindText(layout, needle, from, wholeWord, forward) ==
    LET count == Len(layout.units)
        match(step, u, text) ==
            MatchIn(text, needle, wholeWord, forward, WindowIn(count, u, Len(text), from, Len(needle), forward, step))
        there(step, u) == match(step, u, TextOf(layout, u))
        matchAt(step) == there(step, UnitAround(count, from.unit, forward, step))
        found == {step \in 0..count : matchAt(step) # <<>>}
    IN  IF needle = <<>> \/ layout.units = <<>> \/ found = {} THEN <<>> ELSE matchAt(Min(found))

\* An anchor by its slug, or by the title it was written from.
GetAnchorY(layout, url) ==
    LET name == IF url # <<>> /\ url[1] = "#" THEN Tail(url) ELSE url
    IN  IF name \in DOMAIN layout.anchors THEN layout.anchors[name]
        ELSE IF Slugify(name) \in DOMAIN layout.anchors THEN layout.anchors[Slugify(name)] ELSE NoSource
=============================================================================
