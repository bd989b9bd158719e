---------------------------- MODULE PreviewLayout ----------------------------
(***************************************************************************)
(* The preview's LayoutEngine: the blocks of a tree one below the other in *)
(* a reading column, the texts a reader can select (one unit per text      *)
(* layout), and what is under a point.  Lengths are whole DIPs; a text     *)
(* breaks after the letters that fit its width, all of them equally wide.  *)
(***************************************************************************)
EXTENDS Markdown

PaddingTop == 24
PaddingBottom == 48
BlockGap == 14
ListItemGap == 5
NestedListGap == 4
QuoteIndent == 18
CodePaddingX == 14
CodePaddingY == 12
CellPaddingX == 10
CellPaddingY == 6
CellMinContent == 16
CellMaxMin == 140
MinTextWidth == 40
MarkerMin == 26
Slop == 3
CharWidth == 8
LineHeight == 20
LabelHeight == 16

-----------------------------------------------------------------------------
(* Texts: UTF-16 units, and which of them are copies of the source. *)

TrailBytes == {"A9", "89", "98", "80"}
Utf16(bytes) == SelectSeq(bytes, LAMBDA c : c \notin TrailBytes)

\* A segment says that len units from position at are the source from byte src on.
CopyTo(span, d, to) ==
    [d EXCEPT !.rich.text = @ \o Utf16(SubSeq(span.text, d.pos + 1, to)), !.pos = to]

\* The copy of a run begins where the text is and ends where it is after it.
CopyRun(span, d, run) ==
    LET ended(before, after) ==
            [after EXCEPT !.rich.segs = Append(@, [at |-> Len(before.rich.text), src |-> run.src,
                                                   len |-> Len(after.rich.text) - Len(before.rich.text)])]
        begun(before) == ended(before, CopyTo(span, before, run.at + run.len))
    IN  IF run.at < d.pos \/ run.at + run.len > Len(span.text) THEN d ELSE begun(CopyTo(span, d, run.at))

AppendSpanText(rich, span) ==
    CopyTo(span, FoldLeft(LAMBDA d, run : CopyRun(span, d, run), [rich |-> rich, pos |-> 0], span.runs), Len(span.text)).rich

\* The address of the link or image a span is in, and the outermost image around it.
UrlsOf(spans) ==
    FoldLeft(LAMBDA urls, s :
        Append(urls, IF s.type \in {"Link", "Image"} THEN s.url ELSE IF s.parent = 0 THEN NoUrl ELSE urls[s.parent]),
        <<>>, spans)

ImagesOf(spans) ==
    FoldLeft(LAMBDA images, s :
        Append(images, IF s.parent # 0 /\ images[s.parent] # 0 THEN images[s.parent]
                       ELSE IF s.type = "Image" THEN Len(images) + 1 ELSE 0),
        <<>>, spans)

ImageLabel == <<"F0", "9F", "FE0F", " ">>

Label(url, alt) == ImageLabel \o (IF alt = <<>> THEN url ELSE alt)
AltText(spans, inImage, i) ==
    Utf16(ExtractPlainText(SelectSeq([k \in DOMAIN spans |-> IF inImage[k] = i /\ k # i THEN spans[k] ELSE NewSpan("None", 0, NoUrl)],
                                     LAMBDA s : s.type # "None")))

AppendSpan(rich, spans, inImage, i) ==
    CASE spans[i].type \in {"Text", "Code"} -> AppendSpanText(rich, spans[i])
      [] spans[i].type = "LineBreak" -> [rich EXCEPT !.text = Append(@, "ls")]
      [] spans[i].type = "Image" -> [rich EXCEPT !.text = @ \o Label(spans[i].url, AltText(spans, inImage, i))]
      [] OTHER -> rich

\* A range of a link is as long as the text it adds.
WithLink(before, after, url) ==
    IF url = NoUrl \/ Len(after.text) = Len(before.text) THEN after
    ELSE [after EXCEPT !.links = Append(@, [at |-> Len(before.text), len |-> Len(after.text) - Len(before.text), url |-> url])]

FlattenWithin(spans, urls, inImage) ==
    FoldLeft(LAMBDA rich, i :
                 IF inImage[i] \notin {0, i} THEN rich
                 ELSE WithLink(rich, AppendSpan(rich, spans, inImage, i), IF spans[i].type = "LineBreak" THEN NoUrl ELSE urls[i]),
             [text |-> <<>>, segs |-> <<>>, links |-> <<>>], [i \in DOMAIN spans |-> i])

\* The alt text of an image, with whatever is in it, is its label.
FlattenSpans(spans) == FlattenWithin(spans, UrlsOf(spans), ImagesOf(spans))

\* Where DirectWrite puts each unit of a text, and the place after the last one.
Places(text, width) ==
    LET per == Max({1, Max({MinTextWidth, width}) \div CharWidth})
        step(at, c) == IF c \in {"lf", "ls"} THEN [row |-> at.row + 1, col |-> 0]
                       ELSE [row |-> at.row, col |-> at.col + 1]
        wrap(at) == IF at.col >= per THEN [row |-> at.row + 1, col |-> 0] ELSE at
    IN  FoldLeft(LAMBDA places, c : Append(places, wrap(step(Last(places), c))), <<[row |-> 0, col |-> 0]>>, text)

TextRows(text, width) == 1 + Last(Places(text, width)).row
TextHeight(text, width) == LineHeight * TextRows(text, width)
TextWidth(text) == CharWidth * Len(text)
WordWidth(text) ==
    CharWidth * Max({0} \cup {r[2] - r[1] + 1 : r \in
        {p \in (DOMAIN text) \X (DOMAIN text) : p[1] <= p[2] /\ \A i \in p[1]..p[2] : text[i] \notin {" ", "ls"}}})

-----------------------------------------------------------------------------
(* Blocks.  A context is the column a block is laid out in; st is the layout so far. *)

Rect(left, top, right, bottom) == [left |-> left, top |-> top, right |-> right, bottom |-> bottom]
NoRich == [text |-> <<>>, segs |-> <<>>, links |-> <<>>]

Box(block, area) ==
    [type |-> block.type, start |-> block.start, end |-> block.end, area |-> area, bar |-> FALSE, hasText |-> FALSE,
     rich |-> NoRich, x |-> area.left, y |-> area.top, width |-> 0, task |-> NoSource, checked |-> FALSE, mark |-> area,
     rows |-> <<>>, headerRows |-> 0, diagram |-> FALSE, cols |-> <<>>]

TextBox(block, rich, area, x, y, width) ==
    [Box(block, area) EXCEPT !.rich = rich, !.x = x, !.y = y, !.width = width, !.hasText = TRUE]

Add(st, box, y) == [st EXCEPT !.boxes = Append(@, box), !.y = y]

AddGap(st, top, gap) == IF st.y > top THEN [st EXCEPT !.y = @ + gap] ELSE st

\* A text across the column, with some room under it.
LayoutText(block, rich, room, ctx, st) ==
    LET area(bottom) == Rect(ctx.x, st.y, ctx.x + ctx.width, bottom)
        placed(bottom) == Add(st, TextBox(block, rich, area(bottom), ctx.x, st.y, ctx.width), bottom)
    IN  placed(st.y + TextHeight(rich.text, ctx.width) + room)

\* A second heading of the same slug is "slug-1", a third one "slug-2".
WithAnchor(st, slug) ==
    LET seen == IF slug \in DOMAIN st.slugs THEN st.slugs[slug] ELSE 0
        name == IF seen = 0 THEN slug ELSE slug \o <<"-", ToString(seen)>>
    IN  IF slug = <<>> THEN st
        ELSE [st EXCEPT !.slugs = (slug :> seen + 1) @@ @, !.anchors = @ @@ (name :> st.y)]

LayoutHeading(block, ctx, st) ==
    LayoutText(block, FlattenSpans(block.spans), IF block.level <= 2 THEN 10 ELSE 0, ctx,
               WithAnchor(st, Slugify(ExtractPlainText(block.spans))))

LayoutParagraph(block, ctx, st) == LayoutText(block, FlattenSpans(block.spans), 0, ctx, st)

\* Mermaid code becomes a diagram, shrunk to the column, unless it is wrong.
Scene == [width |-> 200, height |-> 100]
Draws(block) == block.info = "mermaid" /\ \A i \in DOMAIN block.spans : block.spans[i].text # <<"bad">>

LayoutDiagram(block, ctx, st) ==
    LET bottom == st.y + (IF Scene.width <= ctx.width THEN Scene.height
                          ELSE (Scene.height * ctx.width + Scene.width - 1) \div Scene.width)
    IN  Add(st, [Box(block, Rect(ctx.x, st.y, ctx.x + ctx.width, bottom)) EXCEPT !.diagram = TRUE], bottom)

WithoutLastBreaks(text) == SubSeq(text, 1, Max({0} \cup {i \in DOMAIN text : text[i] # "lf"}))

LayoutCode(block, rich, textTop, ctx, st) ==
    LET width == Max({MinTextWidth, ctx.width - 2 * CodePaddingX})
        placed(bottom) == Add(st, TextBox(block, rich, Rect(ctx.x, st.y, ctx.x + ctx.width, bottom),
                                          ctx.x + CodePaddingX, textTop, width), bottom)
    IN  placed(textTop + TextHeight(rich.text, width) + CodePaddingY)

LayoutCodeBlock(block, ctx, st) ==
    LET rich == [FoldLeft(AppendSpanText, NoRich, block.spans) EXCEPT !.text = WithoutLastBreaks(@)]
    IN  IF Draws(block) THEN LayoutDiagram(block, ctx, st)
        ELSE LayoutCode(block, rich, st.y + (IF block.info = "" THEN CodePaddingY ELSE 7 + LabelHeight + 4), ctx, st)

LayoutThematicBreak(block, ctx, st) ==
    Add(st, Box(block, Rect(ctx.x, st.y, ctx.x + ctx.width, st.y + 2)), st.y + 8)

-----------------------------------------------------------------------------
(* Tables: the widths of the columns, then the rows. *)

TableRowsOf(tree, i) ==
    FlattenSeq([k \in DOMAIN Children(tree, i) |->
        LET c == Children(tree, i)[k] IN
        IF tree[c].type = "TableRow" THEN <<c>> ELSE Children(tree, c)])

IsHeaderRow(tree, row) ==
    tree[tree[row].parent].type = "TableHead" \/ \E c \in Range(Children(tree, row)) : tree[c].header

\* The width no cramped column may pass: short words keep theirs, long ones share what is left.
CramCap(mins, available) ==
    LET sorted == SortSeq(mins, <)
        left(i) == available - FoldLeft(+, 0, SubSeq(sorted, 1, i - 1))
        share(i) == left(i) \div (Len(sorted) - i + 1)
        over == {i \in DOMAIN sorted : sorted[i] > share(i)}
    IN  IF over = {} THEN available ELSE Max({CellMinContent, share(Min(over))})

Available(n, padX, width) == Max({n * CellMinContent, width - 2 * n * padX - (n + 1)})

ColumnWidths(mins, maxs, available) ==
    LET sumMin == FoldLeft(+, 0, mins)
        sumMax == FoldLeft(+, 0, maxs)
    IN  [c \in DOMAIN mins |->
            IF sumMax <= available THEN maxs[c]
            ELSE IF sumMin <= available
            THEN mins[c] + ((maxs[c] - mins[c]) * (available - sumMin)) \div (sumMax - sumMin)
            ELSE Min({mins[c], CramCap(mins, available)})]

\* A short row has no cells at its end.
CellTexts(tree, rows) ==
    LET texts(cells) == FlattenSeq([k \in DOMAIN cells |-> <<FlattenSpans(tree[cells[k]].spans)>>])
    IN  FlattenSeq([r \in DOMAIN rows |-> <<texts(Children(tree, rows[r]))>>])

ColumnOf(texts) ==
    LET least == Max({CellMinContent} \cup {Min({CellMaxMin, WordWidth(t) + 1}) : t \in texts})
    IN  [min |-> least, max |-> Max({least} \cup {TextWidth(t) + 1 : t \in texts})]

ColumnsOf(rich) ==
    [c \in 1..Max({0} \cup {Len(rich[r]) : r \in DOMAIN rich}) |->
        ColumnOf({rich[r][c].text : r \in {r \in DOMAIN rich : c \in DOMAIN rich[r]}})]

\* Columns that do not fit get less padding before their words are broken.
PaddingOf(columns, width) ==
    IF FoldLeft(LAMBDA sum, c : sum + c.min, 0, columns) > Available(Len(columns), CellPaddingX, width)
    THEN CellPaddingX \div 2 ELSE CellPaddingX

RowHeight(cells, widths) ==
    Max({LineHeight} \cup {TextHeight(cells[c].text, widths[c]) : c \in DOMAIN cells}) + 2 * CellPaddingY

\* Where things of these sizes begin one after the other, and where the last one ends.
Edges(first, sizes) == FoldLeft(LAMBDA edges, size : Append(edges, Last(edges) + size), <<first>>, sizes)

PlaceCells(block, rich, headers, widths, padX, lefts, tops, ctx, st) ==
    LET n == Len(widths)
        cell(r, c) == [rich |-> IF c \in DOMAIN rich[r] THEN rich[r][c] ELSE NoRich, hasText |-> c \in DOMAIN rich[r],
                       area |-> Rect(lefts[c], tops[r], lefts[c + 1], tops[r + 1]),
                       x |-> lefts[c] + 1 + padX, y |-> tops[r] + CellPaddingY, width |-> widths[c]]
    IN  Add(st, [Box(block, Rect(ctx.x, st.y, lefts[n + 1] + 1, Last(tops))) EXCEPT
                    !.rows = [r \in DOMAIN rich |-> [c \in 1..n |-> cell(r, c)]], !.headerRows = headers], Last(tops))

PlaceTable(block, rich, headers, widths, padX, ctx, st) ==
    PlaceCells(block, rich, headers, widths, padX,
               Edges(ctx.x, [c \in DOMAIN widths |-> widths[c] + 2 * padX + 1]),
               Edges(st.y, [r \in DOMAIN rich |-> RowHeight(rich[r], widths)]), ctx, st)

\* The widths the columns get, beside what they ask for.
FitTable(block, rich, headers, columns, padX, ctx, st) ==
    LET all == Available(Len(columns), padX, ctx.width)
        widths == ColumnWidths([c \in DOMAIN columns |-> columns[c].min], [c \in DOMAIN columns |-> columns[c].max], all)
        fitted(ws, placed) ==
            [placed EXCEPT !.boxes[Len(placed.boxes)].cols =
                [c \in DOMAIN columns |-> [width |-> ws[c], min |-> columns[c].min, max |-> columns[c].max, all |-> all]]]
        fit(ws) == fitted(ws, PlaceTable(block, rich, headers, ws, padX, ctx, st))
    IN  fit(widths)

LayoutTable(tree, i, ctx, st) ==
    LET rows == TableRowsOf(tree, i)
        headers == Cardinality({r \in DOMAIN rows : IsHeaderRow(tree, rows[r])})
        measured(rich, columns) ==
            IF columns = <<>> THEN st
            ELSE FitTable(tree[i], rich, headers, columns, PaddingOf(columns, ctx.width), ctx, st)
        read(rich) == measured(rich, ColumnsOf(rich))
    IN  read(CellTexts(tree, rows))

-----------------------------------------------------------------------------
(* Containers. *)

\* The text of an item is its own, or that of a paragraph it begins with.
IsLoose(tree, i) ==
    tree[i].spans = <<>> /\ Children(tree, i) # <<>> /\ tree[Children(tree, i)[1]].type = "Paragraph"
TextBlock(tree, i) == IF IsLoose(tree, i) THEN tree[Children(tree, i)[1]] ELSE tree[i]
RestOf(tree, i) == IF IsLoose(tree, i) THEN Tail(Children(tree, i)) ELSE Children(tree, i)

\* The column of the marks is as wide as the last number needs.
MarkerWidth(list, count) ==
    IF ~list.ordered THEN MarkerMin
    ELSE Max({MarkerMin, CharWidth * ((IF Max({list.number + count - 1, list.number}) > 9 THEN 2 ELSE 1) + 1) + 10})

PlaceItem(block, rich, last, ctx, st) ==
    LET x == ctx.x + ctx.marker
        width == Max({MinTextWidth, ctx.width - ctx.marker})
        placed(bottom) ==
            Add(st, [TextBox(block, rich, Rect(ctx.x, st.y, ctx.x + ctx.width, bottom), x, st.y, width)
                        EXCEPT !.end = Max({block.start, last}), !.task = block.task, !.checked = block.checked,
                               !.mark = Rect(ctx.x + 2, st.y + 3, ctx.x + 16, st.y + 17)], bottom)
    IN  placed(st.y + TextHeight(rich.text, width))

\* Mutant: an item has the lines of all it contains.
WholeItem(tree, i, ctx, st) ==
    LET placed(text) == PlaceItem(tree[i], FlattenSpans(text.spans), text.end, ctx, st)
    IN  placed(TextBlock(tree, i))

\* The lines of an item end where the next block inside it begins.
LayoutListItem(tree, i, ctx, st) ==
    LET last(text, rest) == IF rest = <<>> THEN text.end ELSE Min({text.end, Max({tree[i].start, tree[rest[1]].start - 1})})
        placed(text) == PlaceItem(tree[i], FlattenSpans(text.spans), last(text, RestOf(tree, i)), ctx, st)
    IN  placed(TextBlock(tree, i))

\* What a container lays out inside itself, and in which column.
InsideOf(tree, i) ==
    CASE tree[i].type = "Blockquote" -> Children(tree, i)
      [] tree[i].type = "List" -> SelectSeq(Children(tree, i), LAMBDA c : tree[c].type = "ListItem")
      [] tree[i].type = "ListItem" -> RestOf(tree, i)
      [] OTHER -> <<>>

InnerOf(tree, i, ctx) ==
    CASE tree[i].type = "Blockquote" -> [ctx EXCEPT !.x = @ + QuoteIndent, !.width = Max({MinTextWidth, @ - QuoteIndent})]
      [] tree[i].type = "List" -> [ctx EXCEPT !.marker = MarkerWidth(tree[i], Len(Children(tree, i)))]
      [] OTHER -> [ctx EXCEPT !.x = @ + ctx.marker, !.width = Max({MinTextWidth, @ - ctx.marker}), !.depth = @ + 1]

LayoutOwn(tree, i, ctx, st) ==
    LET block == tree[i] IN
    CASE block.type = "Heading" -> LayoutHeading(block, ctx, st)
      [] block.type = "Paragraph" -> IF block.spans = <<>> THEN st ELSE LayoutParagraph(block, ctx, st)
      [] block.type = "ListItem" -> LayoutListItem(tree, i, ctx, st)
      [] block.type = "CodeBlock" -> LayoutCodeBlock(block, ctx, st)
      [] block.type = "ThematicBreak" -> LayoutThematicBreak(block, ctx, st)
      [] block.type = "Table" -> LayoutTable(tree, i, ctx, st)
      [] OTHER -> st

\* The bar of a quote is added after what is inside it; an empty quote keeps a bar.
LayoutBlockquote(block, ctx, top, st) ==
    LET barred(bottom) == Add(st, [Box(block, Rect(ctx.x + 1, top, ctx.x + 4, bottom)) EXCEPT !.bar = TRUE], bottom)
    IN  IF block.type # "Blockquote" THEN st ELSE barred(IF st.y <= top THEN top + LineHeight ELSE st.y)

GapBefore(block, ctx) ==
    CASE block.type = "Heading" -> BlockGap + (IF block.level <= 2 THEN 12 ELSE 6)
      [] block.type = "List" /\ ctx.depth > 0 -> NestedListGap
      [] block.type = "ListItem" -> ListItemGap
      [] block.type = "ThematicBreak" -> BlockGap + 6
      [] block.type = "Paragraph" /\ block.spans = <<>> -> 0
      [] OTHER -> BlockGap

\* A block that is open: its place in the tree, its column and the one inside it, where it begins,
\* and what is laid out inside it.
Opened(i, ctx, inner, top, inside) == [block |-> i, ctx |-> ctx, inner |-> inner, top |-> top, inside |-> Range(inside)]

\* LayoutNode of a block inside the one opened last, up to what is inside it.
EnterNode(tree, i, st) ==
    LET around == Last(st.open)
        ctx == around.inner
        open(s) == [LayoutOwn(tree, i, ctx, s) EXCEPT
                       !.open = Append(@, Opened(i, ctx, InnerOf(tree, i, ctx), s.y, InsideOf(tree, i)))]
    IN  open(AddGap(st, around.top, GapBefore(tree[i], ctx)))

\* What is left of it after that.
LeaveNode(tree, st) ==
    LET last == Last(st.open)
    IN  [LayoutBlockquote(tree[last.block], last.ctx, last.top, st) EXCEPT !.open = Front(@)]

\* The innermost n blocks that are open are done.
Left(tree, st, n) ==
    LET left[k \in 0..n] == IF k = 0 THEN st ELSE LeaveNode(tree, left[k - 1])
    IN  left[n]

\* The blocks are in document order: when one comes, those that do not hold it are done.
LayoutNode(tree, st, i) ==
    LET holders == {n \in DOMAIN st.open : i \in st.open[n].inside}
    IN  IF holders = {} THEN st ELSE EnterNode(tree, i, Left(tree, st, Len(st.open) - Max(holders)))

\* Selectable texts in document order, the cells of a table row by row.
BuildTextUnits(boxes) ==
    FlattenSeq([b \in DOMAIN boxes |->
        IF boxes[b].bar \/ boxes[b].diagram THEN <<>>
        ELSE IF boxes[b].type = "Table"
        THEN FlattenSeq([r \in DOMAIN boxes[b].rows |->
                 SelectSeq([c \in DOMAIN boxes[b].rows[r] |-> [box |-> b, row |-> r, col |-> c]],
                           LAMBDA u : boxes[b].rows[r][u.col].hasText)])
        ELSE IF boxes[b].hasText THEN <<[box |-> b, row |-> 0, col |-> 0]>> ELSE <<>>])

\* The blocks that have lines are those that scroll with the editor.
Finished(st, ctx, contentWidth) ==
    LET synced(i) == ~st.boxes[i].bar /\ st.boxes[i].start > 0 /\ st.boxes[i].end >= st.boxes[i].start
    IN  [boxes |-> st.boxes, anchors |-> st.anchors, total |-> st.y + PaddingBottom, column |-> ctx, width |-> contentWidth,
         sync |-> SelectSeq([i \in DOMAIN st.boxes |-> i], synced), units |-> BuildTextUnits(st.boxes)]

\* A centred column.
ComputeLayout(tree, contentWidth) ==
    LET padding == IF contentWidth < 520 THEN 16 ELSE 32
        column == Max({120, Min({900, contentWidth - 2 * padding})})
        ctx == [x |-> Max({padding, (contentWidth - column) \div 2}), width |-> column, depth |-> 0, marker |-> 0]
        start == [y |-> PaddingTop, boxes |-> <<>>, slugs |-> <<>>, anchors |-> <<>>,
                  open |-> <<Opened(1, ctx, ctx, PaddingTop, Children(tree, 1))>>]
        visited[i \in 0..Len(tree)] == IF i = 0 THEN start ELSE LayoutNode(tree, visited[i - 1], i)
        allLeft(st) == Left(tree, st, Len(st.open))
    IN  Finished(allLeft(visited[Len(tree)]), ctx, contentWidth)
=============================================================================
