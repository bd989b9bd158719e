------------------------------ MODULE PdfFlow ------------------------------
(***************************************************************************)
(* What the blocks of a document ask of the page writer (PdfPages), in the *)
(* order RenderBlocks goes through them.  Lengths are hundredths of a      *)
(* point, and all letters of a size are equally wide.                      *)
(***************************************************************************)
EXTENDS PreviewLayout

LetterWidth(size) == (size * 556) \div 1000
CodeWidth == 528
BodySize == 1000
CellSize == 900
BodyLeading == 1450
CellLeading == 1200

-----------------------------------------------------------------------------
(* Texts: a piece is a word, one blank or a break. *)

EmojiBytes == {"F0", "9F", "FE0F"} \cup TrailBytes
Blank == <<" ">>
IsBreakPiece(piece) == piece \in {<<"lf">>, <<"ls">>}
IsWordPiece(piece) == piece # Blank /\ ~IsBreakPiece(piece)

\* Emoji are left out, and a blank after one that would follow a blank or nothing.
ToWinAnsi(bytes) ==
    FoldLeft(LAMBDA d, c :
                 IF c \in EmojiBytes THEN [d EXCEPT !.emoji = c \in {"80", "FE0F"}]
                 ELSE IF d.emoji /\ c = " " /\ (d.out = <<>> \/ Last(d.out) = " ") THEN [d EXCEPT !.emoji = FALSE]
                 ELSE [out |-> Append(d.out, c), emoji |-> FALSE],
             [out |-> <<>>, emoji |-> FALSE], bytes).out

AppendPieces(pieces, ansi) ==
    FoldLeft(LAMBDA ps, c :
                 IF c = " " /\ ps # <<>> /\ Last(ps) = Blank THEN ps
                 ELSE IF ps # <<>> /\ IsWordPiece(<<c>>) /\ IsWordPiece(Last(ps)) THEN [ps EXCEPT ![Len(ps)] = Append(@, c)]
                 ELSE Append(ps, <<c>>),
             pieces, ansi)

SpanPieces(spans, inImage, i) ==
    CASE spans[i].type \in {"Text", "Code"} -> ToWinAnsi(spans[i].text)
      [] spans[i].type = "LineBreak" -> <<"ls">>
      [] spans[i].type = "Image" ->
            LET alt == AltText(spans, inImage, i)
            IN  <<"[imagen:", " ">> \o ToWinAnsi(IF alt = <<>> THEN spans[i].url ELSE alt) \o <<"]">>
      [] OTHER -> <<>>

\* The text of an image stands for all that is in it.
PdfText(spans) ==
    LET inImage == ImagesOf(spans)
    IN  FlattenSeq([i \in DOMAIN spans |-> IF inImage[i] \in {0, i} THEN SpanPieces(spans, inImage, i) ELSE <<>>])

BuildPieces(spans) == AppendPieces(<<>>, PdfText(spans))

WithoutBlanks(line) == SubSeq(line, 1, Max({0} \cup {i \in DOMAIN line : line[i] # " "}))

\* Mutant: the letter that does not fit is dropped with the line it ends.
ChopLosing(placed, word, per) ==
    FoldLeft(LAMBDA ls, c : IF Len(Last(ls)) + 1 > per /\ Last(ls) # <<>> THEN Append(ls, <<>>)
                            ELSE [ls EXCEPT ![Len(ls)] = Append(@, c)], placed, word)

\* A word wider than a line is broken between letters.
Chop(placed, word, per) ==
    FoldLeft(LAMBDA ls, c : IF Len(Last(ls)) + 1 > per /\ Last(ls) # <<>> THEN Append(ls, <<c>>)
                            ELSE [ls EXCEPT ![Len(ls)] = Append(@, c)], placed, word)

PlaceWord(placed, word, per) ==
    LET onto(ls) == IF Len(word) > per THEN Chop(ls, word, per) ELSE [ls EXCEPT ![Len(ls)] = @ \o word]
    IN  IF Last(placed) = <<>> \/ Len(Last(placed)) + Len(word) <= per THEN onto(placed) ELSE onto(Append(placed, <<>>))

\* Greedy lines; blanks at their ends go.
WrapPieces(pieces, width, letter) ==
    LET per == Max({1, Max({1200, width}) \div letter})
        place(placed, piece) ==
            IF IsBreakPiece(piece) THEN Append(placed, <<>>)
            ELSE IF piece # Blank THEN PlaceWord(placed, piece, per)
            ELSE IF Last(placed) = <<>> THEN placed ELSE [placed EXCEPT ![Len(placed)] = Append(@, " ")]
        wrapped == FoldLeft(place, <<<<>>>>, pieces)
    IN  [i \in DOMAIN wrapped |-> WithoutBlanks(wrapped[i])]

Wrapped(spans, width, size) == WrapPieces(BuildPieces(spans), width, LetterWidth(size))

-----------------------------------------------------------------------------
(* What is asked for. *)

Asking(op, h) == [op |-> op, h |-> h, text |-> <<>>, header |-> FALSE, row |-> 0]
GapOf(first, h) == IF first THEN <<>> ELSE <<Asking("gap", h)>>
LinesOf(wrapped, leading, header) ==
    [i \in DOMAIN wrapped |-> [Asking("line", leading) EXCEPT !.text = wrapped[i], !.header = header]]

\* The column of the blocks inside one, and how deep in lists they are.
PdfMarkerWidth(list, count) ==
    IF ~list.ordered THEN 1600
    ELSE Max({1600, LetterWidth(BodySize) * ((IF list.number + count - 1 > 9 THEN 2 ELSE 1) + 1) + 600})

Columns(tree, width) ==
    LET inside[i \in DOMAIN tree] ==
            CASE tree[i].parent = 0 -> [width |-> width, depth |-> 0]
              [] tree[i].type = "Blockquote" -> [inside[tree[i].parent] EXCEPT !.width = @ - 1400]
              [] tree[i].type = "ListItem" ->
                    LET list == tree[i].parent
                    IN  [width |-> inside[list].width - PdfMarkerWidth(tree[list], Len(Children(tree, list))),
                         depth |-> inside[list].depth + 1]
              [] OTHER -> inside[tree[i].parent]
    IN  inside

HeadingSizes == <<2000, 1600, 1350, 1200, 1050, 950>>
HeadingLeadings == <<2600, 2080, 1755, 1560, 1365, 1235>>
KeptBelow == 4000

RenderHeading(block, width, first) ==
    LET wrapped == Wrapped(block.spans, width, HeadingSizes[block.level])
        leading == HeadingLeadings[block.level]
    IN  GapOf(first, IF block.level <= 2 THEN 1400 ELSE 1000)
        \o <<Asking("keep", Len(wrapped) * leading + KeptBelow)>>
        \o LinesOf(wrapped, leading, TRUE)
        \o (IF block.level <= 2 THEN <<Asking("room", 600)>> ELSE <<>>)

RenderParagraph(block, width, first) ==
    IF block.spans = <<>> THEN <<>>
    ELSE GapOf(first, 800) \o LinesOf(Wrapped(block.spans, width, BodySize), BodyLeading, FALSE)

\* The marker, then the text of the item, which may be that of its first paragraph.
RenderItem(tree, i, width, first) ==
    GapOf(first, 300) \o <<Asking("marker", BodyLeading)>>
    \o LinesOf(Wrapped(TextBlock(tree, i).spans, width, BodySize), BodyLeading, FALSE)

CodeOf(block) == WithoutLastBreaks(FlattenSeq([i \in DOMAIN block.spans |-> block.spans[i].text]))

\* An empty code has one line.
CodeLines(text, per) ==
    FoldLeft(LAMBDA ls, c : IF c = "lf" THEN Append(ls, <<>>) ELSE Chop(ls, <<c>>, per), <<<<>>>>, text)

\* A diagram is shrunk to the column and to the page.
RenderDiagram(width, room, first) ==
    GapOf(first, 800) \o <<Asking("diagram", Min({72 * Scene.height, (Scene.height * width) \div Scene.width, room}))>>

RenderCode(block, width, room, first) ==
    LET wrapped == CodeLines(ToWinAnsi(CodeOf(block)), Max({8, (width - 1400) \div CodeWidth}))
    IN  IF Draws(block) THEN RenderDiagram(width, room, first)
        ELSE GapOf(first, 800) \o <<[Asking("code", Len(wrapped)) EXCEPT !.text = FlattenSeq(wrapped)]>>

RenderRule(first) == GapOf(first, 800) \o <<Asking("rule", 400)>>

-----------------------------------------------------------------------------
(* Tables. *)

WordLength(pieces) == Max({0} \cup {Len(pieces[i]) : i \in {i \in DOMAIN pieces : IsWordPiece(pieces[i])}})
NaturalLength(pieces) ==
    FoldLeft(LAMBDA d, p : IF IsBreakPiece(p) THEN [d EXCEPT !.now = 0] ELSE [now |-> d.now + Len(p), most |-> Max({d.most, d.now + Len(p)})],
             [now |-> 0, most |-> 0], pieces).most

\* As the preview shares the width, but when not even the words fit every column shrinks alike.
PdfWidths(mins, maxs, available) ==
    LET least == FoldLeft(+, 0, mins)
        most == FoldLeft(+, 0, maxs)
    IN  [c \in DOMAIN mins |->
            IF most <= available THEN maxs[c]
            ELSE IF least <= available THEN mins[c] + ((maxs[c] - mins[c]) * (available - least)) \div (most - least)
            ELSE (available * mins[c]) \div least]

RowsAsked(tree, rows, cells, widths) ==
    LET lines(r, c) == WrapPieces(cells[r][c], widths[c], LetterWidth(CellSize))
        height(r) == CellLeading * Max({1} \cup {Len(lines(r, c)) : c \in DOMAIN cells[r]}) + 800
        texts(r) == FlattenSeq([c \in DOMAIN cells[r] |-> FlattenSeq(lines(r, c))])
    IN  [r \in DOMAIN rows |-> [op |-> "row", h |-> height(r), text |-> texts(r), row |-> r,
                                header |-> tree[tree[rows[r]].parent].type = "TableHead"]]

RenderTable(tree, i, width, first) ==
    LET rows == TableRowsOf(tree, i)
        cells == [r \in DOMAIN rows |-> LET row == Children(tree, rows[r]) IN [c \in DOMAIN row |-> BuildPieces(tree[row[c]].spans)]]
        count == Max({0} \cup {Len(cells[r]) : r \in DOMAIN rows})
        column(c) == {cells[r][c] : r \in {r \in DOMAIN rows : c \in DOMAIN cells[r]}}
        letter == LetterWidth(CellSize)
        mins == [c \in 1..count |-> Max({1200} \cup {Min({9000, WordLength(p) * letter + 100}) : p \in column(c)})]
        maxs == [c \in 1..count |-> Max({mins[c]} \cup {NaturalLength(p) * letter + 100 : p \in column(c)})]
    IN  IF count = 0 THEN <<>>
        ELSE GapOf(first, 800) \o RowsAsked(tree, rows, cells, PdfWidths(mins, maxs, width - count * 1000))

-----------------------------------------------------------------------------
(* The document. *)

\* The first paragraph of an item is drawn with the item, a row with its table.
IsRendered(tree, i) ==
    LET p == tree[i].parent
    IN  /\ p # 0
        /\ CASE tree[p].type = "ListItem" -> i \in Range(RestOf(tree, p))
             [] tree[p].type = "List" -> tree[i].type = "ListItem"
             [] OTHER -> tree[p].type \in {"Document", "Blockquote"}

IsFirst(tree, i) == tree[tree[i].parent].type # "ListItem" /\ Children(tree, tree[i].parent)[1] = i

RenderBlock(tree, i, column, room, first) ==
    LET block == tree[i] IN
    CASE block.type = "Heading" -> RenderHeading(block, column.width, first)
      [] block.type = "Paragraph" -> RenderParagraph(block, column.width, first)
      [] block.type = "Blockquote" -> GapOf(first, 800)
      [] block.type = "List" -> GapOf(first, IF column.depth > 0 THEN 300 ELSE 800)
      [] block.type = "ListItem" -> RenderItem(tree, i, column.width - PdfMarkerWidth(tree[block.parent], Len(Children(tree, block.parent))), first)
      [] block.type = "CodeBlock" -> RenderCode(block, column.width, room, first)
      [] block.type = "ThematicBreak" -> RenderRule(first)
      [] block.type = "Table" -> RenderTable(tree, i, column.width, first)
      [] OTHER -> <<>>

\* RenderBlocks: the blocks of a document come in the order of the tree.
RenderBlocks(tree, width, room) ==
    LET columns == Columns(tree, width)
    IN  FlattenSeq([i \in DOMAIN tree |->
            IF IsRendered(tree, i) THEN RenderBlock(tree, i, columns[tree[i].parent], room, IsFirst(tree, i)) ELSE <<>>])

\* What a block says, however it is drawn; a diagram is a picture.
TextOfBlock(block) ==
    IF block.type # "CodeBlock" THEN PdfText(block.spans)
    ELSE IF Draws(block) THEN <<>> ELSE ToWinAnsi(CodeOf(block))
=============================================================================
