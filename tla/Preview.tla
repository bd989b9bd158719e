------------------------------ MODULE Preview ------------------------------
(***************************************************************************)
(* The preview and the outline beside the editor.  The user types, points, *)
(* selects, searches and navigates while trees of older texts arrive; the  *)
(* preview turns points into positions of the text its tree was parsed     *)
(* from, which is the editor's text only while no edit waits for its tree. *)
(***************************************************************************)
EXTENDS PreviewText, Outline, SyncPositions, PdfPages

CONSTANTS
    Docs,            \* the documents, as md4c reads them
    Played,          \* those of them that are edited and used: a bound
    Widths,          \* of the preview, in DIPs
    ViewHeight,
    Needle,          \* what is searched for
    MaxSteps         \* a bound

ASSUME PreviewAssumption ==
    Docs # {} /\ Played \subseteq Docs /\ Widths # {} /\ Widths \subseteq Nat /\ ViewHeight \in Nat /\ MaxSteps \in Nat /\ MaxItems \in Nat

\* The tree of each document, the same whenever it is parsed; all are built at once.
Trees == FoldSet(LAMBDA d, trees : (d :> Parse(d)) @@ trees, <<>>, Docs)

-----------------------------------------------------------------------------
(* What the window takes from the layout of one tree. *)

TasksOf(d) == {Trees[d][i].task : i \in DOMAIN Trees[d]} \ {NoSource}
Flipped(tree, flips) == [i \in DOMAIN tree |-> [tree[i] EXCEPT !.checked = @ # (tree[i].task \in flips)]]

IsText(s) == s \in Seq(Range(s))
IsArea(area) == {area.left, area.top, area.right, area.bottom} \subseteq Int

\* The two halves of a letter are side by side.
WholeLetters(text) ==
    \A i \in DOMAIN text :
        /\ text[i] = "F0" => i + 1 \in DOMAIN text /\ text[i + 1] = "9F"
        /\ text[i] = "9F" => i - 1 \in DOMAIN text /\ text[i - 1] = "F0"

\* A place for each unit of a text and one after the last.
ArePlaces(places, text) ==
    Len(places) = Len(text) + 1 /\ \A i \in 1..Len(text) + 1 : places[i].row \in Nat /\ places[i].col \in Nat

\* A text of a layout that can be drawn, pointed at and searched.
IsView(view) ==
    /\ IsText(view.text) /\ WholeLetters(view.text) /\ IsText(view.links)
    /\ view.x \in Int /\ view.y \in Int /\ IsArea(view.area)
    /\ ArePlaces(Places(view.text, view.width), view.text)

LayoutParts == {"boxes", "anchors", "total", "sync", "units"}
BoxParts == {"rich", "x", "y", "width", "area", "rows", "mark", "task", "checked", "start", "end"}

\* The blocks that scroll with the editor have some height, and lines.
IsSynced(box) == IsArea(box.area) /\ box.area.top < box.area.bottom /\ box.start \in Nat /\ box.end \in Nat /\ box.start <= box.end

IsLayout(lay) ==
    /\ LayoutParts \subseteq DOMAIN lay /\ lay.total \in Int /\ Range(lay.anchors) \subseteq Int
    /\ IsText(lay.boxes) /\ \A b \in DOMAIN lay.boxes : BoxParts \subseteq DOMAIN lay.boxes[b] /\ IsArea(lay.boxes[b].mark)
    /\ IsText(lay.units) /\ \A u \in DOMAIN lay.units : lay.units[u].box \in DOMAIN lay.boxes /\ IsView(ViewOf(lay, u))
    /\ IsText(lay.sync) /\ \A i \in DOMAIN lay.sync : lay.sync[i] \in DOMAIN lay.boxes /\ IsSynced(lay.boxes[lay.sync[i]])

\* The same texts in the same order.
SameTexts(lay, other) ==
    DOMAIN lay.units = DOMAIN other.units /\ \A u \in DOMAIN lay.units : TextOf(lay, u) = TextOf(other, u)

\* What md4c calls back for makes a list of blocks, each from some line on.
ASSUME TreesAssumption ==
    \A d \in Docs : IsText(Trees[d]) /\ \A i \in DOMAIN Trees[d] : "start" \in DOMAIN Trees[d][i] /\ Trees[d][i].start \in Nat

\* Whatever the width, a tree is laid out, its texts are the same, and its tasks are those of the document.
ASSUME LayoutsAssumption ==
    \A d \in Docs : \A flips \in SUBSET TasksOf(d), w \in Widths :
        LET lay == ComputeLayout(Flipped(Trees[d], flips), w) IN
        /\ IsLayout(lay)
        /\ \A b \in DOMAIN lay.boxes : lay.boxes[b].task \in TasksOf(d) \cup {NoSource}
        /\ \A v \in Widths : SameTexts(lay, ComputeLayout(Flipped(Trees[d], flips), v))

\* What is searched for is whole letters.
ASSUME NeedleAssumption == IsText(Needle) /\ WholeLetters(Needle)

VARIABLES
    doc,             \* the editor's text: a document and the tasks toggled in it
    reparsePosted,   \* m_reparsePosted
    parsing,         \* the texts whose trees are on their way, the latest last
    shown,           \* the text of m_tree
    layout, width,   \* m_layout and the width it is made for
    previewOnly,     \* the view mode hides the editor
    sel,             \* the selection and the state of the mouse
    scroll,
    edit,            \* the editor's selection, in bytes
    told,            \* the window has had SCN_UPDATEUI for the caret
    showOutline,
    clip,            \* the clipboard, and the same range of the text that is shown
    steps

paneVars == <<layout, width, previewOnly>>
docVars == <<doc, reparsePosted, parsing, shown>>
vars == <<docVars, paneVars, sel, scroll, edit, told, showOutline, clip, steps, outlineVars>>

TreeOf(d) == Flipped(Trees[d.text], d.flips)

\* The version of the tree is the version of the text.
Current == ~reparsePosted /\ parsing = <<>>

Title(text) == IF text = <<>> THEN <<"untitled">> ELSE text
HeadingsOf(tree) ==
    LET tops == {i \in DOMAIN tree : tree[i].parent = 1 /\ tree[i].type = "Heading"}
        nth(k) == CHOOSE i \in tops : Cardinality({j \in tops : j <= i}) = k
        heading(block) == [line |-> block.start, level |-> block.level, title |-> Title(ExtractPlainText(block.spans))]
    IN  [k \in 1..Min({MaxItems, Cardinality(tops)}) |-> heading(tree[nth(k)])]

\* The first headings of the document itself, with a title even when they have no text.
CollectHeadings(d) == HeadingsOf(TreeOf(d))

Clamped(lay, y) == Max({0, Min({lay.total - ViewHeight, y})})

SyncBlocks(lay) ==
    [i \in DOMAIN lay.sync |->
        LET b == lay.boxes[lay.sync[i]] IN [start |-> b.start, end |-> b.end, top |-> b.area.top, bottom |-> b.area.bottom]]
ScrollToLine(lay, line) == Clamped(lay, GetScrollYForLine(SyncBlocks(lay), line))

NothingPressed(s) == [s EXCEPT !.url = NoUrl, !.task = NoSource]
MouseEnded(s) == [s EXCEPT !.down = FALSE, !.dragging = FALSE]
NoSelection == [anchor |-> Origin, focus |-> Origin, range |-> <<Origin, Origin>>, mode |-> "Character", down |-> FALSE,
                dragging |-> FALSE, recent |-> FALSE, url |-> NoUrl, task |-> NoSource]

HasSelection == sel.anchor # sel.focus

-----------------------------------------------------------------------------
(* Texts and trees. *)

Caret(at) == [from |-> at, to |-> at]
CaretLine(d, e) == OffsetToLine(Source(d.text), e.to)

\* A document that is only read is read in one view of the window.
InOneView == showOutline /\ ~previewOnly

Init ==
    /\ doc \in {[text |-> d, flips |-> {}] : d \in Docs}
    /\ reparsePosted = FALSE /\ parsing = <<>> /\ shown = doc
    /\ previewOnly \in BOOLEAN /\ width \in Widths /\ PdfInit
    /\ layout = ComputeLayout(TreeOf(doc), width)
    /\ sel = NoSelection /\ scroll = 0 /\ edit = Caret(0) /\ told = TRUE
    /\ showOutline \in BOOLEAN
    /\ doc.text \in Played \/ InOneView
    /\ clip = [text |-> <<>>, meant |-> <<>>]
    /\ posted = NoItem /\ steps = 0
    /\ PanelIs(IF showOutline THEN HighlightLine(SetHeadings(NewPanel, CollectHeadings(doc)), 1) ELSE NewPanel)

\* While a document is printed nothing else happens in the window.
Bounded == doc.text \in Played /\ steps < MaxSteps /\ steps' = steps + 1 /\ next = 0 /\ UNCHANGED pdfVars

\* SCN_MODIFIED: a parse is scheduled, whatever the edit.
Type(text) ==
    /\ text # doc.text
    /\ doc' = [text |-> text, flips |-> {}]
    /\ reparsePosted' = TRUE
    /\ edit' = Caret(Len(Source(text)))
    /\ told' = FALSE
    /\ UNCHANGED <<parsing, shown, paneVars, sel, scroll, showOutline, clip, outlineVars>>

HandleReparse ==
    /\ reparsePosted
    /\ parsing' = Append(parsing, doc)
    /\ reparsePosted' = FALSE
    /\ UNCHANGED <<doc, shown, paneVars, sel, scroll, edit, told, showOutline, clip, outlineVars>>

\* Mutant: what was selected stays selected in the new tree.
KeptSelection(s) == NothingPressed(MouseEnded(s))

\* The positions of the tree before mean nothing in this one.
ForNewTree(s) ==
    NothingPressed([MouseEnded(s) EXCEPT !.anchor = Origin, !.focus = Origin, !.range = <<Origin, Origin>>])

\* WM_USER_PARSE_COMPLETE, of any text on its way: the worker leaves out those before it.
TreeArrives(k) ==
    /\ k \in DOMAIN parsing
    /\ shown' = parsing[k]
    /\ parsing' = SubSeq(parsing, k + 1, Len(parsing))
    /\ layout' = ComputeLayout(TreeOf(parsing[k]), width)
    /\ sel' = ForNewTree(sel)
    /\ scroll' = Clamped(layout', scroll)
    /\ IF showOutline
       THEN PanelBecomes(HighlightLine(SetHeadings(Panel, CollectHeadings(parsing[k])), CaretLine(doc, edit)))
       ELSE PanelBecomes(Panel)
    /\ UNCHANGED <<doc, reparsePosted, width, previewOnly, edit, told, showOutline, clip, posted>>

\* A resize lays the same tree out again: the selection stays, what is pressed does not.
RelayoutTo(w) ==
    /\ width' = w
    /\ layout' = IF w = width THEN layout ELSE ComputeLayout(TreeOf(shown), w)

Resize(w) ==
    /\ w # width
    /\ RelayoutTo(w)
    /\ sel' = NothingPressed(sel)
    /\ scroll' = Clamped(layout', scroll)
    /\ UNCHANGED <<docVars, previewOnly, edit, told, showOutline, clip, outlineVars>>

-----------------------------------------------------------------------------
(* The editor from the preview. *)

\* A position some UTF-16 units after a byte of the text; the end of the text if there are fewer.
PositionFromSource(src, byte, units) ==
    LET from == Min({byte, Len(src)})
        letter(p) == p = Len(src) \/ src[p + 1] \notin TrailBytes
        there == {p \in from..Len(src) : letter(p) /\ Len(Utf16(SubSeq(src, from + 1, p))) = units}
    IN  IF units = 0 THEN from ELSE IF there = {} THEN Len(src) ELSE Max(there)

LineStartPosition(src, line) == Min({p \in 0..Len(src) : p = Len(src) \/ OffsetToLine(src, p) >= line})
LineEndPosition(src, line) ==
    LET from == LineStartPosition(src, line) IN Min({p \in from..Len(src) : p = Len(src) \/ src[p + 1] = "lf"})

\* The ends where they are exact, whole lines where the text is no copy.
SourceRange(src, s, wholeLines) ==
    LET from == IF ~wholeLines /\ s.start.exact THEN PositionFromSource(src, s.start.src, s.start.delta)
                ELSE LineStartPosition(src, s.startLine)
        to == IF ~wholeLines /\ s.end.exact THEN PositionFromSource(src, s.end.src, s.end.delta)
              ELSE LineEndPosition(src, s.endLine)
    IN  [from |-> from, to |-> Max({from, to})]

\* A hidden editor is shown beside a narrower preview, with the same line at the top.
ShowEditorForPreviewEdit(s) ==
    /\ previewOnly' = FALSE
    /\ RelayoutTo(IF previewOnly THEN Min(Widths) ELSE width)
    /\ sel' = IF previewOnly THEN NothingPressed(s) ELSE s
    /\ scroll' = IF previewOnly THEN ScrollToLine(layout', GetLineForScrollY(SyncBlocks(layout), scroll)) ELSE scroll

EditorShows(at) == edit' = at /\ told' = FALSE

\* Where the caret goes for a place of the tree.
NavigateToSource(src, hit) ==
    Caret(IF hit.exact THEN PositionFromSource(src, hit.src, hit.delta) ELSE LineStartPosition(src, hit.line))

EditAt(p, useSelection, s) ==
    /\ ShowEditorForPreviewEdit(s)
    /\ EditorShows(IF useSelection /\ HasSelection
                   THEN SourceRange(Source(doc.text), GetSourceSelection(layout, sel.anchor, sel.focus), FALSE)
                   ELSE NavigateToSource(Source(doc.text), HitTestSource(layout, p.x, p.y)))

\* Mutant: the range is copied whatever text the tree is of.
TrustedAlways == TRUE

\* Offsets of the tree are offsets of the text only while the tree is the text's.
SourceTrusted == Current

Slice(src, range) == SubSeq(src, range.from + 1, range.to)

CopySourceMarkdown ==
    LET selection == GetSourceSelection(layout, sel.anchor, sel.focus)
        of(d) == Slice(Source(d.text), SourceRange(Source(d.text), selection, selection.wholeLines))
    IN  /\ HasSelection
        /\ clip' = IF SourceTrusted /\ of(doc) # <<>> THEN [text |-> of(doc), meant |-> of(shown)] ELSE clip

-----------------------------------------------------------------------------
(* The mouse. *)

RangeAt(mode, p) ==
    CASE mode = "Word" -> WordAt(layout, p.x, p.y)
      [] mode = "Unit" -> UnitAt(layout, p.x, p.y)
      [] OTHER -> <<HitTestTextPosition(layout, p.x, p.y), HitTestTextPosition(layout, p.x, p.y)>>

\* Mutant: the word the drag began with is left out when the drag goes back.
ExtendFromFocus(s, target) ==
    IF Before(target[1], s.range[1]) THEN [s EXCEPT !.anchor = s.range[1], !.focus = target[1]]
    ELSE [s EXCEPT !.anchor = s.range[1], !.focus = Later(target[2], s.range[2])]

\* A selection of words grows by whole words and keeps the one it began with.
ExtendSelection(s, target) ==
    IF Before(target[1], s.range[1]) THEN [s EXCEPT !.anchor = s.range[2], !.focus = target[1]]
    ELSE [s EXCEPT !.anchor = s.range[1], !.focus = Later(target[2], s.range[2])]

BeginSelection(s, target, mode, extend) ==
    IF extend THEN ExtendSelection([s EXCEPT !.mode = mode, !.range = <<sel.anchor, sel.anchor>>], target)
    ELSE [s EXCEPT !.mode = mode, !.range = target, !.anchor = target[1], !.focus = target[2]]

TaskAt(p) ==
    LET box == HitTestTaskBox(layout, p.x, p.y) IN IF box = 0 THEN NoSource ELSE layout.boxes[box].task

IsVisible(p) == p.y >= scroll /\ p.y < scroll + ViewHeight

IsInsideSelection(p) == HasSelection /\ InSelection(layout, sel.anchor, sel.focus, p.x, p.y)

MouseOnly == UNCHANGED <<docVars, paneVars, scroll, edit, told, showOutline, clip, outlineVars>>

\* WM_LBUTTONDOWN: on a checkbox, or a selection; a third press soon after two selects the unit.
Press(p, shift, soon) ==
    LET triple == sel.recent /\ soon
        mode == IF triple THEN "Unit" ELSE "Character"
        plain == NothingPressed(sel)
        onLink == [plain EXCEPT !.url = HitTestLink(layout, p.x, p.y)]
    IN  /\ IsVisible(p) /\ ~sel.down
        /\ sel' = IF TaskAt(p) # NoSource THEN [plain EXCEPT !.task = TaskAt(p)]
                  ELSE [BeginSelection(onLink, RangeAt(mode, p), mode, shift) EXCEPT !.down = TRUE, !.dragging = triple \/ shift]
        /\ MouseOnly

\* With Ctrl, the caret goes to the character, even on a link.
PressCtrl(p) ==
    /\ IsVisible(p) /\ ~sel.down /\ TaskAt(p) = NoSource
    /\ EditAt(p, FALSE, NothingPressed(sel))
    /\ UNCHANGED <<docVars, showOutline, clip, outlineVars>>

DoublePress(p) ==
    LET plain == NothingPressed(sel) IN
    /\ IsVisible(p) /\ ~sel.down
    /\ sel' = IF TaskAt(p) # NoSource THEN [plain EXCEPT !.task = TaskAt(p)]
              ELSE [BeginSelection(plain, RangeAt("Word", p), "Word", FALSE) EXCEPT !.down = TRUE, !.dragging = TRUE, !.recent = TRUE]
    /\ MouseOnly

\* A drag that begins on a link selects instead of opening it.
Move(p) ==
    /\ sel.down /\ IsVisible(p)
    /\ sel' = ExtendSelection(IF sel.dragging THEN sel ELSE [sel EXCEPT !.dragging = TRUE, !.url = NoUrl], RangeAt(sel.mode, p))
    /\ MouseOnly

OpenLink(url) ==
    LET y == GetAnchorY(layout, url)
    IN  scroll' = IF url[1] = "#" /\ y # NoSource THEN Clamped(layout, y - 12) ELSE scroll

\* The document is changed only while the mark is where the tree says, and the box with it.
ToggleTask(mark) ==
    IF ~Current THEN UNCHANGED <<doc, reparsePosted, layout, told>>
    ELSE LET box == layout.boxes[CHOOSE b \in DOMAIN layout.boxes : layout.boxes[b].task = mark]
             flipped == IF mark \in doc.flips THEN doc.flips \ {mark} ELSE doc.flips \cup {mark}
         IN  /\ doc' = [doc EXCEPT !.flips = flipped]
             /\ reparsePosted' = TRUE
             /\ layout' = SetTaskChecked(layout, mark, ~box.checked)
             /\ told' = FALSE

\* WM_LBUTTONUP: a checkbox or a link needs both the press and the release.
Release(p) ==
    LET onTask == sel.task # NoSource /\ TaskAt(p) = sel.task
        onLink == ~onTask /\ ~sel.dragging /\ sel.url # NoUrl /\ sel.url = HitTestLink(layout, p.x, p.y)
    IN  /\ sel.down \/ sel.task # NoSource
        /\ IsVisible(p)
        /\ sel' = NothingPressed(MouseEnded(sel))
        /\ IF onTask THEN ToggleTask(sel.task) ELSE UNCHANGED <<doc, reparsePosted, layout, told>>
        /\ IF onLink THEN OpenLink(sel.url) ELSE UNCHANGED scroll
        /\ UNCHANGED <<parsing, shown, width, previewOnly, edit, showOutline, clip, outlineVars>>

CaptureLost == sel.down /\ sel' = MouseEnded(sel) /\ MouseOnly

-----------------------------------------------------------------------------
(* Keys and the menu of the preview. *)

SelectAll ==
    /\ layout.units # <<>>
    /\ sel' = [sel EXCEPT !.range = <<Origin, Origin>>, !.anchor = Origin, !.focus = DocumentEnd(layout)]
    /\ MouseOnly

ClearSelection == HasSelection /\ sel' = [sel EXCEPT !.anchor = sel.focus] /\ MouseOnly

CopySelection ==
    /\ HasSelection
    /\ LET text == GetSelectedText(layout, sel.anchor, sel.focus)
       IN  clip' = IF text # <<>> THEN [text |-> text, meant |-> text] ELSE clip
    /\ UNCHANGED <<docVars, paneVars, sel, scroll, edit, told, showOutline, outlineVars>>

CopyMarkdown == CopySourceMarkdown /\ UNCHANGED <<docVars, paneVars, sel, scroll, edit, told, showOutline, outlineVars>>

\* "Editar aqui" of the menu: the selection, if the point is in it or the menu came by the keyboard.
EditHere(p) ==
    /\ ~sel.down /\ IsVisible(p)
    /\ \E onSelection \in {HasSelection, IsInsideSelection(p)} : EditAt(p, onSelection, sel)
    /\ UNCHANGED <<docVars, showOutline, clip, outlineVars>>

\* The height of a range, in content space.
RowsOf(view, places, range) ==
    [top |-> view.y + LineHeight * places[range[1].offset + 1].row,
     bottom |-> view.y + LineHeight * (places[range[2].offset].row + 1)]
RangeRows(view, range) == RowsOf(view, Places(view.text, view.width), range)

\* What is not all in the view is brought to a third of it.
Revealed(rows) ==
    IF rows.top < scroll \/ rows.bottom > scroll + ViewHeight THEN Clamped(layout, rows.top - ViewHeight \div 3) ELSE scroll

SelectMatch(match) ==
    /\ match # <<>>
    /\ sel' = [sel EXCEPT !.range = <<Origin, Origin>>, !.anchor = match[1], !.focus = match[2]]
    /\ scroll' = Revealed(RangeRows(ViewOf(layout, match[1].unit), match))

FindNext(wholeWord, forward) ==
    /\ SelectMatch(FindText(layout, Needle, IF forward THEN Later(sel.anchor, sel.focus) ELSE Earlier(sel.anchor, sel.focus),
                            wholeWord, forward))
    /\ UNCHANGED <<docVars, paneVars, edit, told, showOutline, clip, outlineVars>>

-----------------------------------------------------------------------------
(* The outline and the window. *)

\* The caret goes to the line, which is at the top of the editor and of the preview.
NavigateToLine(line) ==
    IF line = 0 THEN UNCHANGED <<edit, told, scroll>>
    ELSE /\ EditorShows(Caret(LineStartPosition(Source(doc.text), line)))
         /\ scroll' = ScrollToLine(layout, line)

MoveCaret(line) ==
    /\ line # CaretLine(doc, edit)
    /\ EditorShows(Caret(LineStartPosition(Source(doc.text), line)))
    /\ UNCHANGED <<docVars, paneVars, sel, scroll, showOutline, clip, outlineVars>>

\* SCN_UPDATEUI.
UpdateUi ==
    /\ ~told /\ told' = TRUE
    /\ PanelBecomes(IF showOutline THEN HighlightLine(Panel, CaretLine(doc, edit)) ELSE Panel)
    /\ UNCHANGED <<docVars, paneVars, sel, scroll, edit, showOutline, clip, posted>>

PanelOnly == UNCHANGED <<docVars, paneVars, sel, scroll, edit, told, showOutline, clip>>

\* NM_CLICK posts the heading: the tree control has not finished with the click.
ClickItem(item) ==
    /\ showOutline /\ posted = NoItem /\ item \in DOMAIN items
    /\ SelectItem(item)
    /\ posted' = ItemIndex(item)
    /\ PanelOnly

HandlePosted ==
    /\ posted # NoItem /\ posted' = NoItem
    /\ NavigateToLine(NavigateLine(posted))
    /\ UNCHANGED <<docVars, paneVars, sel, showOutline, clip, headings, items, selected, selectedIndex, lastLine>>

\* The arrows select another item and go to it.
KeyToItem(item) ==
    /\ showOutline /\ item \in DOMAIN items /\ item # selected
    /\ SelectItem(item)
    /\ NavigateToLine(NavigateLine(ItemIndex(item)))
    /\ UNCHANGED <<docVars, paneVars, sel, showOutline, clip, posted>>

\* Collapsing an item that has the selection inside it selects that item.
CollapseItem(item) ==
    /\ showOutline /\ selected > 1 /\ item = items[selected].parent /\ item # 0
    /\ SelectItem(item)
    /\ UNCHANGED posted
    /\ PanelOnly

\* The close button of the panel and the command of the menu; a panel shown again catches up.
SetOutlineVisible ==
    /\ showOutline' = ~showOutline
    /\ PanelBecomes(IF showOutline THEN Panel
                    ELSE HighlightLine(SetHeadings(Panel, CollectHeadings(shown)), CaretLine(doc, edit)))
    /\ UNCHANGED <<docVars, paneVars, sel, scroll, edit, told, clip, posted>>

\* The menu of headings is of the text as it is now.
ShowOutlinePopup ==
    /\ \E heading \in Range(CollectHeadings(doc)) : NavigateToLine(heading.line)
    /\ UNCHANGED <<docVars, paneVars, sel, showOutline, clip, outlineVars>>

Points ==
    {[x |-> layout.boxes[b].mark.left, y |-> layout.boxes[b].mark.top] : b \in {b \in DOMAIN layout.boxes : layout.boxes[b].task # NoSource}}
    \cup UNION {LET v == ViewOf(layout, u)
                    mid == Places(v.text, v.width)[Len(v.text) \div 2 + 1]
                IN  {[x |-> v.x + mid.col * CharWidth + 6, y |-> v.y + mid.row * LineHeight + 1],
                     [x |-> v.area.right - 1, y |-> v.area.bottom - 1]} : u \in DOMAIN layout.units}

\* ExportPdf: the text of the editor, on paper of some size.  The view does not matter.
ExportPdf ==
    /\ steps = 0 /\ InOneView /\ width = Max(Widths)
    /\ BeginPrint /\ paper'.doc = doc.text
    /\ UNCHANGED vars

Writing == next > 0 /\ UNCHANGED vars

Next ==
    \/ Bounded /\ \E text \in Played : Type(text)
    \/ Bounded /\ HandleReparse
    \/ Bounded /\ \E k \in DOMAIN parsing : TreeArrives(k)
    \/ Bounded /\ \E w \in Widths : Resize(w)
    \/ Bounded /\ \E p \in Points, shift \in BOOLEAN, soon \in {sel.recent, FALSE} : Press(p, shift, soon)
    \/ Bounded /\ \E p \in Points : PressCtrl(p)
    \/ Bounded /\ \E p \in Points : DoublePress(p)
    \/ Bounded /\ \E p \in Points : Move(p)
    \/ Bounded /\ \E p \in Points : Release(p)
    \/ Bounded /\ CaptureLost
    \/ Bounded /\ SelectAll
    \/ Bounded /\ ClearSelection
    \/ Bounded /\ CopySelection
    \/ Bounded /\ CopyMarkdown
    \/ Bounded /\ \E p \in Points : EditHere(p)
    \/ Bounded /\ \E wholeWord, forward \in BOOLEAN : FindNext(wholeWord, forward)
    \/ Bounded /\ \E line \in {1, OffsetToLine(Source(doc.text), Len(Source(doc.text)))} : MoveCaret(line)
    \/ Bounded /\ UpdateUi
    \/ Bounded /\ \E item \in DOMAIN items : ClickItem(item)
    \/ Bounded /\ \E item \in DOMAIN items : KeyToItem(item)
    \/ Bounded /\ \E item \in DOMAIN items : CollapseItem(item)
    \/ Bounded /\ HandlePosted
    \/ Bounded /\ SetOutlineVisible
    \/ Bounded /\ ShowOutlinePopup
    \/ ExportPdf
    \/ Writing /\ PrintGap
    \/ Writing /\ PrintKeep
    \/ Writing /\ PrintRoom
    \/ Writing /\ PrintMark
    \/ Writing /\ PrintCode
    \/ Writing /\ TurnRow
    \/ Writing /\ RepeatRow
    \/ Writing /\ PrintRow

Spec == Init /\ [][Next]_<<vars, pdfVars>>

-----------------------------------------------------------------------------
(* Properties. *)

IsPosition(p) ==
    \/ p = Origin
    \/ /\ p.unit \in DOMAIN layout.units
       /\ p.offset \in 0..Len(TextOf(layout, p.unit))
       /\ p.offset \in 1..Len(TextOf(layout, p.unit)) - 1 => TextOf(layout, p.unit)[p.offset] # "F0"

\* What the view remembers of the user is in the layout it shows: the selection, and the range
\* a drag goes on from, are places of its texts and never the middle of a letter, the checkbox
\* and the link that are pressed are there, and the scroll position is inside the document --
\* whatever tree arrived, and whatever was resized, between the press and the release.
RefsAreLive ==
    /\ \A p \in {sel.anchor, sel.focus, sel.range[1], sel.range[2]} : IsPosition(p)
    /\ sel.task # NoSource => \E b \in DOMAIN layout.boxes : layout.boxes[b].task = sel.task
    /\ sel.url # NoUrl =>
          \E u \in DOMAIN layout.units : \E l \in DOMAIN ViewOf(layout, u).links : ViewOf(layout, u).links[l].url = sel.url
    /\ scroll = Clamped(layout, scroll)

\* What "Copiar como Markdown" puts on the clipboard is the source of what the user sees
\* selected, although the range is cut out of the editor's text, which may be newer.
CopiedIsShown == clip.text = clip.meant

IsWordEdge(p) ==
    LET text == TextOf(layout, p.unit) IN
    p.offset \in 1..Len(text) - 1 => ClassOf(text[p.offset]) # ClassOf(text[p.offset + 1])

\* A drag that began with a double click selects whole words, and always the one it began with,
\* wherever the pointer goes and comes back to.
WordsStayWhole ==
    sel.down /\ HasSelection /\ sel.mode = "Word" /\ sel.range[1] # sel.range[2] =>
        /\ IsWordEdge(sel.anchor) /\ IsWordEdge(sel.focus)
        /\ ~Before(sel.range[1], Earlier(sel.anchor, sel.focus))
        /\ ~Before(Later(sel.anchor, sel.focus), sel.range[2])

\* A visible outline lists the headings of the text that is shown, each under its own parent
\* even when the items of an older text were kept, and the panel and its control agree on
\* which is selected.
OutlineInStep ==
    /\ showOutline => headings = CollectHeadings(shown) /\ items = ItemsOf(headings)
    /\ selectedIndex = ItemIndex(selected)

Written == {"a", "b", "c", "d", "1", "2", "C3"}
HasImage(text) == \E i \in DOMAIN text : text[i] = "FE0F"
LetterBytes(c) == IF c = "C3" THEN 2 ELSE 1

\* The source of one letter of a unit, as "Editar aquí" selects it.
SourceOfLetter(src, u, i) ==
    SourceRange(src, GetSourceSelection(layout, Pos(u, i - 1), Pos(u, i)), FALSE)

\* Every letter shown that was written in the source leads back to itself: editing it selects
\* its own bytes, and a Ctrl+click on its first half lands before them -- through bold and
\* links, marks that are not shown, entities, emoji, line ends inside a quote, and letters of
\* two bytes.  (The text of raw HTML and of an image is generated.)
SourceIsFound ==
    steps = 0 =>
    \A u \in DOMAIN layout.units :
        LET comesBack(src, letter, range, hit) ==
                /\ src[range.from + 1] = letter /\ range.to - range.from = LetterBytes(letter)
                /\ hit.exact /\ PositionFromSource(src, hit.src, hit.delta) = range.from
            clicked(view, place) == HitTestSource(layout, view.x + place.col * CharWidth + 1, view.y + place.row * LineHeight + 1)
            inText(view, src, places) ==
                \A i \in DOMAIN view.text : view.text[i] \in Written =>
                    comesBack(src, view.text[i], SourceOfLetter(src, u, i), clicked(view, places[i]))
            inUnit(view) == view.segs = <<>> \/ HasImage(view.text) \/ inText(view, Source(shown.text), Places(view.text, view.width))
        IN  inUnit(ViewOf(layout, u))

LinesInOrder(tree, lines) ==
    \A i \in DOMAIN tree :
        /\ tree[i].start <= lines[i] /\ tree[i].start <= tree[i].end
        /\ tree[i].parent # 0 => tree[tree[i].parent].start <= tree[i].start /\ tree[i].end <= tree[tree[i].parent].end

\* The blocks come in the order of the source, a block spans the lines of those inside it, no
\* block is put after the line it begins on, and so the two panes never scroll against each other.
BlocksInOrder ==
    steps = 0 => LinesInOrder(TreeOf(shown), TrueLines(shown.text)) /\ Monotonic(SyncBlocks(layout))

\* The outline, the menu of headings and synchronised scrolling take a heading to be on the line
\* where the tree says it begins.
HeadingLineIsItsOwn ==
    LET onTheirLines(tree, lines) == \A i \in DOMAIN tree : tree[i].type = "Heading" => tree[i].start = lines[i]
    IN  onTheirLines(TreeOf(shown), TrueLines(shown.text))
=============================================================================
