------------------------------- MODULE Window -------------------------------
(***************************************************************************)
(* The panes of the main window and the file explorer in one of them: the  *)
(* layout decides whether the explorer is shown and how wide its path bar  *)
(* is; the settings keep the layout and the folder from one run of Pluma   *)
(* to the next.                                                            *)
(***************************************************************************)
EXTENDS Explorer, Integers, Toolbar

CONSTANTS
    ClientWidths,               \* the widths the user gives the window, in pixels
    WorkWidths,                 \* bound: those at which the user works on files
    Dpi,
    Height,                     \* of the client area without the status bar
    ToolbarHeight, FormatBarHeight,
    MousePositions,             \* where a divider is dragged to
    Toggled                     \* the view settings, besides the explorer, that the user toggles

\* config/settings.h, in logical pixels and thousandths.
MinPanelWidth == 140
MaxPanelWidth == 600
MinSplitRatio == 150
MaxSplitRatio == 850
DefaultPanelWidth == 240

VIEW == {"EditorOnly", "Split", "PreviewOnly"}

ASSUME WindowAssumption ==
    /\ ClientWidths \subseteq Nat \ {0} /\ WorkWidths \subseteq ClientWidths /\ Dpi \in Nat /\ Dpi >= 96 /\ Height \in Nat
    /\ ToolbarHeight \in Nat /\ FormatBarHeight \in Nat /\ MousePositions \subseteq Int
    /\ Toggled \subseteq {"showOutline", "showToolbar", "showFormatBar"}

VARIABLES
    running,    \* Pluma's window exists
    client,     \* the width of the client area
    settings,   \* m_settings: the toggles, the widths of the side panels and the folders
    viewMode,   \* m_viewMode
    ratio,      \* m_splitRatio, as <<numerator, denominator>>
    drag,       \* m_dragDivider
    ini         \* the settings file, which is read at the start and written whole at the end

windowVars == <<running, client, settings, viewMode, ratio, drag, ini>>
vars == <<explorerVars, windowVars>>

ClampTo(lo, hi, x) == IF x < lo THEN lo ELSE IF x > hi THEN hi ELSE x
Least(a, b) == IF a < b THEN a ELSE b
Greatest(a, b) == IF a > b THEN a ELSE b

\* MulDiv rounds to the nearest integer, halves away from zero.
MulDiv(x, n, d) == IF x >= 0 THEN (2 * x * n + d) \div (2 * d) ELSE -((2 * (-x) * n + d) \div (2 * d))
Scale(x) == MulDiv(x, Dpi, 96)

-----------------------------------------------------------------------------
(* ComputeLayout. *)

Rect(left, top, right, bottom) == [left |-> left, top |-> top, right |-> right, bottom |-> bottom]
Empty == Rect(0, 0, 0, 0)
IsEmpty(rc) == rc.left >= rc.right \/ rc.top >= rc.bottom

DividerW == Scale(6)
MinContentW == Scale(160)
MinPanelW == Scale(80)

\* A mutant: a side panel takes the width the user gave it.
WantedWidth(wanted, room) == Scale(wanted)

\* A side panel never squeezes the document below a usable width; without room it is hidden.
PanelWidth(wanted, room) == Least(Scale(wanted), room - DividerW - MinContentW)
Shows(show, wanted, room) == show /\ PanelWidth(wanted, room) >= MinPanelW

ExplorerW(s, w) == IF Shows(s.showExplorer, s.explorerWidth, w) THEN PanelWidth(s.explorerWidth, w) ELSE 0
ContentRight(s, w) == IF ExplorerW(s, w) = 0 THEN w ELSE w - ExplorerW(s, w) - DividerW
OutlineW(s, right) == IF Shows(s.showOutline, s.outlineWidth, right) THEN PanelWidth(s.outlineWidth, right) ELSE 0
ContentX(s, right) == IF OutlineW(s, right) = 0 THEN 0 ELSE OutlineW(s, right) + DividerW

\* The editor's share of a split document, which leaves both views some room.
EditorW(contentW, r) ==
    ClampTo(50, Greatest(50, contentW - DividerW - 50), ((contentW - DividerW) * r[1]) \div r[2])

EditorRect(mode, r, x, contentW, y, bottom) ==
    CASE mode = "EditorOnly" -> Rect(x, y, x + contentW, bottom)
      [] mode = "PreviewOnly" -> Empty
      [] mode = "Split" -> Rect(x, y, x + EditorW(contentW, r), bottom)

PreviewRect(mode, editorRight, x, contentW, y, bottom) ==
    CASE mode = "EditorOnly" -> Empty
      [] mode = "PreviewOnly" -> Rect(x, y, x + contentW, bottom)
      [] mode = "Split" -> Rect(editorRight + DividerW, y,
                                Greatest(editorRight + DividerW + 50, x + contentW), bottom)

\* The format bar is at the top of the editor's pane and takes at most half of it.
FormatBarH(s, editor) ==
    IF s.showFormatBar /\ ~IsEmpty(editor) THEN Least(FormatBarHeight, (editor.bottom - editor.top) \div 2) ELSE 0

Panes(s, mode, w, right, x, y, bottom, editor) ==
    [toolbar |-> IF s.showToolbar THEN Rect(0, 0, w, ToolbarHeight) ELSE Empty,
     explorer |-> IF right < w THEN Rect(right + DividerW, y, w, bottom) ELSE Empty,
     explorerDivider |-> IF right < w THEN Rect(right, y, right + DividerW, bottom) ELSE Empty,
     outline |-> IF x > 0 THEN Rect(0, y, x - DividerW, bottom) ELSE Empty,
     outlineDivider |-> IF x > 0 THEN Rect(x - DividerW, y, x, bottom) ELSE Empty,
     formatBar |-> Rect(editor.left, editor.top, editor.right, editor.top + FormatBarH(s, editor)),
     editor |-> [editor EXCEPT !.top = @ + FormatBarH(s, editor)],
     splitDivider |-> IF mode = "Split" THEN Rect(editor.right, y, editor.right + DividerW, bottom) ELSE Empty,
     preview |-> PreviewRect(mode, editor.right, x, Greatest(1, right - x), y, bottom)]

LayoutBetween(s, mode, r, w, right, x, y, bottom) ==
    Panes(s, mode, w, right, x, y, bottom, EditorRect(mode, r, x, Greatest(1, right - x), y, bottom))

Top(s) == IF s.showToolbar THEN ToolbarHeight ELSE 0
ComputeLayout(s, mode, r, w) ==
    LayoutBetween(s, mode, r, w, ContentRight(s, w), ContentX(s, ContentRight(s, w)),
                  Top(s), Top(s) + Greatest(10, Height - Top(s)))

Layout == ComputeLayout(settings, viewMode, ratio, client)

-----------------------------------------------------------------------------
(* Laying out again: the explorer is placed, which may show it. *)

\* The up button and the margins around the segments.
BarWidth(width) == Greatest(0, width - Scale(6) - (Scale(6) + Scale(24) + Scale(4)))

RelayoutTo(s, mode, r, w) ==
    LET width == ExplorerW(s, w) IN
    /\ shown' = (width > 0)
    /\ barWidth' = IF width > 0 THEN BarWidth(width) ELSE 0
    /\ Become(IF width > 0 THEN Appear(panel) ELSE panel)

SetSettings(s) ==
    /\ settings' = s
    /\ RelayoutTo(s, viewMode, ratio, client)

ToggleSetting(name) ==
        /\ SetSettings([settings EXCEPT ![name] = ~@])
        /\ UNCHANGED <<running, client, viewMode, ratio, drag, ini>>

SetViewMode ==
    \E mode \in VIEW \ {viewMode} :
        /\ viewMode' = mode
        /\ RelayoutTo(settings, mode, ratio, client)
        /\ UNCHANGED <<running, client, settings, ratio, drag, ini>>

Resize ==
    \E w \in ClientWidths \ {client} :
        /\ drag = "None"
        /\ client' = w
        /\ RelayoutTo(settings, viewMode, ratio, w)
        /\ UNCHANGED <<running, settings, viewMode, ratio, drag, ini>>

-----------------------------------------------------------------------------
(* Dragging a divider. *)

\* The pane whose divider it is, by the names of m_dragDivider.
DividerOf == [Split |-> "splitDivider", Outline |-> "outlineDivider", Explorer |-> "explorerDivider"]

StartDrag ==
    \E d \in DOMAIN DividerOf :
        /\ drag = "None" /\ ~IsEmpty(Layout[DividerOf[d]])
        /\ drag' = d
        /\ UNCHANGED <<explorerVars, running, client, settings, viewMode, ratio, ini>>

ClampRatio(n, d) ==
    IF 1000 * n < MinSplitRatio * d THEN <<MinSplitRatio, 1000>>
    ELSE IF 1000 * n > MaxSplitRatio * d THEN <<MaxSplitRatio, 1000>>
    ELSE <<n, d>>

\* The layout is that of before the drag; a pane hidden in the meantime is an empty rectangle at 0.
DraggedRatio(layout, x) ==
    LET contentW == layout.preview.right - layout.editor.left IN
    IF contentW > DividerW
    THEN ClampRatio(x - layout.editor.left - DividerW \div 2, contentW - DividerW)
    ELSE ratio

Logical(pixels) == ClampTo(MinPanelWidth, MaxPanelWidth, MulDiv(pixels, 96, Dpi))

DragDividerTo(x) ==
    CASE drag = "Split" ->
            /\ ratio' = DraggedRatio(Layout, x)
            /\ RelayoutTo(settings, viewMode, ratio', client)
            /\ UNCHANGED settings
      [] drag = "Outline" ->
            /\ SetSettings([settings EXCEPT !.outlineWidth = Logical(x - Layout.outline.left - DividerW \div 2)])
            /\ UNCHANGED ratio
      [] drag = "Explorer" ->
            /\ SetSettings([settings EXCEPT !.explorerWidth = Logical(Layout.explorer.right - x - DividerW \div 2)])
            /\ UNCHANGED ratio

Drag ==
    \E x \in MousePositions :
        /\ drag # "None"
        /\ DragDividerTo(x)
        /\ UNCHANGED <<running, client, viewMode, drag, ini>>

EndDrag ==
    /\ drag # "None"
    /\ drag' = "None"
    /\ UNCHANGED <<explorerVars, running, client, settings, viewMode, ratio, ini>>

\* A double click restores the divider's default position.
ResetDivider ==
    \E d \in DOMAIN DividerOf :
        /\ drag = "None" /\ ~IsEmpty(Layout[DividerOf[d]])
        /\ CASE d = "Split" -> ratio' = <<500, 1000>> /\ RelayoutTo(settings, viewMode, ratio', client) /\ UNCHANGED settings
             [] d = "Outline" -> SetSettings([settings EXCEPT !.outlineWidth = DefaultPanelWidth]) /\ UNCHANGED ratio
             [] d = "Explorer" -> SetSettings([settings EXCEPT !.explorerWidth = DefaultPanelWidth]) /\ UNCHANGED ratio
        /\ UNCHANGED <<running, client, viewMode, drag, ini>>

-----------------------------------------------------------------------------
(* "Abrir carpeta..." in the menu, which shows the explorer. *)

\* The new root is set while the panel may still be hidden; showing the panel then reads it.
OpenFolder ==
    \E folder \in Folder \cap panel.disk :
        LET s == [settings EXCEPT !.showExplorer = TRUE]
            width == ExplorerW(s, client)
            t == NewRoot(panel, folder, shown)
        IN  /\ settings' = s
            /\ shown' = (width > 0)
            /\ barWidth' = IF width > 0 THEN BarWidth(width) ELSE 0
            /\ Become(IF width > 0 THEN Appear(t) ELSE t)
            /\ UNCHANGED <<running, client, viewMode, ratio, drag, ini>>

-----------------------------------------------------------------------------
(* Closing Pluma and starting it again. *)

\* A mutant: the ratio is written with two decimals.
Hundredths(r) == 10 * ((200 * r[1] + r[2]) \div (2 * r[2]))

\* IniWriter::Float writes three decimals.
Thousandths(r) == (2000 * r[1] + r[2]) \div (2 * r[2])

Sanitize(s) == [s EXCEPT !.outlineWidth = ClampTo(MinPanelWidth, MaxPanelWidth, @),
                         !.explorerWidth = ClampTo(MinPanelWidth, MaxPanelWidth, @)]

\* SerializeSettings.  The layout is what the user left behind, not part of the file (a history variable).
Serialized ==
    [settings |-> Sanitize(settings), lastView |-> viewMode, splitRatio |-> Thousandths(ratio),
     explorerFolder |-> panel.root, lastFile |-> panel.currentFile, client |-> client, layout |-> Layout]

\* ParseSettings.
Parsed(saved) ==
    [settings |-> Sanitize(saved.settings), lastView |-> saved.lastView,
     splitRatio |-> <<ClampTo(MinSplitRatio, MaxSplitRatio, saved.splitRatio), 1000>>,
     explorerFolder |-> saved.explorerFolder, lastFile |-> saved.lastFile, client |-> saved.client]

\* WM_CLOSE: SaveSettingsNow, once the document was saved or given up.
Close ==
    /\ drag = "None"
    /\ running' = FALSE
    /\ ini' = Serialized
    /\ panel' = EmptyPanel(panel.disk)
    /\ pressed' = None
    /\ UNCHANGED <<shown, barWidth, client, settings, viewMode, ratio, drag>>

\* The window is shown and the explorer gets its folder and the last document, if it still exists
\* and the user wants it back.
StartFrom(s, reopen) ==
    LET width == ExplorerW(s.settings, s.client)
        file == IF reopen /\ s.lastFile \in panel.disk THEN s.lastFile ELSE None
    IN  /\ running' = TRUE
        /\ client' = s.client /\ settings' = s.settings /\ viewMode' = s.lastView /\ ratio' = s.splitRatio
        /\ shown' = (width > 0)
        /\ barWidth' = IF width > 0 THEN BarWidth(width) ELSE 0
        /\ panel' = StartedPanel(panel.disk, s.explorerFolder, file, width > 0)
        /\ pressed' = None
        /\ ini' = None
        /\ UNCHANGED drag

Start == ~running /\ \E reopen \in BOOLEAN : StartFrom(Parsed(ini), reopen)

-----------------------------------------------------------------------------
(* The specification: nothing has been saved before the first start. *)

Defaults ==
    [showExplorer |-> FALSE, showOutline |-> FALSE, showToolbar |-> TRUE, showFormatBar |-> TRUE,
     outlineWidth |-> DefaultPanelWidth, explorerWidth |-> DefaultPanelWidth]

Init ==
    /\ running = TRUE /\ client \in ClientWidths
    /\ settings = Defaults /\ viewMode = "Split" /\ ratio = <<500, 1000>>
    /\ drag = "None" /\ ini = None
    /\ panel = EmptyPanel(InitialDisk) /\ shown = FALSE /\ barWidth = 0 /\ pressed = None

\* Bound: the window is rearranged while the panel is as at the first start, and files are worked on
\* in the default arrangement; the panel is shown and hidden, and the window resized, at any time.
PanelBound == panel = EmptyPanel(InitialDisk)
WindowBound ==
    /\ viewMode = "Split" /\ ratio = <<500, 1000>> /\ client \in WorkWidths
    /\ [settings EXCEPT !.showExplorer = FALSE] = Defaults

Rearrange ==
    \/ \E name \in Toggled : ToggleSetting(name)
    \/ SetViewMode \/ StartDrag \/ Drag \/ EndDrag \/ ResetDivider

Next ==
    \/ /\ running /\ WindowBound
       /\ \/ (DiskChanges \/ OpenDocument \/ SaveDocument) /\ UNCHANGED windowVars
          \/ shown /\ UserActs /\ UNCHANGED windowVars
          \/ OpenFolder
    \/ running /\ PanelBound /\ Rearrange
    \/ running /\ (WindowBound \/ PanelBound) /\ (ToggleSetting("showExplorer") \/ Resize \/ Close)
    \/ Start

Spec == Init /\ [][Next]_vars

-----------------------------------------------------------------------------
(* The panes. *)

Columns == {"explorer", "explorerDivider", "outline", "outlineDivider", "editor", "splitDivider", "preview"}
Width(rc) == rc.right - rc.left

\* Wide enough for both views of a document and for the button of the overflow menu; Windows lets
\* no window with a caption be much narrower.
WideEnough(w) == w >= 100 + DividerW /\ RightLimit(w) >= Pad + ButtonWidth

Overlap(rc, other) == ~IsEmpty(rc) /\ ~IsEmpty(other) /\ rc.left < other.right /\ other.left < rc.right

Tile(l, w, mode) ==
    /\ Width(l.explorer) + Width(l.explorerDivider) + Width(l.outline) + Width(l.outlineDivider)
         + Width(l.editor) + Width(l.splitDivider) + Width(l.preview) = w
    /\ \A p, q \in Columns : p # q => ~Overlap(l[p], l[q])
    /\ \A p \in Columns : l[p].left >= 0 /\ l[p].right <= w
    /\ Width(l.editor) + Width(l.splitDivider) + Width(l.preview) >= Least(w, MinContentW)
    /\ mode # "PreviewOnly" => Width(l.editor) >= 50 /\ l.formatBar.bottom = l.editor.top
    /\ mode # "EditorOnly" => Width(l.preview) >= 50

Fit(w) ==
    /\ \A i \in Left \ Hidden(w) : RightOf(i) <= RightLimit(w)
    /\ \A j \in Left \ {1} : Items[j - 1].kind = "Segment" /\ Items[j].kind = "Segment"
                               => (j - 1 \in Hidden(w) <=> j \in Hidden(w))
    /\ Overflows(w) =>
          /\ OverflowCommands(w) # {}
          /\ OverflowRight(w) <= RightLimit(w)
          /\ Cut(w) > 1 => Items[Cut(w) - 1].kind # "Separator"

\* At any size wide enough and in any view, the panes and their dividers fill the window side by side
\* and none covers another; the document keeps a usable width beside the panels, each of its views
\* some room, and the format bar stays above the text (ComputeLayout).  Above them every command is
\* on the toolbar or in its overflow menu: what is on it fits beside what is aligned right, with the
\* overflow button if there is one, no segmented control is torn apart and no separator is left at
\* the end (Toolbar::Layout).
PanesTile == running /\ WideEnough(client) => Tile(Layout, client, viewMode) /\ Fit(client)

Near(rc, other) ==
    /\ rc.left - other.left \in -1..1 /\ rc.right - other.right \in -1..1
    /\ rc.top = other.top /\ rc.bottom = other.bottom

SameLayout(layout, other) == \A pane \in DOMAIN layout : Near(layout[pane], other[pane])

\* Pluma starts with the panes where they were when it was closed, to the pixel the rounded split
\* ratio may cost, and with the explorer on the folder it showed, unless a document outside that
\* folder is reopened (CaptureRuntimeState, SerializeSettings, ParseSettings, Create).
LayoutComesBack ==
    [][ ~running /\ running' =>
            /\ SameLayout(ini.layout, ComputeLayout(settings', viewMode', ratio', client'))
            /\ \/ panel'.root = ini.explorerFolder
               \/ panel'.currentFile = ini.lastFile /\ ParentOf(ini.lastFile) = panel'.root ]_vars

-----------------------------------------------------------------------------
(* The panel. *)

\* The tree of an up-to-date panel hangs together: every entry is in a folder that was read, the
\* folders that show entries are exactly those remembered as expanded, the document is bold if it is
\* there, the handle of the bold item is never left pointing at one that was deleted, and only an
\* empty tree shows the placeholder.  A panel that is shown is up to date, whatever happened while
\* it was hidden.
TreeIsSound ==
    /\ running /\ shown => ~panel.stale
    /\ ~panel.stale =>
        /\ \A i \in panel.items : ParentOf(i) \in panel.loaded \cup {panel.root}
        /\ \A f \in panel.items \cap Folder :
              Below(f) \cap panel.items # {} => (f \in panel.open <=> f \in panel.expanded)
        /\ panel.currentFile \in panel.items => panel.currentFile \in panel.bold
        /\ panel.currentItem \in (panel.items \cap panel.bold) \cup {None}
        /\ panel.placeholder <=> panel.items = {}

\* The folder was read when it had nothing to show: its item cannot be expanded (see FileIsRevealed).
ListedEmpty(f) == f \in panel.loaded /\ Below(f) \cap panel.items = {}

Reveals(t, file) ==
    /\ file \in t.items /\ file \in t.bold
    /\ \A n \in Len(t.root) + 1 .. Len(file) - 1 : SubSeq(file, 1, n) \in t.open

\* A Markdown document that becomes the open one is revealed: its item is in the tree, bold, with
\* every folder on the way expanded, although other programs changed the disk since those folders
\* were read and whether or not they are inside the root.  The exception is a folder on the way
\* that was read when it was empty.
FileIsRevealed ==
    [][ /\ running /\ running' /\ shown /\ shown'
        /\ panel'.currentFile # panel.currentFile
        /\ panel'.currentFile \in panel'.disk \cap Markdown
        /\ \A n \in 1 .. Len(panel'.currentFile) - 1 : ~ListedEmpty(SubSeq(panel'.currentFile, 1, n))
        => Reveals(panel', panel'.currentFile) ]_vars

\* "The open document, shown in bold": no other item is.
OnlyDocumentIsBold == ~panel.stale => panel.bold \subseteq {panel.currentFile}

\* A document that becomes the open one is revealed, also in a folder read when it was empty.
FileIsAlwaysRevealed ==
    [][ /\ running /\ running' /\ shown /\ shown'
        /\ panel'.currentFile # panel.currentFile
        /\ panel'.currentFile \in panel'.disk \cap Markdown
        => Reveals(panel', panel'.currentFile) ]_vars
=============================================================================
