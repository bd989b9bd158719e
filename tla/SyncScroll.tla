----------------------------- MODULE SyncScroll -----------------------------
(***************************************************************************)
(* SyncScrollController: the editor and the preview scroll together.  The  *)
(* preview reports its own scrolls at once, by callback; Scintilla reports *)
(* any scroll of the editor, the controller's included, later and once     *)
(* (SCN_UPDATEUI), so the controller must tell an echo from the user.      *)
(*                                                                         *)
(* m_activeSource is not modelled: it is None between two handlers.        *)
(***************************************************************************)
EXTENDS SyncPositions

CONSTANTS
    Layouts,    \* the layouts the preview may show
    LastTop,    \* the last line the editor can have at its top
    ViewHeight  \* of the preview, in the unit of the layouts

ASSUME LastTopAssumption == LastTop \in Nat \ {0}
ASSUME ViewHeightAssumption == ViewHeight \in Nat

VARIABLES
    editor,     \* first visible line of the editor
    preview,    \* m_scrollPos of the preview
    blocks,     \* the layout the preview shows
    enabled,    \* m_enabled: split view and the setting
    lastEditorLine, lastPreviewLine,    \* -1 when forgotten
    pending,    \* a scroll of the editor is not reported yet
    ownMove,    \* the editor was scrolled by other than the controller since it last knew (history)
    synced      \* a pane followed the other since the layout or the settings changed (history)

syncVars == <<editor, preview, blocks, enabled, lastEditorLine, lastPreviewLine, pending, ownMove, synced>>

MaxScroll(b) == IF b = <<>> THEN 0 ELSE Max({0, b[Len(b)].bottom - ViewHeight})

\* PreviewView::ScrollToLine.
ScrollToLine(line) == Min({GetScrollYForLine(blocks, line), MaxScroll(blocks)})

\* EditorView::ScrollToDocLine: where the editor lands.
ScrollToDocLine(line) == Min({Max({1, line}), LastTop})

SyncInit ==
    /\ editor = 1
    /\ preview = 0
    /\ blocks = <<>>
    /\ enabled \in BOOLEAN
    /\ lastEditorLine = -1
    /\ lastPreviewLine = -1
    /\ pending = FALSE
    /\ ownMove = FALSE
    /\ synced = FALSE

\* The user scrolls the editor, or the caret does.
ScrollEditor(line) ==
    /\ line # editor
    /\ editor' = line
    /\ pending' = TRUE
    /\ ownMove' = TRUE
    /\ UNCHANGED <<preview, blocks, enabled, lastEditorLine, lastPreviewLine, synced>>

\* Mutant: does not note which line the preview shows now.
FollowEditorOnly ==
    /\ lastEditorLine' = editor
    /\ preview' = ScrollToLine(editor)
    /\ synced' = TRUE
    /\ UNCHANGED lastPreviewLine

\* The preview follows the editor.
FollowEditor ==
    /\ lastEditorLine' = editor
    /\ preview' = ScrollToLine(editor)
    /\ lastPreviewLine' = GetLineForScrollY(blocks, preview')
    /\ synced' = TRUE

\* SCN_UPDATEUI.
OnEditorScrolled ==
    /\ pending
    /\ pending' = FALSE
    /\ ownMove' = FALSE
    /\ IF enabled /\ editor # lastEditorLine
       THEN FollowEditor
       ELSE UNCHANGED <<preview, lastEditorLine, lastPreviewLine, synced>>
    /\ UNCHANGED <<editor, blocks, enabled>>

\* Mutant: takes the line asked for, not the one the editor landed on.
FollowPreviewAsAsked(line) ==
    /\ lastPreviewLine' = line
    /\ editor' = ScrollToDocLine(line)
    /\ lastEditorLine' = line
    /\ pending' = (pending \/ editor' # editor)
    /\ ownMove' = FALSE
    /\ synced' = TRUE

\* The editor follows the preview, and where it landed is remembered.
FollowPreview(line) ==
    /\ lastPreviewLine' = line
    /\ editor' = ScrollToDocLine(line)
    /\ lastEditorLine' = editor'
    /\ pending' = (pending \/ editor' # editor)
    /\ ownMove' = FALSE
    /\ synced' = TRUE

\* The user scrolls the preview: ScrollTo with its callback, OnPreviewScrolled.
ScrollPreview(y) ==
    /\ y # preview
    /\ preview' = y
    /\ IF enabled /\ GetLineForScrollY(blocks, y) # lastPreviewLine
       THEN FollowPreview(GetLineForScrollY(blocks, y))
       ELSE UNCHANGED <<editor, lastEditorLine, lastPreviewLine, pending, ownMove, synced>>
    /\ UNCHANGED <<blocks, enabled>>

\* A new tree, or another width: UpdateScrollbars keeps the position within the document and
\* calls nobody back.
Relayout ==
    /\ blocks' \in Layouts
    /\ preview' = Min({preview, MaxScroll(blocks')})
    /\ synced' = FALSE
    /\ UNCHANGED <<editor, enabled, lastEditorLine, lastPreviewLine, pending, ownMove>>

Reset ==
    /\ lastEditorLine' = -1
    /\ lastPreviewLine' = -1
    /\ synced' = FALSE

\* SetEnabled, from the view mode or the setting.
SetEnabled ==
    /\ enabled' \in BOOLEAN
    /\ Reset
    /\ ownMove' = TRUE
    /\ UNCHANGED <<editor, preview, blocks, pending>>

\* OpenFile and NewFile: both panes go to the top.
ShowDocument ==
    /\ editor' = 1
    /\ preview' = 0
    /\ pending' = (pending \/ editor # 1)
    /\ Reset
    /\ ownMove' = TRUE
    /\ UNCHANGED <<blocks, enabled>>

SyncNext ==
    \/ \E line \in 1 .. LastTop : ScrollEditor(line)
    \/ OnEditorScrolled
    \/ \E y \in 0 .. MaxScroll(blocks) : ScrollPreview(y)
    \/ Relayout
    \/ SetEnabled
    \/ ShowDocument

SyncSpec == SyncInit /\ [][SyncNext]_syncVars

-----------------------------------------------------------------------------

\* The report of a scroll the controller made does not move the preview: no bounce ("cero
\* oscilaciones").
EchoMovesNothing == [][OnEditorScrolled /\ preview' # preview => ownMove]_syncVars

\* Once the editor's scrolls are reported, one pane shows the line the other is at, up to
\* the positions within that line and to where the editor's end lets it go.
InStep ==
    synced /\ ~ownMove =>
        \/ GetLineForScrollY(blocks, preview) = GetLineForScrollY(blocks, ScrollToLine(editor))
        \/ editor = ScrollToDocLine(GetLineForScrollY(blocks, preview))
=============================================================================
