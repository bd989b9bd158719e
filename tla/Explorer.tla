------------------------------ MODULE Explorer ------------------------------
(***************************************************************************)
(* The file explorer panel: a tree with the subfolders and Markdown files  *)
(* of a root folder, read from disk folder by folder.  The disk changes    *)
(* behind it, it reads nothing while it is hidden, and what its            *)
(* notifications ask for is posted and runs later.                         *)
(*                                                                         *)
(* A path is the sequence of its names below the computer, so the folder   *)
(* that contains it is its front; no path, no item and a drive's parent    *)
(* are all None.  Names compare without case: two spellings are one path.  *)
(* A tree item stands for the path of its node.                            *)
(***************************************************************************)
EXTENDS Naturals, Sequences, SequencesExt, FiniteSets

CONSTANTS
    Folder, Markdown, OtherFile, \* the paths there can be, by what they name
    LeftOut,                     \* the folders that are hidden or hold version control data
    Changing,                    \* the paths other programs create and delete
    InitialDisk,                 \* the paths that exist at the start
    SegmentWidth,                \* the pixels a folder's name takes in the path bar
    SeparatorWidth, OverflowWidth \* those of the chevron between two names, and of the overflow button

None == <<>>
Path == Folder \cup Markdown \cup OtherFile

\* parent_path; the top of a drive has none.
ParentOf(p) == IF p = None THEN None ELSE Front(p)

\* A path names either a folder or a file; a drive is a folder, and so is all on the way to a path,
\* which exists if the path does.
ASSUME PathAssumption ==
    /\ None \notin Path /\ Path \subseteq Seq(UNION {Range(p) : p \in Path})
    /\ \A p \in Path : \A n \in 1 .. Len(p) - 1 :
          SubSeq(p, 1, n) \in Folder /\ (p \in InitialDisk => SubSeq(p, 1, n) \in InitialDisk)
    /\ \A p \in Markdown \cup OtherFile : Len(p) > 1
    /\ Folder \cap Markdown = {} /\ Folder \cap OtherFile = {} /\ Markdown \cap OtherFile = {}
    /\ SegmentWidth \in [Folder -> Nat] /\ SeparatorWidth \in Nat /\ OverflowWidth \in Nat
    /\ LeftOut \subseteq Folder /\ Changing \subseteq Path /\ InitialDisk \subseteq Path

VARIABLES
    panel,      \* the panel's members, its tree, and the disk it reads: the paths that exist
    shown,      \* IsShown
    barWidth,   \* the pixels the path bar has for its segments
    pressed     \* m_pressed: the segment of the path bar under the mouse button

explorerVars == <<panel, shown, barWidth, pressed>>

IsWithinFolder(p, folder) == p # None /\ folder # None /\ IsPrefix(folder, p)
Below(folder) == {p \in Path : IsWithinFolder(p, folder) /\ p # folder}

-----------------------------------------------------------------------------
(* Reading folders. *)

\* Whether a folder that is read shows p.
Listable(t, p) == p \in t.disk /\ (p \in Markdown \/ p \in Folder \ LeftOut)

Readable(t, folder) == folder \in Folder \cap t.disk
ListFolder(t, folder) == {p \in Below(folder) : Len(p) = Len(folder) + 1 /\ Listable(t, p)}

-----------------------------------------------------------------------------
(* The path bar: the folders from the top of the drive to the root, the    *)
(* root last; those that do not fit are in the overflow menu.              *)

FolderChain(folder) == [i \in 1..Len(folder) |-> SubSeq(folder, 1, i)]

\* The pixels of the segments from the first-th on.
SegmentsWidth(folder, first) ==
    FoldFunctionOnSet(+, SeparatorWidth * (Len(folder) - first),
                      [i \in 1..Len(folder) |-> SegmentWidth[FolderChain(folder)[i]]], first..Len(folder))

\* Whether the segments from the first-th on fit beside the overflow button; the root always shows.
FitFrom(folder, first, available) ==
    first = Len(folder) \/ OverflowWidth + SeparatorWidth + SegmentsWidth(folder, first) <= available

\* FirstVisibleSegment, counting from 1: the overflow button stands for the segments before it, and
\* the first segment never comes back with it.
FirstVisibleSegment(folder, available) ==
    IF Len(folder) <= 1 \/ SegmentsWidth(folder, 1) <= available THEN 1
    ELSE CHOOSE first \in 2..Len(folder) :
            FitFrom(folder, first, available) /\ \A other \in 2 .. first - 1 : ~FitFrom(folder, other, available)

-----------------------------------------------------------------------------
(* The tree.  InsertEntries inserts the entries of a folder and expands    *)
(* those that were left expanded, which inserts theirs: so an entry is     *)
(* inserted exactly if every folder on the way to it was left expanded.    *)

Expanded(t, folder) == folder \in t.expanded

Inserted(t, folder) ==
    {p \in Below(folder) : Listable(t, p) /\
        \A n \in Len(folder) + 1 .. Len(p) - 1 :
            Listable(t, SubSeq(p, 1, n)) /\ Expanded(t, SubSeq(p, 1, n))}

AddEntries(t, new) ==
    [t EXCEPT !.items = @ \cup new,
              !.loaded = @ \cup {f \in new \cap Folder : Expanded(t, f)},
              !.open = @ \cup {f \in new \cap Folder : Expanded(t, f) /\ ListFolder(t, f) # {}},
              !.bold = @ \cup (new \cap {t.currentFile}),
              !.currentItem = IF t.currentFile \in new THEN t.currentFile ELSE @]

InsertEntries(t, folder) == AddEntries(t, Inserted(t, folder))

EnsureLoaded(t, folder) ==
    IF folder \in t.loaded THEN t
    ELSE InsertEntries([t EXCEPT !.loaded = @ \cup {folder}], folder)

\* TVM_EXPAND: an item without children stays as it is.
TreeExpand(t, folder) ==
    IF Below(folder) \cap t.items = {} THEN t ELSE [t EXCEPT !.open = @ \cup {folder}]

AddExpanded(t, folders) == [t EXCEPT !.expanded = @ \cup folders]
RemoveExpanded(t, folder) == [t EXCEPT !.expanded = @ \ {folder}]

ExpandItem(t, folder) == AddExpanded(TreeExpand(EnsureLoaded(t, folder), folder), {folder})

TreeCollapse(t, folder) == [t EXCEPT !.open = @ \ {folder}]

\* A mutant: the handle of the bold item outlives it.
DeleteItemsButHandle(t, gone) ==
    [t EXCEPT !.items = @ \ gone, !.loaded = @ \ gone, !.open = @ \ gone, !.bold = @ \ gone]

\* TVN_DELETEITEM of every item below a folder, or of every item.
DeleteItems(t, gone) ==
    [t EXCEPT !.items = @ \ gone, !.loaded = @ \ gone, !.open = @ \ gone, !.bold = @ \ gone,
              !.currentItem = IF @ \in gone THEN None ELSE @]

FillRoot(t) ==
    IF t.root = None \/ ~Readable(t, t.root) \/ ListFolder(t, t.root) = {}
    THEN [t EXCEPT !.placeholder = TRUE]
    ELSE InsertEntries(t, t.root)

Rebuild(t) == FillRoot([DeleteItems(t, t.items) EXCEPT !.stale = FALSE, !.placeholder = FALSE])

\* A folder of the tree as if it had not been read.
Unread(t, folder) ==
    [DeleteItems(TreeCollapse(t, folder), Below(folder)) EXCEPT !.loaded = @ \ {folder}]

\* Reads a folder of the tree again; the root's entries are the whole tree.
Relist(t, folder) ==
    IF folder = t.root THEN Rebuild(t)
    ELSE IF folder \notin t.loaded THEN t
    ELSE IF folder \in t.open THEN ExpandItem(Unread(t, folder), folder)
    ELSE Unread(t, folder)

-----------------------------------------------------------------------------
(* Finding the item of a path: one step per folder on the way to it.       *)

\* What FindItem knows after it went through the first names of the path.
Search(t, item, fresh, folderShown) ==
    [tree |-> t, item |-> item, fresh |-> fresh, folderShown |-> folderShown]

\* A mutant: a folder is never read anew.
NeverReread(s, here, path) == s.tree

\* An entry that is not there is looked for again in the folder read anew, unless it was just read.
Sought(s, here, path) ==
    IF here \notin s.tree.items /\ ~s.fresh /\ (here # path \/ path \in Markdown)
    THEN Relist(s.tree, ParentOf(here))
    ELSE s.tree

Enter(t, here, path) ==
    CASE here \notin t.items -> Search(t, None, FALSE, here = path)
      [] here \in t.items /\ here = path -> Search(t, here, FALSE, TRUE)
      [] OTHER -> Search(ExpandItem(t, here), here, here \notin t.loaded, FALSE)

\* One step: nothing is looked for below a name that was not found.
GoDown(s, here, path) == IF s.item = None THEN s ELSE Enter(Sought(s, here, path), here, path)

\* FindItem with the folders on the way expanded; without, it only finds what to select.  The loop
\* goes over the names of the path below the root.
FindItem(t, path) ==
    LET Found[n \in Nat] ==
            IF n = 0 THEN Search(t, t.root, FALSE, FALSE)
            ELSE GoDown(Found[n - 1], SubSeq(path, 1, Len(t.root) + n), path)
    IN  Found[Len(path) - Len(t.root)]

SetBoldItem(t, item) ==
    IF item = t.currentItem THEN t
    ELSE [t EXCEPT !.bold = (@ \ {t.currentItem}) \cup ({item} \ {None}), !.currentItem = item]

Revealed(s) == Search(SetBoldItem(s.tree, s.item), s.item, s.fresh, s.folderShown)

RevealCurrentFile(t) ==
    IF t.currentFile = None \/ t.root = None \/ ~IsWithinFolder(t.currentFile, t.root)
    THEN Search(SetBoldItem(t, None), None, FALSE, TRUE)
    ELSE Revealed(FindItem(t, t.currentFile))

\* UpdateSegments drops the press on the path bar; the members it sets are functions of the root.
SetRoot(t, folder) == [t EXCEPT !.root = folder]

\* A document in a folder the tree leaves out makes its folder the root.
ShowIfRevealed(s) ==
    IF s.folderShown THEN s.tree
    ELSE RevealCurrentFile(Rebuild(SetRoot(s.tree, ParentOf(s.tree.currentFile)))).tree
ShowCurrentFile(t) == ShowIfRevealed(RevealCurrentFile(t))

-----------------------------------------------------------------------------
(* The panel's interface. *)

\* Going up keeps the way down to the previous root open.
WayDown(from, to) ==
    IF IsWithinFolder(from, to) THEN {SubSeq(from, 1, n) : n \in Len(to) + 1 .. Len(from)} ELSE {}

NewRoot(t, folder, isShown) ==
    IF folder = t.root THEN t
    ELSE LET moved == SetRoot(AddExpanded(t, WayDown(t.root, folder)), folder) IN
         IF isShown THEN Rebuild(moved) ELSE [moved EXCEPT !.stale = TRUE]

RefreshTree(t, isShown) == IF isShown THEN Rebuild(t) ELSE [t EXCEPT !.stale = TRUE]

RebuildIfStale(t) == IF t.stale THEN Rebuild(t) ELSE t

\* The tree once the current file changed, or was saved where it was.
Follow(t, file, changed, isShown) ==
    CASE file = None -> SetBoldItem(t, None)
      [] file # None /\ IsWithinFolder(ParentOf(file), t.root) /\ ~changed -> t
      [] OTHER ->
            LET u == IF IsWithinFolder(ParentOf(file), t.root) THEN t ELSE NewRoot(t, ParentOf(file), isShown)
            IN  IF isShown THEN ShowCurrentFile(RebuildIfStale(u)) ELSE [u EXCEPT !.stale = TRUE]

CurrentFile(t, file, isShown) ==
    Follow([t EXCEPT !.currentFile = file], file, file # t.currentFile, isShown)

\* WM_WINDOWPOSCHANGED and WM_SHOWWINDOW: nothing was read from disk while the panel was hidden.
Appear(t) == IF t.stale THEN ShowCurrentFile(Rebuild(t)) ELSE t

\* The tree the panel has after its root, and with it the path bar, changed: the press is dropped.
Become(t) ==
    /\ panel' = t
    /\ pressed' = IF t.root = panel.root THEN pressed ELSE None

EmptyPanel(d) ==
    [disk |-> d, root |-> None, currentFile |-> None, stale |-> FALSE, expanded |-> {}, currentItem |-> None,
     items |-> {}, loaded |-> {}, open |-> {}, bold |-> {}, placeholder |-> TRUE]

\* A new panel, which its window gives the folder of the last session and then the document, if any.
StartedPanel(d, folder, file, isShown) ==
    IF file = None THEN NewRoot(EmptyPanel(d), folder, isShown)
    ELSE CurrentFile(NewRoot(EmptyPanel(d), folder, isShown), file, isShown)

-----------------------------------------------------------------------------
(* What other programs and the rest of Pluma do. *)

\* Another program creates a file or folder, or deletes one with all that is in it.
DiskChanges ==
    \E p \in Changing :
        /\ panel' = IF p \in panel.disk THEN [panel EXCEPT !.disk = @ \ ({p} \cup Below(p))]
                    ELSE [panel EXCEPT !.disk = @ \cup {p}]
        /\ p \in panel.disk \/ ParentOf(p) \in panel.disk
        /\ UNCHANGED <<shown, barWidth, pressed>>

\* A document is opened from the menu, a link or a drop, or a new one is begun (None).
OpenDocument ==
    \E f \in ((Markdown \cup OtherFile) \cap panel.disk) \cup {None} :
        /\ Become(CurrentFile(panel, f, shown))
        /\ UNCHANGED <<shown, barWidth>>

\* WriteCurrentDocument, to the document's file or another: the panel is told once it is written.
SaveDocument ==
    \E f \in Markdown \cup OtherFile :
        /\ ParentOf(f) \in panel.disk
        /\ Become(CurrentFile([panel EXCEPT !.disk = @ \cup {f}], f, shown))
        /\ UNCHANGED <<shown, barWidth>>

\* ChooseRootFolder: the picker is modal.
FolderPicked(folder) ==
    /\ Become(NewRoot(panel, folder, shown))
    /\ UNCHANGED <<shown, barWidth>>

-----------------------------------------------------------------------------
(* The tree.  What a notification asks for is posted, and handled before   *)
(* the next key or click: posted messages come before input.               *)

\* TVN_ITEMEXPANDING reads the folder, TVN_ITEMEXPANDED remembers it.
UserExpands ==
    \E f \in (panel.items \cap Folder) \ panel.open :
        /\ LET t == TreeExpand(EnsureLoaded(panel, f), f) IN
           panel' = IF f \in t.open THEN AddExpanded(t, {f}) ELSE t
        /\ UNCHANGED <<shown, barWidth, pressed>>

UserCollapses ==
    \E f \in panel.open :
        /\ panel' = RemoveExpanded(TreeCollapse(panel, f), f)
        /\ UNCHANGED <<shown, barWidth, pressed>>

\* m_onOpenFile, for a double click, Enter and "Abrir": the file is opened if it still exists.
UserOpens ==
    \E f \in panel.items \ Folder :
        /\ f \in panel.disk
        /\ Become(CurrentFile(panel, f, shown))
        /\ UNCHANGED <<shown, barWidth>>

\* Enter on a folder.
ToggleItem ==
    \E f \in panel.items \cap Folder :
        /\ panel' = IF f \in panel.open THEN RemoveExpanded(TreeCollapse(panel, f), f) ELSE ExpandItem(panel, f)
        /\ UNCHANGED <<shown, barWidth, pressed>>

GoTo(folder) ==
    /\ Become(NewRoot(panel, folder, shown))
    /\ UNCHANGED <<shown, barWidth>>

\* The up button and Alt+Up; "Entrar en la carpeta"; a folder of the overflow menu.
GoUp == Len(panel.root) >= 2 /\ GoTo(ParentOf(panel.root))
EnterFolder == \E f \in panel.items \cap Folder : GoTo(f)
OverflowMenu ==
    \E i \in 1 .. FirstVisibleSegment(panel.root, barWidth) - 1 : GoTo(FolderChain(panel.root)[i])

\* F5 and the refresh button.
Refresh ==
    /\ panel' = RefreshTree(panel, shown)
    /\ UNCHANGED <<shown, barWidth, pressed>>

-----------------------------------------------------------------------------
(* A press on the path bar acts when it is released on the target it began *)
(* on, and not if the folders of the bar changed in between.               *)

\* HitTest: the segments that are shown; the last one is the root itself and does nothing.
\* The folder the segment showed when it was pressed is kept beside its index (a history variable).
Segment(i) == [index |-> i, folder |-> FolderChain(panel.root)[i]]
Targets == {Segment(i) : i \in FirstVisibleSegment(panel.root, barWidth) .. Len(panel.root) - 1}

Press ==
    \E target \in Targets :
        /\ pressed = None
        /\ pressed' = target
        /\ UNCHANGED <<panel, shown, barWidth>>

\* WM_CAPTURECHANGED, or the button is released elsewhere.
LoseCapture ==
    /\ pressed # None
    /\ pressed' = None
    /\ UNCHANGED <<panel, shown, barWidth>>

Release ==
    /\ pressed # None
    /\ pressed.index \in {target.index : target \in Targets}
    /\ pressed' = None
    /\ panel' = NewRoot(panel, FolderChain(panel.root)[pressed.index], shown)
    /\ UNCHANGED <<shown, barWidth>>

\* The user works on the panel.
UserActs ==
    \/ UserExpands \/ UserCollapses \/ UserOpens \/ ToggleItem
    \/ GoUp \/ EnterFolder \/ OverflowMenu \/ Refresh
    \/ Press \/ LoseCapture \/ Release
    \/ \E folder \in Folder \cap panel.disk : FolderPicked(folder)
=============================================================================
