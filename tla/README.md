# A verification of Pluma

Pluma is a Markdown editor for Windows: one C++20 program, one process per window, a Scintilla
editor beside a Direct2D preview. These TLA+ modules model the parts of it where order, failure
and nesting decide whether the user's text survives; TLC checks them on small instances and TLAPS
proves the central ones for every instance. Paths below are relative to `src/src/`.

## 1. The system

| Component | Keeps | Does | Hard because |
|---|---|---|---|
| Main window (`app/main.cpp`) | path, encoding, save point, versions of text and preview, view mode | dispatches messages and commands, asks before the document goes | modal dialogs run message loops inside handlers, so handlers nest |
| Parse worker (`markdown/parse_worker.cpp`) | pending text and version, stop token, lock, condition variable | debounces, parses on its own thread, posts trees | two threads, a lossy wake-up, ownership in a message queue |
| Markdown adapter (`markdown/md4c_adapter.cpp`, `block_tree.cpp`) | stack of open blocks and spans | turns md4c's callbacks into a tree with source offsets | offsets must match the text |
| Preview (`preview/*.cpp`) | tree, layout, scroll, selection | lays out, draws, hit-tests, selects | the tree may be replaced in the middle of anything |
| Synchronised scrolling (`sync/sync_scroll.cpp`) | last line of each pane | makes one pane follow the other | the editor reports late, the echo must not bounce |
| Files (`io/document_io.cpp`) | nothing | recognises encoding and breaks, encodes, replaces atomically | crashes, failures, other processes |
| Editor (`editor/*.cpp`) | Scintilla | text, find and replace, task marks, formatting | offsets, code pages, undo |
| Outline, explorer (`outline/`, `explorer/`) | headings; folders read by worker threads | show, navigate, reload | results of old requests |
| Update (`update/*.cpp`, `app/update_ui.cpp`) | check running, download state | checks, downloads, verifies, installs | threads, cancel, other windows |
| Diagrams (`diagram/*.cpp`) | nothing | Mermaid to a scene: parse, layered layout, shapes | long pure algorithms |
| Export (`export/*.cpp`) | pages and the place on them, while it writes | HTML and PDF | page breaks, repeated headers |
| Settings (`config/settings.cpp`, `app/settings_dialog.cpp`) | the user's choices | load, validate, save | several windows, one file |
| Platform (`platform/*.cpp`) | nothing | theme, DPI, clipboard, associations | thin wrappers |

The editor tells the main window of changes (`SCN_MODIFIED`), which posts itself one coalescing
`WM_APP_REPARSE`, which hands a numbered snapshot to the worker, which posts a tree back
(`WM_USER_PARSE_COMPLETE`), which the preview and the outline show. Source offsets in the tree come
back as callbacks (toggle a task, copy as Markdown, edit here), and are valid only for the text they
were parsed from. Scrolls go from pane to pane by callback and by late notification. Files are
touched only through `document_io`. Update results arrive as messages, at any time, also inside the
loop of a modal dialog. Other windows are other processes that share files, settings and the
download folder, and no lock.

What makes each part correct is the list of properties in section 3; what can go wrong, line by
line, is under `hazards` in `PROJECT.json`.

## 2. Modules and the code

| Module | Models | Correspondence |
|---|---|---|
| `ParsePipeline` | `ParseWorker`, and the handlers of `MainWindow` it works with | one action per lock-to-lock step of `WorkerLoop`, per handler of the window, and per call of `Stop` |
| `PreviewContract` | what the pipeline promises | abstract |
| `AtomicSave` | `WriteDocumentAtomic` | one action per Windows call; the file system, crashes and loss of power are external |
| `AtomicFile` | what a save promises | abstract |
| `DocumentFormat` | `ReadDocument`, the encoding half of `WriteDocumentAtomic`, `WriteCurrentDocument` | pure functions on bytes, UTF-16 units and code points; open, edit, save |
| `Session` | opening, saving, closing, Replace All, the update prompts | the stack `dialogs` is the C++ stack of handlers that wait in a modal loop |
| `SyncPositions` | `GetScrollYForLine`, `GetLineForScrollY` | functions of the blocks of a layout |
| `SyncScroll` | `SyncScrollController` and the two panes | one action per notification and per cause of a scroll; the specification is `SyncSpec` |
| `UpdateDownload` | `DownloadInstaller`, `Transfer`, `DownloadInstallerWithProgress` | one process per window; worker actions between two points where another thread or window can interfere |
| `Explorer` | `FileExplorerPanel` | one action per user action and notification; a tree item is the path of its node, names without case |
| `Toolbar` | `Toolbar::Layout` | which items fit, which go to the overflow menu; parameters are the items |
| `Window` | `ComputeLayout`, dividers, the layout's settings, starting and closing | extends `Explorer` and `Toolbar`: the layout decides whether the explorer is shown and how wide its path bar is |
| `MarkdownFormat` | `markdown_format.cpp` | operators on lines of tokens |
| `Editor` | the formatting, inserting, finding and replacing commands of `EditorView` | one action per command on text and selection; Scintilla is external |
| `Markdown` | `Md4cAdapter::Parse`, finishing of blocks, shortcodes, slugs | one operator a callback; a document is the list of md4c's callbacks |
| `PreviewLayout` | `LayoutEngine`: boxes, text units | one operator a kind of block; `LayoutNode` visits the blocks in the order of the document with an explicit stack of the open ones, where the code recurses |
| `PreviewText` | characters, words and links under a point; source of a position and of a selection; search | pure operators of a layout |
| `Outline` | `OutlinePanel` | one action a notification; a click posts a message handled later |
| `Preview` | the preview and the outline beside the editor, with trees that arrive late; printing | extends `PreviewText`, `Outline`, `SyncPositions`, `PdfPages`; one action a mouse message, command or tree |
| `PdfPages` | the page writer `PdfWriter` | one action for each thing asked for, and for each turn of the loops over code and rows; the specification is `PdfSpec` |
| `PdfFlow` | what every block asks of the page writer; wrapping of text | operators of a tree, in the order of `RenderBlocks` |
| `LayoutGraph` | `LGraph`, the compound multigraph | nodes and edges numbered as in the code, -1 written 0; a removed one stays, not alive |
| `NetworkSimplex` | `NetworkSimplex` | the ranking: longest path, tight tree, cut values, exchanges |
| `LayoutRanks` | the stages of `Layouter` up to `AddBorderSegments` | one operator a stage, from graph to graph |
| `LayoutOrder` | crossing minimisation | one operator a function; a sweep goes over all layers |
| `LayoutPosition` | Brandes-Koepf placement and `Finish` | lengths in eighths of the code's unit, so that halves and quarters are exact |
| `GraphLayout` | `Layouter::Run` | one action a stage; the loops of the ranking and of the ordering a turn at a time |
| `MermaidFlow` | flowcharts and state diagrams, read, retargeted, measured, framed | one action a statement, then the stages of `GraphLayout` |
| `MermaidSequence` | sequence diagrams, read, placed, drawn | one action a line and one an event |
| `Mermaid` | `RenderMermaid` | the two, by the header of the block |

`MC*` modules give the constants their values, where the configuration cannot; `*_proofs` modules hold
the theorems: those of `SyncScroll` are in `Editor_proofs`, those of `PdfPages` in `Preview_proofs`.
`map` in `PROJECT.json` has no row for the shortest helpers: they stand under the
definition that uses them.

**ParsePipeline.** `ui` says where the UI thread is: idle in the message loop, in `RequestParse`
waiting for the lock, or in one of the three steps of `WM_DESTROY`. `wpc` is the worker's place,
with the lock held explicitly from `AcquireLock` to `Check` or `Sleep`, because the missing lock in
`Stop` is the point. A request is `pending` or not; `due` abstracts the clock: the debounce of the
pending request has passed or not, `immediate` requests are due at once. A tree is known by the
snapshot it was parsed from. The queue holds only the two messages of interest. `SetDocument` may
leave a `WM_APP_REPARSE` behind it, because `SetText` notifies before `TriggerParse` clears the flag.

**AtomicSave.** A file has data and a flushed bit. Any call may fail; a process may die between any
two; a loss of power keeps flushed data and any part of the rest; another program may delete the
document. `ReplaceFileW` is taken to be all or nothing.

**DocumentFormat.** Bytes are numbers. The loops of the code that walk over bytes (`DetectLineEnding`,
`NormalizeLineEndings`, `IsValidUtf8`, and the conversions of Windows) each take one step of one, two or
more bytes: `Pieces` cuts a sequence into those steps, and each loop is what it does with a piece.
Windows conversions are modelled by what they do (replacement characters, unused bytes of 1252
mapped to themselves, best fit not modelled: a lossy save counts as "substituted").

**Session.** A document's text is a number; editing makes a new one. Dialogs are answered innermost
first. The modeless Find and Replace dialog is a window of its own and stays usable while the main
window is disabled (`ReplaceUnderDialogs`). Undo is not modelled: a text once made is not made again.

**SyncScroll.** `pending` is the report Scintilla still owes. Heights are integers in a unit that
makes the interpolations exact; the code uses floats, whose rounding is not modelled.

**UpdateDownload.** A file is the set of chunks it holds; a file that somebody has open, to write it or
for its checksum, can be opened by others but not renamed, replaced or removed, as the C++ library
opens files on Windows. Between finding an earlier installer, opening it, comparing its checksum and
removing it (`Look`, `Open`, `Reuse`, `Discard`), and between the same steps of the partial file
(`Verify`, `Compare`, `Rename`), the other windows may do anything. `ReadFails` says whether a file may
be one that cannot be read.

**Window and Explorer.** Pixels and logical pixels are integers, the split ratio is a fraction, and
`MulDiv` rounds as Windows does. `Close` writes what `SerializeSettings` writes (the ratio in
thousandths) and `Start` reads it through the limits of `ParseSettings`. The panel's record holds the
folders read (`loaded`), the items, what the control shows open, what the panel remembers as expanded,
the bold items and the handle `currentItem`. The disk changes at any time; nothing tells the panel.

**Editor.** A text is a sequence of tokens (marks, words, blanks, line endings); a position is the
number of tokens before it. A token stands for what the code looks at as a whole.

**Markdown, PreviewLayout, PreviewText.** A byte is a token; a letter of two bytes, an entity and an
emoji of two UTF-16 units are there because the offsets differ. Letters are equally wide. `Parse`
folds the callbacks of md4c over stacks of open blocks and spans; every run of text keeps the place
in the source it came from. What a layout keeps (boxes, units, anchors, the blocks that scroll with the
editor, its height) is a record; what is drawn is not in it.

**Preview.** `doc` is the editor's text, `parsing` the texts whose trees are on their way, `shown`
the one whose tree is laid out. A text is a document and the tasks toggled in it. `reparsePosted` is
the flag that says that offsets may not be used. A selection has its anchor, focus, mode and the
range the drag began with. The trees of the documents are built once (`Trees`): a parse depends on the
text alone. Between `Trees` and the variables stand the facts the window takes from the layout of one
tree (`IsLayout`, `SameTexts`), which two assumptions state and every run evaluates. The preview prints
from `doc`, on the window's thread, and only reads.

**PdfPages and PdfFlow.** What a block wants printed becomes a sequence of things asked for (a gap,
a line, room, a code box, a row ...), because the page breaks depend on nothing else; the writer's
pen is `page` and `down`. Lengths are hundredths of a point, and all letters of a size are equally
wide. Splitting the exporter there lets `PdfPages` be proved about for every sequence asked for.

**GraphLayout and Mermaid.** The diagram is chosen in the initial state and everything after is
determined by it, or, for sequence diagrams, by the lines read. Lists of the code that are always
kept in the order of insertion are computed from the numbers. Lengths are eighths (graphs) or halves
(sequences) of a DIP: with the sizes of the run every division but those of an ellipse is exact. A
statement is a record; how a line of text is taken apart is not modelled.

## 3. What is checked

| Run | Bounds | Shows |
|---|---|---|
| `ParsePipeline` | 2 texts, 2 changes | `OffsetsValid`, `NoTreeLeak`, `PreviewCatchesUp`, `StopReturnsUnlessMissed`, `RefinesContract`; 68,160 states with liveness |
| `AtomicSave` | 2 processes, 2 contents, 3 saves | `NeverTorn`, `NoStrayTemp`, implements `AtomicFile` |
| `DocumentFormat` | every file of up to 4 bytes out of 7, after any mark; 1 edit | `RoundTrip`, `SavedTextComesBack` |
| `Session` | 2 paths, one missing; 3 texts | `UnmodifiedMeansKept`, `NothingIsLost` |
| `SyncScroll` | 72 layouts, 3 lines in the editor | `InStep`, `EchoMovesNothing` |
| `UpdateDownload` | 2 windows, 2 chunks, files that may be unreadable | `HandedOverIsVerified`, `NothingLeftBehind`, `DownloadEnds`; 85,115 states |
| `Window` | 3 widths of the window, 2 places of a divider, 8 paths of which 2 come and go | `PanesTile`, `LayoutComesBack`, `TreeIsSound`, `FileIsRevealed`; 112,972 states |
| `Editor` | 12 texts, every selection, each command once | `InlineTogglesOff`, `LineFormatsHold`, `BlockStandsApart`, `FindsWhatIsThere`; 7,437 states |
| `Preview` | 11 documents read and printed, 2 of them used for 4 steps, 2 widths | nine properties, below; about 74,000 states |
| `Mermaid` | 731 graphs, 164 flowcharts and state diagrams, every sequence diagram of up to 4 of 16 lines | `RetargetingIsSound`, `BarsAndBlocksNest`, `TextKeepsClear`, `RankingIsSound`, `DrawingIsClear`, `FramesAreSound`; 295,158 states |
| `ParsePipelineStop` | 1 change | finding: `StopReturns` fails |
| `SessionSavePoint` | as `Session` | finding: `UnmodifiedMeansKeptAlways` fails |

*Why the bounds suffice.* Two changes are enough for a request to arrive before, during and after a
parse and for a `WM_APP_REPARSE` to outlive the edit that posted it; the proofs cover the rest. Two
saving processes and three saves give every overlap of a save with another, with a crash, and with
a second save by the same process. The seven bytes include the two breaks, an ASCII letter, the two
halves of a UTF-8 character that are also ANSI letters, and the high bytes of both surrogates. Two
paths and three texts let a document be opened, changed, saved elsewhere and replaced. Layouts of two
blocks have every kind of place: in a block, in a gap, after the end. Two windows and two chunks put
a failure, a cancellation and a second download at every point of a transfer.
The widths of the window are one where nothing but the content fits, one where some panels do and
one where all do; files are worked on at the middle one (`WorkWidths`), and layouts changed only
beside a panel in its first state (`PanelBound`), so the two products do not multiply. The paths
include a folder in a folder, a hidden one with a document, and a folder and a document that other
programs create and delete. The editor's texts have both line endings, every mark, items of two
levels, boxes, and matches that overlap; every command is tried at every selection, and commands act
only on text and selection, so one step suffices. The documents have every kind of block and span
the adapter knows, a shortcode, an entity, soft and hard breaks, a heading after a rule, loose and
nested items, tables with a cell wider than a page. Two documents are used, one with links, bold and
entities and one with tasks; four steps are a press, an edit, a tree and a release. The pages are so
low (65 to 120 points; one line for text alone) that each break comes at every kind of block. The
graphs are every graph of one or two edges over three nodes, in no subgraph, one, two side by side
and two nested, and eleven chosen so that the rest of the layout runs: cycles through a subgraph,
labels, edges of several ranks, loops with neighbours, layers that start crossed, a ranking that
needs exchanges. The flowcharts have two subgraphs, nested and side by side, that hold and link to
each other by name. Four lines of a sequence diagram nest two blocks or two bars.

*ParsePipeline.* `OffsetsValid`: whenever the preview may use its tree's offsets the editor holds the
text they belong to. `NoTreeLeak`: when the window is gone the worker is too and no tree is in the
queue. `PreviewCatchesUp`: a text that stays is eventually shown. Posting is reliable there. If the
message queue were full, `ScheduleParse` would leave `m_reparsePosted` false after an edit and
`OffsetsValid` would fail: set `PostOutcomes` to `BOOLEAN`.

*Session.* `NothingIsLost`: a document leaves the window only saved or deliberately discarded, unless
Replace made its text under an open dialog. `UnmodifiedMeansKept`: what has no modified mark is in its
file, with the same exception. The finding is the second without the exception.

*UpdateDownload.* `HandedOverIsVerified`: where an installer was handed over one finds the published
one (unless downloads overlapped: every window uses the same partial file, and it can change between
its verification and its renaming), or nothing if a window removed it (`swept`; a window that found an
earlier installer wrong removes what has its name by then), never another. `swept` is true only where
the window that removed it had computed the checksum of something else, or of nothing, so a window
that removes what it has found right is not excused. `NothingLeftBehind`, `DownloadEnds`. Cancel pressed after the last look at the flag still returns the installer, whatever
the comment in `update_ui.h` says.

*Window.* `PanesTile`: the panes that are shown lie side by side inside the window and leave nothing
uncovered, and toolbar items never run into those aligned right nor end in half a segmented control.
This holds in every window at least as wide as a divider and 100 pixels, and as the buttons on the
right and one more (`WideEnough`): below that the code gives each view its 50 pixels all the same
(`app/main.cpp:669-676`). `LayoutComesBack`: a window opens as it was closed. `TreeIsSound`: the tree, the
control and the panel's own memory agree, although nothing is read while it is hidden.
`FileIsRevealed`: the document that is opened is found in the tree, bold, with its folders open,
unless one of these was read when it was empty.

*Editor.* `InlineTogglesOff`: the marks one press of bold, italic, strikethrough or code puts on come off
with the next, and the same text is selected. `LineFormatsHold`: headings, quotes and lists touch only the selected lines, keep their endings
and the caret, are toggled as the comment in `markdown_format.h` says, and number as promised.
`BlockStandsApart`: a rule or a table has blank lines around it. `FindsWhatIsThere`: the search goes
round; what it misses is only a match that lies across the place it begins at.

*Preview.* `RefsAreLive`: the selection, and the link or task a pressed button began on, are in the
layout that is there, whatever arrived since the press. `CopiedIsShown`: what is copied as Markdown is the source of what is selected.
`WordsStayWhole`: a drag by words keeps whole words. `OutlineInStep`: items that were kept for new
headings are those headings. `SourceIsFound`: every letter shown leads back to its own bytes.
`BlocksInOrder`: lines and heights grow together. `FlowTellsAll`: every letter of the document is
printed, once and in order. `PagesAreSound`: nothing is printed over anything else or, but for rows too
high for what is left, below the foot of a page. `KeptTogether`: a heading stays with text below it,
an item's mark with its line, and no page is empty. The properties of a document by itself
(`SourceIsFound`, `BlocksInOrder`, `FlowTellsAll`) are evaluated in the states before the first step or
as printing begins.

*Mermaid.* `RetargetingIsSound`: links written to a subgraph reach a member of it (but where that is
the name of another subgraph), and no stray box remains with its name. `BarsAndBlocksNest`: bars of one lifeline nest, and so do frames of blocks.
`TextKeepsClear`: what is written about one participant, or between two, stays clear of the
lifelines beyond.
`RankingIsSound`: every turn of the ranking leaves all edges long enough and the tree spanning and
tight, and the loop ends because nothing improves, not because of its bound. `DrawingIsClear`: nodes
do not overlap and bends go rank by rank the right way, also along edges turned to break a cycle.
`FramesAreSound`: a frame holds its nodes, no others, and none of its siblings (with titles that
fit).

*Fairness.* Only what the system owes, in `ParsePipeline` and `UpdateDownload`: both threads are
scheduled, a mutex held for a moment is eventually granted (strong fairness on the two steps that
wait for it), time passes, calls with a timeout return. The user owes nothing: no fairness on
editing, opening, cancelling or closing. The other specifications state no fairness and no liveness.
Deadlock is not checked where the bound on steps, or the end of the work, stops the system.

## 4. Where the code and its documents disagree

Findings, with a run each:

1. *A lost wake-up hangs the window when it closes* (`markdown/parse_worker.cpp:19-25`): the token is
   set and the condition variable woken without the lock (`ParsePipelineStop`).
2. *A text that is not on disk loses its modified mark* when Replace All is used while the ANSI
   question is open (`app/main.cpp:341`, `SessionSavePoint`).

Others are stated beside the properties they limit, in a definition TLC refutes when it is put in the
run's configuration instead of its properties:

| Definition | In a run of | What the code does |
|---|---|---|
| `RoundTripByteForByte` | `DocumentFormat` | mixed line breaks are rewritten (`io/document_io.cpp:268`); `docs/DECISIONS.md:46` promises every byte |
| `SavedOrDiscardedFirst` | `Session` | the installer closes a document nobody asked about when Replace All is used under the box about other windows (`app/main.cpp:2125`, the comment at 2123) |
| `HandedOverIsThere` | `UpdateDownload`, `ReadFails = FALSE` | a window that found an earlier installer wrong removes what has its name by then, be it the one another window has verified and been handed over, whose launch then fails (`update/updater.cpp:90`; `update/updater.h:21` says that one with the right checksum is reused) |
| `OnlyDocumentIsBold` | `Window` | a second item stays bold (`explorer/file_explorer_panel.cpp:481`, the comment at `file_explorer_panel.h:72`) |
| `FileIsAlwaysRevealed` | `Window` | a folder read when it was empty has no children to expand |
| `ItalicKeepsBold` | `Editor` | italic takes a mark of bold for its own in the middle of one (`editor/editor_view.cpp:647`, `tests/unit/test_editor_view.cpp:246`) |
| `HeadingLineIsItsOwn` | `Preview`, `Docs <- RuleDocs` | a heading after a rule is put on the line of the rule (`markdown/md4c_adapter.cpp:336`, `docs/DECISIONS.md:106`) |
| `NoOrphanHeadings` | `Preview` | a heading stays alone when a higher row, a diagram or another heading follows (`export/pdf_exporter.cpp:625`, `docs/DECISIONS.md:81`) |
| `StrangersOutside` | a run of `MCGraphLayout`, `Inputs <- WideTitles` | a long title draws a subgraph's frame over a node beside it (`diagram/graph_layout.cpp:1843-1848`, `docs/DECISIONS.md:170`) |

Met while reading, and not in a model: each window writes the whole settings it holds (also the
preferences dialog, whose copy dates from when it was opened, `app/main.cpp:1925`), so a skipped
version or the day of the last check can be overwritten by another window; links to a subgraph whose
first member bears another subgraph's name are dropped (`diagram/mermaid_flowchart.cpp:151-201`); a
label of `state "L" as A` is lost once `A` is composite; an unclosed note swallows the rest of a state
diagram; a nested block with a long condition can stick out of its parent's frame; a position at the
edge of generated text loses that edge in "Editar aquí" (`app/main.cpp:928`); two headings' slugs can
collide (`a`, `a`, `a-1`); a single Replace ignores "whole word"; a row higher than a page loses what
is below its foot; `ExportToFile` truncates in place; code nested so deep that no width is left
converts a negative float to `size_t` (`export/pdf_exporter.cpp:877`).

## 5. What is proved

For every value of the constants (under the named assumptions of each module):

* `ParsePipeline_proofs`: `TypeCorrect`, `OffsetsAreValid` (if posting never fails),
  `DeliveryIsOrdered`, `ParsesAreCoalesced`, `NoTreeIsLeaked`, `ImplementsContract`. The inductive
  invariants say, beside the property: that every numbered snapshot anywhere is the one in the history
  `sent` at its number; that when no `WM_APP_REPARSE` is owed the last snapshot is the editor's text
  (this is what makes equal versions mean equal texts, and needs reliable posting); that the versions
  along display, queue, worker, pending request and `RequestParse` are sorted; and that a worker that
  is done holds no tree.
* `AtomicSave_proofs`: `TypeCorrect`, `TargetNeverTorn`, `NoTempIsLeft`, `ImplementsAtomicFile`. The
  invariant ties each place of `WriteDocumentAtomic` to its temporary file: whole after `Write`, whole
  and flushed after `Flush`, absent after a rename, and `installed` exactly when the save has renamed.
* `Session_proofs`: `SessionInvariant`, `UnmodifiedIsKept`, `NothingGetsLost`, for any files, texts and
  nesting of dialogs. Neither property is inductive: neither says what the handlers that wait still
  hold true. `IInv` adds that a handler that has asked about the document and is about to replace it,
  close the window or wait for another name finds it kept or discarded (`HasAsked`); that a text
  waiting behind the ANSI question is the one in the editor, unless Replace made that one since; and
  that every handler above the bottom one is a notice or on the way to an installation, so that no
  handler that only waits has its document replaced under it (`OnlyBottomReplaces`). A step of the
  innermost handler then disturbs no other if it makes no document less safe (`Keeps`), and the lemmas
  on `Pop`, `Become` and `Push` do the rest. `PathAssumption` keeps paths apart from the commands they
  share a set with.
* `Editor_proofs`, about a session of any length (the run stops after one step; the theorems do not):
  `EditorInvariant`, `MarksToggle`, `SearchComesRound`, `BlocksKeepApart`, for any texts, any needle and
  any replacement (`EditorAssumption` asks only that they are sequences and the needle is not empty). The
  invariant is `DocOK`, that the text is a sequence and the selection lies within it: every command has to
  be shown to keep it, also the line formats, which rebuild the lines. The three properties are about what
  the commands would do in a state, so they need nothing else.
  - `MarksToggle`: `WrapSelection` has three ways to take marks off and one to put them on. The text
    after it is laid out as three parts or five, whose lengths decide which way the second press takes;
    the selection cannot have begun or ended in the same mark, or the first press would have taken it off.
  - `SearchComesRound`: a match that lies on one side of the place the search begins at is found by that
    side's pass, so only one across it can be missed.
  - `BlocksKeepApart`: positions and lines are related by the endings before them (`LineFromPosition`
    counts them, `LineStart` and `LineEnd` lie between two of them). Line breaks go in before the block
    until the line above is blank or the text begins there, and after it in the same way; the lemmas on
    what stands above and below a place count them in each case.

  And, at the end, about the two panes: `NoBounce`, `PanesInStep`, for every layout and whatever the two
  position maps compute. When the editor has not been scrolled by anyone else, its top line is the one the
  controller remembers (`EchoInv`), and since the panes last followed one another the remembered lines
  belong together (`SyncedInv`).
* `Preview_proofs`, about the page writer first: `SoundPages`, for every document and height of page. `PagesAreSound` is not
  inductive: it does not say where the pen is. `PdfInv` adds that what is drawn on the page lies above
  the pen, but for the mark of an item whose line comes next at the same height; that the pen is at
  the head of its page or clear of it, so that a page that counts as empty has nothing on it; and that
  a row is drawn past a check of the room only at the head of a page or under a repeated header. The
  assumption `PapersAssumption` says what `PdfFlow` asks for: a line, a rule and a diagram fit on a page
  by themselves, nothing drawn is lower than the half point within which a page counts as empty (a
  diagram shrunk that far is not covered), and a mark is followed by a line of its height. TLC
  evaluates it on every document of the run.

  Then about the window, in two layers. The first is `PreviewInv`, three parts that need each other:
  - `TextsInv`: the last text on its way, or the one that is shown if none is, is the editor's, unless an
    edit waits for its parse (so `Current` means that text and tree agree, `CurrentIsShown`);
  - `OutlineInv`: the panel's items are those of the headings it holds, its selected item is one of them,
    and while it is visible the headings are those of the tree that is shown. `SetHeadings` may keep the
    items of an older text, so the lemmas say that it does only if they are the same;
  - `CopiedIsShown` itself.

  It gives `OutlineFollows` and `CopiesWhatIsShown`. The second layer, `LiveInv`, is about what the view
  remembers while trees come and widths change:
  - `FlipsInv`: only tasks of a text are toggled in it (this needs `TextsInv`: the mark that is toggled
    is of the tree, and the text is the tree's);
  - `LayoutInv`: the layout is of the tree that is shown, at some width, but for boxes checked since: it
    has the same texts and the same tasks. A task toggled changes a box of the layout in place;
  - `ScrollInv`, the scroll position is one that `Clamped` gives; `LinesInv`, every line the outline can
    send the view to is a number, also one of a text that is no longer there;
  - `GoodSel`: anchor, focus and both ends of the range a drag began with are places between two
    letters, in order; if the drag is by words the range is a word and the selection contains it; the
    box and the link that are pressed are in the layout.

  Most of the work is below the steps: that what is under a point is between two letters (`PointIsHit`),
  that a word's ends are, that a match of whole letters is (`MatchIsWhole`), that there is a nearest text
  to any point, that extending a selection of words gives whole words (`ExtendIs`), that interpolating
  between blocks gives a height inside the document. `RefsStayLive` and `WordsAreWhole` follow.
  `LayoutsAssumption` is what these two theorems take from the recursion over one tree: its layout is a
  layout (every text has a place for each unit, blocks have some height, boxes are where units say), has
  the same texts at every width, and has no task the document has not. `TreesAssumption` says that a tree
  is a list of blocks on lines, `NeedleAssumption` that what is searched for is whole letters. TLC
  evaluates all three on every document of the run, at each width and with every set of tasks toggled;
  the theorems are about everything that happens between trees, for any documents of which this is true,
  any number of steps, edits and trees under way.

  Last, `PreviewPrints`: printing from the window implements `PdfSpec`, and with it `PrintedPagesAreSound`.
* `UpdateDownload_proofs`: `DownloadInvariant`, `OnlyVerifiedIsHandedOver`, `NoPartialIsLeft`, for any
  number of windows and chunks. The invariant says who may have the partial file open and what it holds
  at each place of a transfer: a window that has verified it finds it whole until it renames it, unless
  another download began meanwhile; and the installer that was found or renamed stays what it is until
  some window removes it. A removal that fails because another window has the file open leaves it to
  that window (`SomebodyCleansUp`).
* `DocumentFormat_proofs`: `BytesComeBack` (`RoundTrip`) and `SavedTextIsFound` (`SavedTextComesBack`), for
  files and edits of any length. `FormatAssumption` asks only that files are bytes and that what is typed
  is valid UTF-8. The invariants are short: `Unedited`, the open document is what `ReadDocument` made of
  `original`, and the file what `Encode` makes of it once it was saved; `Kept`, the open document is one
  that reading and typing can give (`Sound`: a known encoding and line ending, and valid UTF-8 except
  after a UTF-8 mark, where the code does not look), and the file was encoded from it without
  substitution. The work is in what the two functions compute. Cutting loses nothing (`PiecesSound`), and a sequence that was put together from pieces is cut into the same
  ones again if no piece can be confused with what follows it (`PiecesUnique`); this is true of the
  characters of UTF-8, of units and pairs of surrogates, and of line breaks, except for a CR before an LF,
  which is why a text is put together from normalised breaks. `Utf8Decodes`/`Utf8Encodes`,
  `Utf16Decodes`/`Utf16Encodes`, `UnitsBack`/`UnitsForth` and `AnsiHolds`/`AnsiComesBack` follow, each
  from the arithmetic of one character; `NormalizedEncodes` says that normalising cuts no character in
  two, `NormalizedKeeps` that it gives valid UTF-8 and `DetectedIs` that the break chosen is the
  one detected afterwards. `WritingUndoesReading` and `SavedIsRead` put them together, encoding by encoding.
* `Window_proofs`: `WindowInvariant`, `PanesAlwaysTile`, `TreeStaysSound`, `DocumentIsRevealed`, for any
  disk, paths, widths of windows from 96 DPI up, and toolbars.
  `PanelInvariant` and `DiskIsClosed` are what the tree needs: everything on the disk has its folder,
  everything loaded is below a loaded folder, and what the control shows open has been read.
  `DocumentIsRevealed` is about a loop, the descent from the root to the document: it opens folder after
  folder, and each turn changes the panel that the next one reads. Its lemmas follow one path through it
  (`Promising`: the document's folders, so far as read, have what leads to it; `OnTrack`: the turns so
  far have opened all above the present one) by induction on the length of the path.
  `PanesAlwaysTile` sees the panes as a row of spans, each beginning where the one before ends: the
  widths of the panels are within the limits that dividers, settings and resizing keep them in, and
  what is left for the content is not negative in a window that is `WideEnough`. For the toolbar the
  induction goes over the items: the running sum of widths only grows, so the first item too far is the
  last one placed, and stepping back over half a segmented control or a separator only frees room.
  `ToolbarAssumption` says what the two lists of items in `toolbar.cpp` have in common (items aligned
  right come last; a separator is followed by an item), `PathAssumption` what a path and its parent are.

What cannot be proved here:

* Liveness under fairness: `PreviewCatchesUp`, `StopReturnsUnlessMissed`, `DownloadEnds`.
* What a recursion computes from every input. The library's induction theorems take an operator as a
  parameter; where an induction was needed (`Window_proofs`, `DocumentFormat_proofs`, `Editor_proofs`) it
  goes over natural numbers, by the least counterexample, and the recursive function is first shown to
  exist. The tree that `Parse` folds out of md4c's callbacks, the layout of a tree and what `PdfFlow` asks
  for carry a record of many fields through such a fold. So `SourceIsFound`, `BlocksInOrder` and `FlowTellsAll`
  (properties of one document) stay with TLC, as do the facts in `LayoutsAssumption` and `PapersAssumption`.
* Modules with `RECURSIVE` operators: diagram layout and Mermaid.
* `LineFormatsHold`: it counts and selects lines with `SelectSeq`, which the prover cannot expand, and
  numbers items with a fold over the lines.

Three properties are true on the bounds of their run, and not without bounds. `KeptTogether` is true of
ordinary documents only, those of the run among them: a heading higher than a page is kept with nothing,
and an empty quotation still asks for its gap (`export/pdf_exporter.cpp:653`), so that at the foot of a
page a diagram as high as a page leaves an empty one after it (a gap turns the page, the next one moves
the pen, the diagram does not fit below). `LayoutComesBack` is true of windows of the usual widths only:
the ratio is written in thousandths, and beyond some thousands of pixels what is read is more than a
pixel off. `TextKeepsClear` is true while no more than some seven activations of one participant are
nested, which is more than four lines can.

## 6. Plan

Done: the parse pipeline, files, session, synchronised scrolling, the download, diagrams, window and
explorer, editor commands, preview and outline, printing; theorems about all of these but the diagrams.
What is left, in the order in which it would say most:

1. The diagrams without `RECURSIVE`, as recursive functions over the numbers of nodes and statements,
   and `BarsAndBlocksNest` proved: bars and frames are opened and closed on a stack.
2. `KeptTogether` for sequences in which nothing kept is higher than a page and no gap follows a gap.
3. `LineFormatsHold`, with the lines counted by a recursive function instead of `SelectSeq`.
4. `LayoutsAssumption` from `LayoutNode`, by induction over the blocks of a tree.
5. Settings shared by several windows, with the check for updates that writes them.

## 7. Not modelled

Drawing, text shaping and colours (`preview_renderer.cpp`, `svg_writer.cpp`, `diagram_scene.cpp`,
`theme.cpp`, `icon_font.cpp`), which have no state to get wrong; the HTML export, one pass that writes
text; the release feed (`json.cpp`, `release_info.cpp`, `version.cpp`, `sha256.cpp`), functions of bytes
whose outcome is an input of `UpdateDownload`; wrappers of Windows (`platform/`); the dialogs' layout;
third-party code (Scintilla, Lexilla, md4c), which appears only as what the code relies on.

Of the parts that are modelled: single Replace with a dialog open, exports and preferences are outside
`Session`; undo, the clock of the update check, wheel and edge scrolling of the preview, the division
of Mermaid lines into statements, pie charts, the title of a sequence diagram and the room its numbers take, the ends and curves of edges, the bytes and footers of a
PDF, and how letters differ in width are left out.
