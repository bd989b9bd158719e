------------------------------ MODULE Session ------------------------------
(***************************************************************************)
(* The life of the document in one window: opening, saving, closing and    *)
(* the update check, which all stop to ask the user something.  A modal    *)
(* dialog runs its own message loop inside the handler that showed it, so  *)
(* handlers nest: the variable dialogs is the stack of handlers that wait  *)
(* for an answer, the innermost first, each with what it does next.        *)
(*                                                                         *)
(* While a dialog is open the main window is disabled, but messages are    *)
(* still dispatched (timers, results of the update check) and the modeless *)
(* Find and Replace dialog, a window of its own, can still be used.        *)
(* Dialogs are answered innermost first.                                   *)
(***************************************************************************)
EXTENDS Naturals, Sequences

CONSTANTS
    Path,               \* the files the user may name
    NoPath,             \* an untitled document
    NoFile,             \* the content of a path where there is no file
    InitialDisk,        \* what the files hold at the start
    MaxText,            \* bound: the texts are 0..MaxText; editing makes the next one
    FirstText,          \* the texts up to this one were on disk at the start
    Exotic,             \* the texts with characters ANSI does not have
    ReplaceUnderDialogs \* the user may press Replace while another dialog is open

\* What a handler may do next, but for opening a file, which is written as its path.
Steps == {"nothing", "save", "new", "openDialog", "close", "install"}

ASSUME PathAssumption == NoPath \notin Path /\ Path \cap Steps = {}
ASSUME ExoticAssumption == Exotic \subseteq Nat
ASSUME DiskAssumption ==
    /\ FirstText \in Nat /\ MaxText \in Nat /\ FirstText <= MaxText
    /\ NoFile \notin 0..MaxText
    /\ InitialDisk \in [Path -> 1..FirstText \cup {NoFile}]

VARIABLES
    text,       \* what the editor holds; 0 is the empty text
    savePoint,  \* the text Scintilla's save point is at
    path,       \* m_currentPath
    encoding,   \* m_encoding: "Unicode" or "Ansi"
    disk,       \* what each file holds
    newest,     \* the last text made (bounded by MaxText)
    dialogs,    \* the handlers waiting for an answer
    checking,   \* the update checks whose result has not arrived: "automatic", "manual"
    timer,      \* kUpdateCheckTimerId is still to fire
    closed,     \* the window was destroyed
    source,     \* the file whose reading or writing last succeeded (history variable)
    discarded,  \* texts the user chose not to save since the window last stood idle (history variable)
    late        \* texts made while a dialog was open (history variable)

document == <<text, savePoint, path, encoding, source>>
update == <<checking, timer>>
vars == <<document, disk, newest, dialogs, update, closed, discarded, late>>

Text == 0..MaxText

-----------------------------------------------------------------------------
(* The stack of handlers. *)

FollowUp == Steps \cup Path

Prompt(then) == [kind |-> "prompt", then |-> then]
AnsiPrompt(target, content, then) ==
    [kind |-> "ansi", target |-> target, content |-> content, then |-> then]
SaveDialog(then) == [kind |-> "saveAs", then |-> then]
OpenDialog == [kind |-> "open"]
Notice == [kind |-> "notice"]
Offer(check) == [kind |-> "offer", check |-> check]
Download == [kind |-> "download"]
OtherWindows == [kind |-> "retry"]
\* Not a dialog: the handler is running and nothing else can run before it is done.
Running(then) == [kind |-> "running", then |-> then]

\* Only the stack changes.
Quiet == UNCHANGED <<document, disk, newest, update, closed, discarded, late>>

Top(kind) == ~closed /\ dialogs # <<>> /\ Head(dialogs).kind = kind
Enabled == ~closed /\ dialogs = <<>>
Busy == dialogs # <<>> /\ Head(dialogs).kind = "running"
Dispatching == ~closed /\ ~Busy

\* The innermost handler returns, or goes on to wait for (or to run) f.
Pop == dialogs' = Tail(dialogs)
Become(f) == dialogs' = <<f>> \o Tail(dialogs)
Push(f) == dialogs' = <<f>> \o dialogs

-----------------------------------------------------------------------------
Init ==
    /\ text = 0
    /\ savePoint = 0
    /\ path = NoPath
    /\ encoding = "Unicode"
    /\ disk = InitialDisk
    /\ newest = FirstText
    /\ dialogs = <<>>
    /\ checking = {}
    /\ timer = TRUE
    /\ closed = FALSE
    /\ source = NoPath
    /\ discarded = {}
    /\ late = {}

IsModified == text # savePoint

MakeText ==
    /\ newest < MaxText
    /\ newest' = newest + 1
    /\ text' = newest + 1
    /\ UNCHANGED <<savePoint, path, encoding, source, disk, update, closed, discarded>>

Type == Enabled /\ MakeText /\ UNCHANGED <<dialogs, late>>

\* Replace All in the modeless dialog, which then reports how many it replaced.
ReplaceAll ==
    /\ Dispatching
    /\ dialogs # <<>> => ReplaceUnderDialogs
    /\ MakeText
    /\ Push(Notice)
    /\ late' = IF dialogs = <<>> THEN late ELSE late \cup {newest + 1}

-----------------------------------------------------------------------------
(* Saving. *)

\* WriteDocumentAtomic and what WriteCurrentDocument does next; the save point is put at
\* whatever the editor holds by then.  A text whose characters the user let be replaced in
\* the file counts as the same text.
Write(target, content, enc, then) ==
    /\ encoding' = enc
    /\ \/ /\ disk' = [disk EXCEPT ![target] = content]
          /\ path' = target
          /\ source' = target
          /\ savePoint' = text
          /\ Become(Running(then))
       \/ /\ Become(Notice)
          /\ UNCHANGED <<disk, path, source, savePoint>>
    /\ UNCHANGED <<text, newest, update, closed, discarded, late>>

\* Mutant: the document counts as saved before the write succeeded.
SaveOptimistically(target, then) ==
    /\ savePoint' = text
    /\ path' = target
    /\ source' = target
    /\ \/ disk' = [disk EXCEPT ![target] = text] /\ Become(Running(then))
       \/ Become(Notice) /\ UNCHANGED disk
    /\ UNCHANGED <<text, encoding, newest, update, closed, discarded, late>>

\* The content is taken before the user is asked what to do when ANSI lacks a character.
WriteCurrentDocument(target, then) ==
    IF encoding = "Ansi" /\ text \in Exotic
    THEN Become(AnsiPrompt(target, text, then)) /\ Quiet
    ELSE Write(target, text, encoding, then)

SaveFile(then) ==
    IF path = NoPath THEN Become(SaveDialog(then)) /\ Quiet
                     ELSE WriteCurrentDocument(path, then)

AnswerAnsi ==
    /\ Top("ansi")
    /\ LET f == Head(dialogs)
       IN  \/ \E enc \in {"Unicode", "Ansi"} : Write(f.target, f.content, enc, f.then)
           \/ Pop /\ Quiet

AnswerSaveDialog ==
    /\ Top("saveAs")
    /\ \/ \E p \in Path : WriteCurrentDocument(p, Head(dialogs).then)
       \/ Pop /\ Quiet

-----------------------------------------------------------------------------
(* Commands, and asking before the document goes away. *)

\* Mutant: only asks about documents that have a file.
AskOnlyNamed(then) == IF IsModified /\ path # NoPath THEN Prompt(then) ELSE Running(then)

PromptSaveChanges(then) == IF IsModified THEN Prompt(then) ELSE Running(then)

AnswerPrompt ==
    /\ Top("prompt")
    /\ LET then == Head(dialogs).then
       IN  \/ SaveFile(then)
           \/ /\ Become(Running(then))
              /\ discarded' = discarded \cup {text}
              /\ UNCHANGED <<document, disk, newest, update, closed, late>>
           \/ Pop /\ Quiet

\* New, Open, the close button, and a path chosen in the explorer, a link or a dropped file,
\* ask first; Save and Save As do not.
Command ==
    /\ Enabled
    /\ \/ \E then \in {"new", "openDialog", "close"} \cup Path : Push(PromptSaveChanges(then))
       \/ Push(Running("save"))
       \/ Push(SaveDialog("nothing"))
    /\ discarded' = {}
    /\ UNCHANGED <<document, disk, newest, update, closed, late>>

AnswerOpenDialog ==
    /\ Top("open")
    /\ (\E p \in Path : Become(Running(p))) \/ Pop
    /\ Quiet

\* A message with nothing to decide: an error, the number of replacements.
CloseNotice == Top("notice") /\ Pop /\ Quiet

\* What ReadDocument may recognise; a file has its characters in the encoding it is in.
EncodingsOf(t) == IF t \in Exotic THEN {"Unicode"} ELSE {"Unicode", "Ansi"}

\* A file that is missing or cannot be read changes nothing.
OpenFile(p) ==
    \/ /\ disk[p] # NoFile
       /\ text' = disk[p]
       /\ savePoint' = disk[p]
       /\ path' = p
       /\ encoding' \in EncodingsOf(disk[p])
       /\ source' = p
       /\ Pop
       /\ UNCHANGED <<disk, newest, update, closed, discarded, late>>
    \/ Become(Notice) /\ Quiet

NewFile ==
    /\ text' = 0
    /\ savePoint' = 0
    /\ path' = NoPath
    /\ encoding' = "Unicode"
    /\ source' = NoPath
    /\ Pop
    /\ UNCHANGED <<disk, newest, update, closed, discarded, late>>

DestroyWindow ==
    /\ closed' = TRUE
    /\ UNCHANGED <<document, disk, newest, dialogs, update, discarded, late>>

\* The rest of InstallUpdate: wait until this is the only window, start the installer.
Install ==
    \/ Become(OtherWindows) /\ Quiet
    \/ DestroyWindow
    \/ Become(Notice) /\ Quiet

\* The handler goes on, without giving way to another message.
Run ==
    /\ Top("running")
    /\ LET then == Head(dialogs).then
       IN  \/ then = "nothing" /\ Pop /\ Quiet
           \/ then = "save" /\ SaveFile("nothing")
           \/ then = "openDialog" /\ Become(OpenDialog) /\ Quiet
           \/ then = "new" /\ NewFile
           \/ then = "close" /\ DestroyWindow
           \/ then = "install" /\ Install
           \/ then \in Path /\ OpenFile(then)

-----------------------------------------------------------------------------
(* The update check. *)

StartUpdateCheck(check) == checking' = IF checking = {} THEN {check} ELSE checking

\* kUpdateCheckTimerId fires once, also inside the loop of a dialog.
UpdateTimer ==
    /\ Dispatching
    /\ timer
    /\ timer' = FALSE
    /\ StartUpdateCheck("automatic")
    /\ UNCHANGED <<document, disk, newest, dialogs, closed, discarded, late>>

CheckForUpdates ==
    /\ Enabled
    /\ StartUpdateCheck("manual")
    /\ UNCHANGED <<document, disk, newest, dialogs, timer, closed, discarded, late>>

\* There is an update, or there is not (or the check failed), which only a manual check
\* reports; an automatic one never interrupts a dialog.
HandleUpdateCheckResult(check) ==
    \/ (check = "automatic" => dialogs = <<>>) /\ Push(Offer(check))
    \/ check = "manual" /\ Push(Notice)
    \/ check = "automatic" /\ UNCHANGED dialogs

UpdateChecked ==
    /\ Dispatching
    /\ \E check \in checking :
         /\ checking' = checking \ {check}
         /\ HandleUpdateCheckResult(check)
    /\ discarded' = IF dialogs = <<>> THEN {} ELSE discarded
    /\ UNCHANGED <<document, disk, newest, timer, closed, late>>

\* Install; or the release page, later, or skip this version.
AnswerOffer ==
    /\ Top("offer")
    /\ Become(Download) \/ Pop
    /\ Quiet

\* InstallUpdate asks about the document once the installer is there.
FinishDownload ==
    /\ Top("download")
    /\ Become(PromptSaveChanges("install")) \/ Become(Notice) \/ Pop
    /\ Quiet

AnswerOtherWindows ==
    /\ Top("retry")
    /\ Become(Running("install")) \/ Pop
    /\ Quiet

-----------------------------------------------------------------------------
Next ==
    \/ Type \/ ReplaceAll \/ Command
    \/ AnswerAnsi \/ AnswerSaveDialog \/ AnswerPrompt \/ AnswerOpenDialog \/ CloseNotice
    \/ Run
    \/ UpdateTimer \/ CheckForUpdates \/ UpdateChecked
    \/ AnswerOffer \/ FinishDownload \/ AnswerOtherWindows

Spec == Init /\ [][Next]_vars

-----------------------------------------------------------------------------

\* The text is in the document's file, or there is nothing to keep.
Kept == IF path = NoPath THEN text = 0 ELSE disk[path] = text

\* The document of this window goes away: another one takes its place or the window closes.
Leaves == (text' # text /\ newest' = newest) \/ (closed' /\ ~closed)

\* A document leaves the window only when its text is in its file or the user chose to
\* discard it, however the dialogs nest; a text made by Replace while a dialog was already
\* open is the exception.
NothingIsLost == [][Leaves => Kept \/ text \in discarded \/ text \in late]_vars

\* The window closes only on a document that was saved or discarded ("the document is saved
\* (or discarded) first"), without exception.
SavedOrDiscardedFirst == [][closed' /\ ~closed => Kept \/ text \in discarded]_vars

\* A document without the modified mark is in its file, again but for texts made by Replace
\* while a dialog was open; and its path is that of a file it was read from or written to, so
\* that saving never overwrites one that could not be read ("Never keep the path of a document
\* we could not read").
UnmodifiedMeansKept ==
    /\ ~IsModified => Kept \/ text \in late
    /\ path = source

\* The same without the exception.
UnmodifiedMeansKeptAlways == ~IsModified => Kept

=============================================================================
