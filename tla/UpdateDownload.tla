--------------------------- MODULE UpdateDownload ---------------------------
(***************************************************************************)
(* Downloading the installer of an update: DownloadInstallerWithProgress   *)
(* shows a dialog while a worker thread runs DownloadInstaller, which      *)
(* fetches the installer into <name>.download, compares its checksum and   *)
(* renames it.  Every Pluma window is a process of its own and all of them *)
(* use the same folder and the same names.                                 *)
(*                                                                         *)
(* A file is the set of the installer's chunks it holds.  A file that some *)
(* process has open, be it to compute its checksum, can be opened, read    *)
(* and written by others, but not renamed, replaced or removed, as the C++ *)
(* library opens files on Windows.                                         *)
(***************************************************************************)
EXTENDS Naturals, FiniteSets

CONSTANTS
    Process,    \* the windows that are updating
    Chunks,     \* the installer comes in chunks 1..Chunks
    ReadFails,  \* whether a file that is there may be one that cannot be read
    NoFile

ASSUME ChunksAssumption == Chunks \in Nat \ {0}
ASSUME ReadFailsAssumption == ReadFails \in BOOLEAN
ASSUME NoFileAssumption == \A content \in SUBSET (1 .. Chunks) : content # NoFile

VARIABLES
    target,     \* the installer's file
    partial,    \* <name>.download
    pc,         \* where each worker is
    received,   \* chunks each worker received
    cancel,     \* DownloadState::cancel
    ok, failed, \* DownloadState::ok; DownloadState::error is not empty
    dialog,     \* "open", "closed", "returned"
    result,     \* what DownloadInstallerWithProgress returned: "none" (not yet), an "installer",
                \* an "error" or "nothing", the latter as when the user cancels
    overlapped, \* a window created the partial file while another one was using it (history variable)
    seen,       \* what each window computed the checksum of, NoFile if of nothing (history variable)
    swept       \* a window removed the whole installer, having seen something else (history variable)

history == <<overlapped, seen, swept>>
files == <<target, partial, history>>
state == <<cancel, ok, failed>>
ui == <<dialog, result>>
vars == <<files, pc, received, state, ui>>

Installer == 1 .. Chunks
Content == SUBSET Installer

Init ==
    /\ target \in {NoFile, {}, Installer}
    /\ partial \in {NoFile, {1}}
    /\ pc = [p \in Process |-> "connect"]
    /\ received = [p \in Process |-> 0]
    /\ cancel = [p \in Process |-> FALSE]
    /\ ok = [p \in Process |-> FALSE]
    /\ failed = [p \in Process |-> FALSE]
    /\ dialog = [p \in Process |-> "open"]
    /\ result = [p \in Process |-> "none"]
    /\ overlapped = FALSE
    /\ seen = [p \in Process |-> NoFile]
    /\ swept = FALSE

Using(p) == pc[p] \in {"progress", "read", "close", "abandon", "verify", "compare", "rename", "remove"}
Writing(p) == pc[p] \in {"progress", "read", "close", "abandon"}
Goto(p, label) == pc' = [pc EXCEPT ![p] = label]

\* remove and rename do not work while another process has the file open.
CanMove(p) == \A q \in Process \ {p} : ~Writing(q) /\ pc[q] # "compare"
CanReplace(p) == \A q \in Process \ {p} : pc[q] # "hash"
RemovePartial(p) == partial' = IF CanMove(p) THEN NoFile ELSE partial

-----------------------------------------------------------------------------
(* The worker thread. *)

\* DownloadInstaller returns; done is stored last.
Finish(p, good, error) ==
    /\ ok' = [ok EXCEPT ![p] = good]
    /\ failed' = [failed EXCEPT ![p] = error]
    /\ Goto(p, "done")
    /\ UNCHANGED cancel

\* The assets of the release and SHA256SUMS.txt; cancelling is not looked at.
Connect(p) ==
    /\ pc[p] = "connect"
    /\ \/ Goto(p, "look") /\ UNCHANGED state
       \/ Finish(p, FALSE, TRUE)
    /\ UNCHANGED <<files, received, ui>>

\* Sha256HexOfFile opens the file, which is gone or cannot be read, or holds it open.
OpenToHash(p, file, held, unread) ==
    \/ file # NoFile /\ Goto(p, held)
    \/ (file = NoFile \/ ReadFails) /\ Goto(p, unread)

\* is_regular_file: is there an installer downloaded earlier?
Look(p) ==
    /\ pc[p] = "look"
    /\ Goto(p, IF target = NoFile THEN "create" ELSE "open")
    /\ UNCHANGED <<files, received, state, ui>>

Open(p) ==
    /\ pc[p] = "open"
    /\ OpenToHash(p, target, "hash", "discard")
    /\ UNCHANGED <<files, received, state, ui>>

\* An installer downloaded earlier is reused if its checksum is right.
Reuse(p) ==
    /\ pc[p] = "hash"
    /\ seen' = [seen EXCEPT ![p] = target]
    /\ IF target = Installer THEN Finish(p, TRUE, FALSE) ELSE Goto(p, "discard") /\ UNCHANGED state
    /\ UNCHANGED <<target, partial, overlapped, swept, received, ui>>

\* If not, what has its name by now is removed; that it could not be is ignored.
Discard(p) ==
    /\ pc[p] = "discard"
    /\ Goto(p, "create")
    /\ IF CanReplace(p) THEN target' = NoFile /\ swept' = (swept \/ (target = Installer /\ seen[p] # Installer))
                        ELSE UNCHANGED <<target, swept>>
    /\ UNCHANGED <<partial, overlapped, seen, received, state, ui>>

\* std::ofstream with trunc.
Create(p) ==
    /\ pc[p] = "create"
    /\ \/ /\ partial' = {}
          /\ overlapped' = (overlapped \/ \E q \in Process \ {p} : Using(q))
          /\ Goto(p, "progress")
          /\ UNCHANGED state
       \/ /\ Finish(p, FALSE, TRUE)
          /\ UNCHANGED <<partial, overlapped>>
    /\ UNCHANGED <<target, seen, swept, received, ui>>

\* The connection breaks, the server answers with an error, or the disk is full.
TransferFails(p) ==
    /\ Goto(p, "abandon")
    /\ failed' = [failed EXCEPT ![p] = TRUE]
    /\ UNCHANGED <<partial, received>>

\* The progress callback, called before the first chunk and after each: a cancelled download
\* is given up.
Progress(p) ==
    /\ pc[p] = "progress"
    /\ Goto(p, IF cancel[p] THEN "abandon" ELSE "read")
    /\ UNCHANGED <<files, received, state, ui>>

\* WinHttpReadData: a chunk arrives and is written; or the data ends, too soon if the server
\* did not announce a length; or the transfer fails.
Read(p) ==
    /\ pc[p] = "read"
    /\ \/ /\ received[p] < Chunks
          /\ received' = [received EXCEPT ![p] = @ + 1]
          /\ partial' = partial \cup {received[p] + 1}
          /\ Goto(p, "progress")
          /\ UNCHANGED failed
       \/ /\ Goto(p, "close")
          /\ UNCHANGED <<partial, received, failed>>
       \/ TransferFails(p)
    /\ UNCHANGED <<target, history, cancel, ok, ui>>

\* The stream is closed, then what it wrote is removed.
Abandon(p) ==
    /\ pc[p] = "abandon"
    /\ Goto(p, "remove")
    /\ UNCHANGED <<files, received, state, ui>>

\* What is still buffered may not fit on the disk.
Close(p) ==
    /\ pc[p] = "close"
    /\ \/ Goto(p, "verify") /\ UNCHANGED failed
       \/ Goto(p, "remove") /\ failed' = [failed EXCEPT ![p] = TRUE]
    /\ UNCHANGED <<files, received, cancel, ok, ui>>

\* Mutant: what was received is left in the folder.
LeavePartial(p) ==
    /\ pc[p] = "remove"
    /\ Finish(p, FALSE, failed[p])
    /\ UNCHANGED <<files, received, ui>>

Remove(p) ==
    /\ pc[p] = "remove"
    /\ RemovePartial(p)
    /\ Finish(p, FALSE, failed[p])
    /\ UNCHANGED <<target, history, received, ui>>

\* Sha256HexOfFile(partial) against the published sum.
Verify(p) ==
    /\ pc[p] = "verify"
    /\ OpenToHash(p, partial, "compare", "remove")
    /\ failed' = [failed EXCEPT ![p] = pc'[p] = "remove"]
    /\ UNCHANGED <<files, received, cancel, ok, ui>>

\* Mutant: the size is right, so the file must be.
CompareNothing(p) ==
    /\ pc[p] = "compare"
    /\ Goto(p, "rename")
    /\ UNCHANGED <<files, received, state, ui>>

Compare(p) ==
    /\ pc[p] = "compare"
    /\ IF partial = Installer
       THEN Goto(p, "rename") /\ UNCHANGED failed
       ELSE Goto(p, "remove") /\ failed' = [failed EXCEPT ![p] = TRUE]
    /\ UNCHANGED <<files, received, cancel, ok, ui>>

\* Onto the target, whatever is there.
Rename(p) ==
    /\ pc[p] = "rename"
    /\ \/ /\ CanMove(p) /\ CanReplace(p) /\ partial # NoFile
          /\ target' = partial
          /\ partial' = NoFile
          /\ UNCHANGED history
          /\ Finish(p, TRUE, FALSE)
       \/ /\ Goto(p, "remove")
          /\ failed' = [failed EXCEPT ![p] = TRUE]
          /\ UNCHANGED <<files, cancel, ok>>
    /\ UNCHANGED <<received, ui>>

Worker(p) ==
    \/ Connect(p) \/ Look(p) \/ Open(p) \/ Reuse(p) \/ Discard(p)
    \/ Create(p) \/ Progress(p) \/ Read(p) \/ Abandon(p) \/ Close(p)
    \/ Remove(p) \/ Verify(p) \/ Compare(p) \/ Rename(p)

-----------------------------------------------------------------------------
(* The UI thread. *)

CloseDialog(p) ==
    /\ dialog[p] = "open"
    /\ dialog' = [dialog EXCEPT ![p] = "closed"]
    /\ UNCHANGED <<files, pc, received, ok, failed, result>>

\* TDN_BUTTON_CLICKED before the worker is done, or the dialog could not be shown.
PressCancel(p) ==
    /\ pc[p] # "done"
    /\ CloseDialog(p)
    /\ cancel' = [cancel EXCEPT ![p] = TRUE]

\* Mutant: the timer asks whether the worker succeeded instead of whether it is done.
DialogEndsOnSuccess(p) ==
    /\ pc[p] = "done" /\ ok[p]
    /\ CloseDialog(p)
    /\ UNCHANGED cancel

\* TDN_TIMER finds the worker done, or the user presses Cancel too late.
DialogEnds(p) ==
    /\ pc[p] = "done"
    /\ CloseDialog(p)
    /\ UNCHANGED cancel

\* worker.join() and the outcome.
Return(p) ==
    /\ dialog[p] = "closed"
    /\ pc[p] = "done"
    /\ dialog' = [dialog EXCEPT ![p] = "returned"]
    /\ result' = [result EXCEPT ![p] = IF ok[p] THEN "installer"
                                       ELSE IF ~cancel[p] /\ failed[p] THEN "error" ELSE "nothing"]
    /\ UNCHANGED <<files, pc, received, state>>

Next == \E p \in Process : Worker(p) \/ PressCancel(p) \/ DialogEnds(p) \/ Return(p)

Spec == Init /\ [][Next]_vars

\* The threads run; every call of the transfer ends, in the worst case by its timeout; the
\* timer of the dialog goes on once the worker is done.
FairSpec ==
    /\ Spec
    /\ \A p \in Process :
         WF_vars(Worker(p)) /\ WF_vars(DialogEnds(p)) /\ WF_vars(Return(p))

-----------------------------------------------------------------------------
\* What is found where an installer was handed over is the one whose checksum was published,
\* unless another window wrote to the partial file between its creation and its renaming; and it
\* is gone only if a window removed it that had seen another one there, or none it could read.
HandedOverIsVerified ==
    \A p \in Process : result[p] = "installer" => \/ target = Installer
                                                 \/ (target = NoFile /\ swept)
                                                 \/ overlapped

\* The installer that a window was handed over, of the right checksum, is there.
HandedOverIsThere == \A p \in Process : result[p] = "installer" => target # NoFile

\* Once every window has returned nothing half downloaded stays behind, not even what an
\* earlier run left if any of them received something.
NothingLeftBehind ==
    (\A p \in Process : dialog[p] = "returned") /\ (\E p \in Process : received[p] > 0) => partial = NoFile

\* The dialog ends: of its own when the worker is done, and soon after Cancel.
DownloadEnds == \A p \in Process : <>(dialog[p] = "returned")
=============================================================================
