--------------------------- MODULE ParsePipeline ---------------------------
(***************************************************************************)
(* The asynchronous preview of Pluma: every change of the document posts   *)
(* one coalescing WM_APP_REPARSE to the UI thread, whose handler hands a   *)
(* numbered snapshot of the text to a background worker; the worker waits  *)
(* for the typing to pause, parses outside the lock, and posts the tree    *)
(* back to the UI thread, which shows it.  WM_DESTROY stops the worker.    *)
(*                                                                         *)
(* Two threads run here: the UI thread (variable ui) and the worker        *)
(* (variable wpc).  They share the SRW lock, the condition variable, the   *)
(* stop token and the window's message queue.                              *)
(***************************************************************************)
EXTENDS Naturals, Sequences

CONSTANTS
    Text,          \* the document's possible contents
    MaxEdits,      \* bound: text changes explored
    PostOutcomes,  \* what PostMessageW may return; {TRUE}: the queue never fills
    Reparse,       \* the WM_APP_REPARSE message
    None           \* no tree, no pending request

\* A numbered snapshot; also a tree, which is known by what it was parsed from.
Snapshot == [version : Nat, text : Text]

ASSUME TextAssumption == Text # {}
ASSUME MaxEditsAssumption == MaxEdits \in Nat
ASSUME PostAssumption == PostOutcomes \subseteq BOOLEAN /\ PostOutcomes # {}
ASSUME MessageAssumption == Reparse \notin Snapshot /\ None \notin Snapshot /\ Reparse # None

VARIABLES
    text,           \* the editor's text
    docVersion,     \* m_docVersion
    reparsePosted,  \* m_reparsePosted
    lastApplied,    \* m_lastAppliedVersion
    shown,          \* the tree the preview displays, or None
    queue,          \* messages posted to the main window
    ui,             \* where the UI thread is
    request,        \* RequestParse's arguments, between the call and the lock
    immediate,      \* ... and whether they skip the debounce
    lock,           \* who holds m_lock: "none" or "worker" (the UI holds it in one step)
    pending,        \* m_pendingText and m_pendingVersion; None iff ~m_hasPending
    due,            \* the debounce of the pending request has passed
    stop,           \* the worker's stop token
    wpc,            \* where the worker thread is
    claimed,        \* textToParse and versionToParse, then the tree parsed from them
    edits,          \* text changes so far (bounded by MaxEdits)
    sent            \* every snapshot's text, by version (history variable)

uiVars     == <<text, docVersion, reparsePosted, lastApplied, shown, edits, sent>>
workerVars == <<wpc, claimed>>
vars == <<text, docVersion, reparsePosted, lastApplied, shown, queue, ui, request,
          immediate, lock, pending, due, stop, wpc, claimed, edits, sent>>

-----------------------------------------------------------------------------
(* The UI thread. *)

\* WM_CREATE starts the worker and requests the first parse.
Init ==
    /\ text \in Text
    /\ docVersion = 1
    /\ reparsePosted = FALSE
    /\ lastApplied = 0
    /\ shown = None
    /\ queue = <<>>
    /\ ui = "request"
    /\ request = [version |-> 1, text |-> text]
    /\ immediate = FALSE
    /\ lock = "none"
    /\ pending = None
    /\ due = FALSE
    /\ stop = FALSE
    /\ wpc = "top"
    /\ claimed = None
    /\ edits = 0
    /\ sent = <<text>>

\* PostMessageW(WM_APP_REPARSE), unless one is already on its way.
ScheduleParse ==
    IF reparsePosted
    THEN UNCHANGED <<reparsePosted, queue>>
    ELSE \E posted \in PostOutcomes :
            /\ reparsePosted' = posted
            /\ queue' = IF posted THEN Append(queue, Reparse) ELSE queue

\* Mutant: the coalescing flag is not cleared.
TriggerParseKeepFlag(now) ==
    /\ UNCHANGED reparsePosted
    /\ docVersion' = docVersion + 1
    /\ sent' = Append(sent, text')
    /\ request' = [version |-> docVersion + 1, text |-> text']
    /\ immediate' = now
    /\ ui' = "request"

\* Numbers a snapshot of the text the document has after this step.
TriggerParse(now) ==
    /\ reparsePosted' = FALSE
    /\ docVersion' = docVersion + 1
    /\ sent' = Append(sent, text')
    /\ request' = [version |-> docVersion + 1, text |-> text']
    /\ immediate' = now
    /\ ui' = "request"

\* RequestParse's critical section: replace the pending request and wake the worker.
RequestParse ==
    /\ ui = "request"
    /\ lock = "none"
    /\ pending' = request
    /\ due' = immediate
    /\ wpc' = CASE wpc = "asleep" -> "woken"
                [] wpc = "dozing" -> "timedWoken"
                [] OTHER          -> wpc
    /\ ui' = "idle"
    /\ UNCHANGED <<uiVars, queue, request, immediate, lock, stop, claimed>>

\* Typing, pasting, Replace All, undo: SCN_MODIFIED.
Edit ==
    /\ ui = "idle"
    /\ edits < MaxEdits
    /\ edits' = edits + 1
    /\ text' \in Text
    /\ ScheduleParse
    /\ UNCHANGED <<docVersion, lastApplied, shown, ui, request, immediate, lock,
                   pending, due, stop, wpc, claimed, sent>>

\* OpenFile and NewFile: SetText raises SCN_MODIFIED (unless it changes nothing), then
\* TriggerParse asks for a parse at once, whatever ScheduleParse did with the flag.
SetDocument(now) ==
    /\ ui = "idle"
    /\ edits < MaxEdits
    /\ edits' = edits + 1
    /\ text' \in Text
    /\ \/ UNCHANGED queue
       \/ /\ ~reparsePosted
          /\ TRUE \in PostOutcomes
          /\ queue' = Append(queue, Reparse)
    /\ TriggerParse(now)
    /\ UNCHANGED <<lastApplied, shown, lock, pending, due, stop, wpc, claimed>>

\* Mutant: forgets that an edit may be waiting for its WM_APP_REPARSE.
OffsetsTrustedByVersion ==
    /\ ui = "idle"
    /\ shown # None
    /\ shown.version = docVersion

\* The condition under which the preview may use the tree's source offsets.
OffsetsTrusted ==
    /\ ui = "idle"
    /\ shown # None
    /\ shown.version = docVersion
    /\ ~reparsePosted

\* A click on a task box of the preview: the mark is replaced in the editor.
ToggleTask ==
    /\ OffsetsTrusted
    /\ edits < MaxEdits
    /\ edits' = edits + 1
    /\ text' \in Text
    /\ ScheduleParse
    /\ UNCHANGED <<docVersion, lastApplied, shown, ui, request, immediate, lock,
                   pending, due, stop, wpc, claimed, sent>>

HandleReparse ==
    /\ ui = "idle"
    /\ queue # <<>>
    /\ Head(queue) = Reparse
    /\ queue' = Tail(queue)
    /\ UNCHANGED text
    /\ IF reparsePosted
       THEN TriggerParse(FALSE)
       ELSE UNCHANGED <<reparsePosted, docVersion, sent, request, immediate, ui>>
    /\ UNCHANGED <<lastApplied, shown, lock, pending, due, stop, wpc, claimed, edits>>

\* WM_USER_PARSE_COMPLETE: show the tree, or delete it when a newer one was shown.
HandleTree ==
    /\ ui = "idle"
    /\ queue # <<>>
    /\ Head(queue) # Reparse
    /\ queue' = Tail(queue)
    /\ IF Head(queue).version >= lastApplied
       THEN /\ lastApplied' = Head(queue).version
            /\ shown' = Head(queue)
       ELSE UNCHANGED <<lastApplied, shown>>
    /\ UNCHANGED <<text, docVersion, reparsePosted, ui, request, immediate, lock,
                   pending, due, stop, wpc, claimed, edits, sent>>

\* Mutant: the stop token is never set.
RequestNoStop ==
    /\ ui = "idle"
    /\ ui' = "stopping"
    /\ UNCHANGED <<uiVars, queue, request, immediate, lock, pending, due, stop, workerVars>>

\* WM_DESTROY: ParseWorker::Stop sets the stop token and wakes the worker, both
\* without m_lock, joins the thread, and then frees the trees left in the queue.
RequestStop ==
    /\ ui = "idle"
    /\ stop' = TRUE
    /\ ui' = "stopping"
    /\ UNCHANGED <<uiVars, queue, request, immediate, lock, pending, due, workerVars>>

WakeToStop ==
    /\ ui = "stopping"
    /\ wpc' = CASE wpc = "asleep" -> "woken"
                [] wpc = "dozing" -> "timedWoken"
                [] OTHER          -> wpc
    /\ ui' = "joining"
    /\ UNCHANGED <<uiVars, queue, request, immediate, lock, pending, due, stop, claimed>>

\* Mutant: detaches the thread instead of joining it.
Detach ==
    /\ ui = "joining"
    /\ ui' = "draining"
    /\ UNCHANGED <<uiVars, queue, request, immediate, lock, pending, due, stop, workerVars>>

Join ==
    /\ ui = "joining"
    /\ wpc = "done"
    /\ ui' = "draining"
    /\ UNCHANGED <<uiVars, queue, request, immediate, lock, pending, due, stop, workerVars>>

IsTree(i) == i \in 1 .. Len(queue) /\ queue[i] # Reparse

\* PeekMessageW(WM_USER_PARSE_COMPLETE, PM_REMOVE): the first tree leaves the queue.
DrainTree ==
    /\ ui = "draining"
    /\ \E i \in 1 .. Len(queue) :
          /\ IsTree(i)
          /\ \A j \in 1 .. i - 1 : ~IsTree(j)
          /\ queue' = [j \in 1 .. Len(queue) - 1 |-> IF j < i THEN queue[j] ELSE queue[j + 1]]
    /\ UNCHANGED <<uiVars, ui, request, immediate, lock, pending, due, stop, workerVars>>

PostQuit ==
    /\ ui = "draining"
    /\ \A i \in 1 .. Len(queue) : ~IsTree(i)
    /\ ui' = "quit"
    /\ UNCHANGED <<uiVars, queue, request, immediate, lock, pending, due, stop, workerVars>>

-----------------------------------------------------------------------------
(* The worker thread: WorkerLoop. *)

LoopTop ==
    /\ wpc = "top"
    /\ wpc' = IF stop THEN "done" ELSE "locking"
    /\ UNCHANGED <<uiVars, queue, ui, request, immediate, lock, pending, due, stop, claimed>>

\* AcquireSRWLockExclusive, on entry and when SleepConditionVariableSRW(INFINITE) returns.
AcquireLock ==
    /\ wpc \in {"locking", "woken"}
    /\ lock = "none"
    /\ lock' = "worker"
    /\ wpc' = "checking"
    /\ UNCHANGED <<uiVars, queue, ui, request, immediate, pending, due, stop, claimed>>

\* Holding the lock: leave if stopped; choose to sleep until work or until the debounce;
\* otherwise claim the pending request.
Check ==
    /\ wpc = "checking"
    /\ \/ /\ stop
          /\ wpc' = "done"
          /\ lock' = "none"
          /\ UNCHANGED <<pending, claimed>>
       \/ /\ ~stop /\ pending = None
          /\ wpc' = "fallingAsleep"
          /\ UNCHANGED <<lock, pending, claimed>>
       \/ /\ ~stop /\ pending # None /\ ~due
          /\ wpc' = "dozingOff"
          /\ UNCHANGED <<lock, pending, claimed>>
       \/ /\ ~stop /\ pending # None /\ due
          /\ wpc' = "claimed"
          /\ claimed' = pending
          /\ pending' = None
          /\ lock' = "none"
    /\ UNCHANGED <<uiVars, queue, ui, request, immediate, due, stop>>

\* SleepConditionVariableSRW releases the lock and starts waiting in one step.
Sleep ==
    /\ wpc \in {"fallingAsleep", "dozingOff"}
    /\ wpc' = IF wpc = "fallingAsleep" THEN "asleep" ELSE "dozing"
    /\ lock' = "none"
    /\ UNCHANGED <<uiVars, queue, ui, request, immediate, pending, due, stop, claimed>>

\* Windows allows a condition variable to wake a thread for no reason.
SpuriousWake ==
    /\ wpc = "asleep"
    /\ wpc' = "woken"
    /\ UNCHANGED <<uiVars, queue, ui, request, immediate, lock, pending, due, stop, claimed>>

\* The timed wait ends on its own.
DozeTimeout ==
    /\ wpc = "dozing"
    /\ wpc' = "timedWoken"
    /\ UNCHANGED <<uiVars, queue, ui, request, immediate, lock, pending, due, stop, claimed>>

\* The timed wait reacquires the lock, releases it and re-evaluates everything.
Reevaluate ==
    /\ wpc = "timedWoken"
    /\ lock = "none"
    /\ wpc' = "top"
    /\ UNCHANGED <<uiVars, queue, ui, request, immediate, lock, pending, due, stop, claimed>>

Parse ==
    /\ wpc = "claimed"
    /\ wpc' = IF stop THEN "done" ELSE "parsed"
    /\ claimed' = IF stop THEN None ELSE claimed
    /\ UNCHANGED <<uiVars, queue, ui, request, immediate, lock, pending, due, stop>>

\* Drop the tree if a newer request arrived during the parse, or on stop.
CheckObsolete ==
    /\ wpc = "parsed"
    /\ lock = "none"
    /\ LET obsolete == pending # None /\ pending.version > claimed.version IN
       IF obsolete \/ stop
       THEN wpc' = "top" /\ claimed' = None
       ELSE wpc' = "posting" /\ UNCHANGED claimed
    /\ UNCHANGED <<uiVars, queue, ui, request, immediate, lock, pending, due, stop>>

\* Mutant: posts with m_pendingVersion instead of the version that was parsed.
PostTreePendingVersion ==
    /\ wpc = "posting"
    /\ \E posted \in PostOutcomes :
          queue' = IF posted
                   THEN Append(queue, IF pending = None THEN claimed
                                      ELSE [claimed EXCEPT !.version = pending.version])
                   ELSE queue
    /\ wpc' = "top"
    /\ claimed' = None
    /\ UNCHANGED <<uiVars, ui, request, immediate, lock, pending, due, stop>>

\* PostMessageW moves the tree into the queue, or fails and the tree is deleted.
PostTree ==
    /\ wpc = "posting"
    /\ \E posted \in PostOutcomes :
          queue' = IF posted THEN Append(queue, claimed) ELSE queue
    /\ wpc' = "top"
    /\ claimed' = None
    /\ UNCHANGED <<uiVars, ui, request, immediate, lock, pending, due, stop>>

-----------------------------------------------------------------------------
\* The debounce interval of the pending request elapses.
DebounceElapses ==
    /\ pending # None
    /\ ~due
    /\ due' = TRUE
    /\ UNCHANGED <<uiVars, queue, ui, request, immediate, lock, pending, stop, workerVars>>

Terminated ==
    /\ ui = "quit"
    /\ UNCHANGED vars

UiStep ==
    \/ RequestParse
    \/ Edit
    \/ \E now \in BOOLEAN : SetDocument(now)
    \/ ToggleTask
    \/ HandleReparse
    \/ HandleTree
    \/ RequestStop
    \/ WakeToStop
    \/ Join
    \/ DrainTree
    \/ PostQuit

\* What the worker does without being given a chance it cannot count on.
WorkerStep ==
    \/ LoopTop
    \/ AcquireLock
    \/ Check
    \/ Sleep
    \/ DozeTimeout
    \/ Reevaluate
    \/ Parse
    \/ CheckObsolete
    \/ PostTree

Next ==
    \/ UiStep
    \/ WorkerStep
    \/ SpuriousWake
    \/ DebounceElapses
    \/ Terminated

Spec == Init /\ [][Next]_vars

\* The scheduler runs both threads and time passes.  The user owes nothing: no fairness
\* on edits, opening a document or closing the window.  A mutex held for a moment at a
\* time is eventually granted, hence SF for the two steps that wait for the lock.
Fairness ==
    /\ SF_vars(RequestParse)
    /\ WF_vars(HandleReparse)
    /\ WF_vars(HandleTree)
    /\ WF_vars(WakeToStop)
    /\ WF_vars(Join)
    /\ WF_vars(DrainTree)
    /\ WF_vars(PostQuit)
    /\ WF_vars(WorkerStep)
    /\ WF_vars(DebounceElapses)

FairSpec == Spec /\ Fairness
-----------------------------------------------------------------------------
(* Properties. *)

UiStates == {"idle", "request", "stopping", "joining", "draining", "quit"}
WorkerStates == {"top", "locking", "checking", "fallingAsleep", "asleep", "woken", "dozingOff",
                 "dozing", "timedWoken", "claimed", "parsed", "posting", "done"}

\* Every variable has its type; in particular a tree is in the queue only as a whole
\* snapshot (the worker moves it out of its unique_ptr only to post it).
TypeOK ==
    /\ text \in Text
    /\ docVersion \in Nat
    /\ reparsePosted \in BOOLEAN
    /\ lastApplied \in Nat
    /\ shown \in Snapshot \cup {None}
    /\ queue \in Seq(Snapshot \cup {Reparse})
    /\ ui \in UiStates
    /\ request \in Snapshot
    /\ immediate \in BOOLEAN
    /\ lock \in {"none", "worker"}
    /\ pending \in Snapshot \cup {None}
    /\ due \in BOOLEAN
    /\ stop \in BOOLEAN
    /\ wpc \in WorkerStates
    /\ claimed \in Snapshot \cup {None}
    /\ edits \in Nat
    /\ sent \in Seq(Text)

\* Whenever the preview is allowed to use its tree's source offsets (toggling a task,
\* copying the source of a selection), the editor still holds the text that tree was
\* parsed from, however edits, stale WM_APP_REPARSE messages and trees interleave.
OffsetsValid == OffsetsTrusted => shown.text = text

\* Trees reach the preview in the order their snapshots were taken and at most once each:
\* the versions strictly increase from the tree on display through the queue, the worker
\* and the pending request, so the stale branch of WM_USER_PARSE_COMPLETE is never needed.
OrderedDelivery ==
    /\ \A i \in 1 .. Len(queue) : queue[i] # Reparse =>
          /\ queue[i].version > lastApplied
          /\ \A j \in 1 .. i - 1 : queue[j] # Reparse => queue[j].version < queue[i].version
          /\ claimed # None => queue[i].version < claimed.version
          /\ pending # None => queue[i].version < pending.version
    /\ claimed # None =>
          /\ claimed.version > lastApplied
          /\ pending # None => claimed.version < pending.version
    /\ pending # None => pending.version > lastApplied

\* Bursts are coalesced: counting the parse that WM_APP_REPARSE still owes, the document
\* is never copied more often than it changed (plus the parse WM_CREATE asks for).
Coalesced == docVersion + (IF reparsePosted THEN 1 ELSE 0) <= edits + 1

\* When WM_DESTROY is done the worker has ended and no tree is left in the queue, where
\* nobody would free it.
NoTreeLeak == ui = "quit" =>
    /\ wpc = "done"
    /\ claimed = None
    /\ \A i \in 1 .. Len(queue) : ~IsTree(i)

\* The pipeline implements the contract of the preview.
Contract == INSTANCE PreviewContract
RefinesContract == Contract!Spec

Open == ui \in {"idle", "request"}

\* Every text the document keeps is eventually the one on display (unless the window closes).
PreviewCatchesUp ==
    \A t \in Text :
        text = t ~> \/ text # t
                    \/ shown # None /\ shown.text = t
                    \/ ~Open

\* "Stops background worker thread" (parse_worker.h): Stop returns.
StopReturns == stop ~> ui = "quit"

\* Stop returns if its wake-up does not fall between the worker's check and its sleep.
StopReturnsUnlessMissed ==
    (ui = "joining" /\ wpc \notin {"fallingAsleep", "asleep"}) ~> ui = "quit"
=============================================================================
