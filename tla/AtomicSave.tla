----------------------------- MODULE AtomicSave -----------------------------
(***************************************************************************)
(* WriteDocumentAtomic, which saves documents, HTML exports and the        *)
(* settings: write a temporary file beside the target, flush it, and put   *)
(* it in the target's place.  Several processes (Pluma opens one per       *)
(* window) may save to the same path; any Windows call may fail; a process *)
(* may die and the machine may lose power between any two calls.           *)
(*                                                                         *)
(* The file system is modelled from how the code uses it: a file has data  *)
(* and is flushed or not; a loss of power leaves any part of unflushed     *)
(* data; renaming is atomic.  ReplaceFileW is taken to replace the target  *)
(* or to change nothing.                                                   *)
(***************************************************************************)
EXTENDS Naturals

CONSTANTS
    Process,    \* processes; the pid is part of the temporary file's name
    Content,    \* encoded documents
    Absent,     \* no file
    Partial,    \* data of which only a part was written
    MaxSaves    \* bound: saves started in all

File == [data : Content \cup {Partial}, flushed : BOOLEAN]

ASSUME ContentAssumption == Partial \notin Content /\ Absent \notin Content \cup {Partial} \cup File
ASSUME MaxSavesAssumption == MaxSaves \in Nat

VARIABLES
    target,     \* the file at the path being saved, or Absent
    temp,       \* each process's temporary file, or Absent
    pc,         \* where each process is in WriteDocumentAtomic
    content,    \* encodedBytes of each process
    installed,  \* the save in progress replaced the target (history variable)
    result,     \* "none" before the first save, "ok" when it returned, "error" when it threw
    saves       \* saves started so far (bounded by MaxSaves)

vars == <<target, temp, pc, content, installed, result, saves>>

NoFile == [p \in Process |-> Absent]

Init ==
    /\ target \in [data : Content, flushed : {TRUE}] \cup {Absent}
    /\ temp = NoFile
    /\ pc = [p \in Process |-> "idle"]
    /\ content = NoFile
    /\ installed = [p \in Process |-> FALSE]
    /\ result = [p \in Process |-> "none"]
    /\ saves = 0

Goto(p, label) == pc' = [pc EXCEPT ![p] = label]

\* Return to the caller, or throw.
Return(p, outcome) ==
    /\ Goto(p, "idle")
    /\ result' = [result EXCEPT ![p] = outcome]
    /\ content' = [content EXCEPT ![p] = Absent]

\* A call: the document is encoded.
Begin(p, c) ==
    /\ pc[p] = "idle"
    /\ saves < MaxSaves
    /\ saves' = saves + 1
    /\ content' = [content EXCEPT ![p] = c]
    /\ installed' = [installed EXCEPT ![p] = FALSE]
    /\ Goto(p, "create")
    /\ UNCHANGED <<target, temp, result>>

\* CreateFileW(CREATE_ALWAYS) empties whatever had the temporary file's name.
Create(p) ==
    /\ pc[p] = "create"
    /\ \/ /\ temp' = [temp EXCEPT ![p] = [data |-> Partial, flushed |-> FALSE]]
          /\ Goto(p, "write")
          /\ UNCHANGED <<result, content>>
       \/ /\ Return(p, "error")
          /\ UNCHANGED temp
    /\ UNCHANGED <<target, installed, saves>>

\* WriteFile; a short write counts as a failure.
Write(p) ==
    /\ pc[p] = "write"
    /\ \/ /\ temp' = [temp EXCEPT ![p] = [data |-> content[p], flushed |-> FALSE]]
          /\ Goto(p, "flush")
       \/ /\ Goto(p, "discard")
          /\ UNCHANGED temp
    /\ UNCHANGED <<target, content, installed, result, saves>>

\* Mutant: does not wait for the data to reach the disk.
CloseWithoutFlush(p) ==
    /\ pc[p] = "flush"
    /\ Goto(p, "exists")
    /\ UNCHANGED <<target, temp, content, installed, result, saves>>

\* FlushFileBuffers and CloseHandle.
Flush(p) ==
    /\ pc[p] = "flush"
    /\ \/ /\ temp' = [temp EXCEPT ![p] = [data |-> @.data, flushed |-> TRUE]]
          /\ Goto(p, "exists")
       \/ /\ Goto(p, "discard")
          /\ UNCHANGED temp
    /\ UNCHANGED <<target, content, installed, result, saves>>

\* std::filesystem::exists(path) chooses how the temporary file takes its place; the
\* answer may be out of date by the time it is used.
CheckTarget(p) ==
    /\ pc[p] = "exists"
    /\ Goto(p, IF target # Absent THEN "replace" ELSE "move")
    /\ UNCHANGED <<target, temp, content, installed, result, saves>>

\* The temporary file becomes the target.
Rename(p) ==
    /\ target' = temp[p]
    /\ temp' = [temp EXCEPT ![p] = Absent]
    /\ installed' = [installed EXCEPT ![p] = TRUE]
    /\ Goto(p, "done")
    /\ UNCHANGED <<content, result>>

Fail(p, label) ==
    /\ Goto(p, label)
    /\ UNCHANGED <<target, temp, content, installed, result>>

\* ReplaceFileW needs a target.
Replace(p) ==
    /\ pc[p] = "replace"
    /\ \/ target # Absent /\ Rename(p)
       \/ Fail(p, "moveOver")
    /\ UNCHANGED saves

\* Mutant: the fallback copies the temporary file instead of moving it.
CopyOver(p) ==
    /\ pc[p] = "moveOver"
    /\ \/ /\ target' = temp[p]
          /\ installed' = [installed EXCEPT ![p] = TRUE]
          /\ Goto(p, "done")
          /\ UNCHANGED <<temp, content, result>>
       \/ Fail(p, "discard")
    /\ UNCHANGED saves

\* MoveFileExW(MOVEFILE_REPLACE_EXISTING), the fallback.
MoveOver(p) ==
    /\ pc[p] = "moveOver"
    /\ \/ Rename(p)
       \/ Fail(p, "discard")
    /\ UNCHANGED saves

\* Mutant: goes on as if the move had succeeded.
MoveIgnoringFailure(p) ==
    /\ pc[p] = "move"
    /\ \/ target = Absent /\ Rename(p)
       \/ Fail(p, "done")
    /\ UNCHANGED saves

\* MoveFileExW onto a path that must still be free.
Move(p) ==
    /\ pc[p] = "move"
    /\ \/ target = Absent /\ Rename(p)
       \/ Fail(p, "discard")
    /\ UNCHANGED saves

Done(p) ==
    /\ pc[p] = "done"
    /\ Return(p, "ok")
    /\ UNCHANGED <<target, temp, installed, saves>>

\* DeleteFileW on the temporary file (whose own failure is ignored), and throw.
Discard(p) ==
    /\ pc[p] = "discard"
    /\ \/ temp' = [temp EXCEPT ![p] = Absent]
       \/ UNCHANGED temp
    /\ Return(p, "error")
    /\ UNCHANGED <<target, installed, saves>>

\* The process ends in the middle; what it wrote stays.
Die(p) ==
    /\ pc[p] # "dead"
    /\ Goto(p, "dead")
    /\ content' = [content EXCEPT ![p] = Absent]
    /\ UNCHANGED <<target, temp, installed, result, saves>>

Survivors(f) ==
    IF f = Absent \/ f.flushed THEN {f} ELSE {f, [data |-> Partial, flushed |-> FALSE]}

\* The power goes: every process ends and unflushed data is at the mercy of the cache.
PowerLoss ==
    /\ \E p \in Process : pc[p] # "dead"
    /\ pc' = [p \in Process |-> "dead"]
    /\ content' = NoFile
    /\ target' \in Survivors(target)
    /\ temp' \in [Process -> File \cup {Absent}]
    /\ \A p \in Process : temp'[p] \in Survivors(temp[p])
    /\ UNCHANGED <<installed, result, saves>>

\* Another program deletes the document.
ExternalDelete ==
    /\ target # Absent
    /\ target' = Absent
    /\ UNCHANGED <<temp, pc, content, installed, result, saves>>

Step(p) ==
    \/ \E c \in Content : Begin(p, c)
    \/ Create(p) \/ Write(p) \/ Flush(p) \/ CheckTarget(p)
    \/ Replace(p) \/ MoveOver(p) \/ Move(p) \/ Done(p) \/ Discard(p)
    \/ Die(p)

Next ==
    \/ \E p \in Process : Step(p)
    \/ PowerLoss
    \/ ExternalDelete

Spec == Init /\ [][Next]_vars

-----------------------------------------------------------------------------
Labels == {"idle", "create", "write", "flush", "exists", "replace", "moveOver", "move",
           "done", "discard", "dead"}

\* Every variable has its type.
TypeOK ==
    /\ target \in File \cup {Absent}
    /\ temp \in [Process -> File \cup {Absent}]
    /\ pc \in [Process -> Labels]
    /\ content \in [Process -> Content \cup {Absent}]
    /\ installed \in [Process -> BOOLEAN]
    /\ result \in [Process -> {"none", "ok", "error"}]
    /\ saves \in Nat

\* The document on disk is never half written, whoever saves at the same time, whatever
\* fails, and also after the loss of power ("prevenir perdidas de datos ante cortes").
NeverTorn == target # Absent => target.data # Partial

\* A save that returned normally left no temporary file beside the document.
NoStrayTemp == \A p \in Process : pc[p] = "idle" /\ result[p] = "ok" => temp[p] = Absent

\* The save implements the atomic file.
File0 == INSTANCE AtomicFile WITH
            file   <- IF target = Absent THEN Absent ELSE target.data,
            saving <- content
RefinesAtomicFile == File0!Spec
=============================================================================
