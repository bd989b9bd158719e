----------------------------- MODULE AtomicFile -----------------------------
(***************************************************************************)
(* What an atomic save promises: a file holds, at every moment and after   *)
(* any crash, either nothing or one complete content that some save asked  *)
(* for; a save that reports success put its content there, and one that    *)
(* reports an error did not.                                               *)
(***************************************************************************)
CONSTANTS
    Process,   \* the running programs that save to the file
    Content,   \* complete contents
    Absent

VARIABLES
    file,      \* what a reader of the path finds
    saving,    \* what each process is saving, or Absent
    installed, \* the save in progress has replaced the file
    result     \* how each process's last save ended: "none", "ok" or "error"

vars == <<file, saving, installed, result>>

Init ==
    /\ file \in Content \cup {Absent}
    /\ saving = [p \in Process |-> Absent]
    /\ installed = [p \in Process |-> FALSE]
    /\ result = [p \in Process |-> "none"]

Start(p, c) ==
    /\ saving[p] = Absent
    /\ saving' = [saving EXCEPT ![p] = c]
    /\ installed' = [installed EXCEPT ![p] = FALSE]
    /\ UNCHANGED <<file, result>>

Install(p) ==
    /\ saving[p] # Absent
    /\ ~installed[p]
    /\ file' = saving[p]
    /\ installed' = [installed EXCEPT ![p] = TRUE]
    /\ UNCHANGED <<saving, result>>

Finish(p) ==
    /\ saving[p] # Absent
    /\ saving' = [saving EXCEPT ![p] = Absent]
    /\ result' = [result EXCEPT ![p] = IF installed[p] THEN "ok" ELSE "error"]
    /\ UNCHANGED <<file, installed>>

\* Processes die; the file keeps what it has.
Crash(P) ==
    /\ saving' = [p \in Process |-> IF p \in P THEN Absent ELSE saving[p]]
    /\ UNCHANGED <<file, installed, result>>

\* Someone else deletes the file.
Delete ==
    /\ file' = Absent
    /\ UNCHANGED <<saving, installed, result>>

Next ==
    \/ \E p \in Process : Install(p) \/ Finish(p) \/ \E c \in Content : Start(p, c)
    \/ \E P \in SUBSET Process : Crash(P)
    \/ Delete

Spec == Init /\ [][Next]_vars
=============================================================================
