------------------------- MODULE AtomicSave_proofs -------------------------
(***************************************************************************)
(* Proofs about AtomicSave, for any number of processes and any contents.  *)
(***************************************************************************)
EXTENDS AtomicSave, TLAPS

\* The labels from which a temporary file may take the target's place.
Ready == {"exists", "replace", "moveOver", "move"}

\* Why the target is never torn: a temporary file is complete and flushed before any step
\* that can rename it is reached, and the target only ever came from such a file.
ReadyInv == \A p \in Process :
    /\ pc[p] \in Ready => temp[p] = [data |-> content[p], flushed |-> TRUE]
    /\ pc[p] = "flush" => temp[p] # Absent /\ temp[p].data = content[p]
    /\ pc[p] = "write" => temp[p] # Absent
    /\ content[p] = Absent <=> pc[p] \in {"idle", "dead"}
    /\ content[p] # Absent => (installed[p] <=> pc[p] = "done")

TargetInv == target # Absent => target.data \in Content /\ target.flushed

IInv == TypeOK /\ ReadyInv /\ TargetInv

LEMMA FileFacts ==
    /\ Absent \notin File
    /\ \A f \in File : f.data \in Content \cup {Partial} /\ f.flushed \in BOOLEAN
    /\ \A d \in Content \cup {Partial}, b \in BOOLEAN : [data |-> d, flushed |-> b] \in File
<1>1. Absent \notin File
  BY ContentAssumption
<1>2. \A f \in File : f.data \in Content \cup {Partial} /\ f.flushed \in BOOLEAN
  BY DEF File
<1>3. \A d \in Content \cup {Partial}, b \in BOOLEAN : [data |-> d, flushed |-> b] \in File
  BY DEF File
<1> QED
  BY <1>1, <1>2, <1>3

\* The temporary file of p becomes f: what every step that writes it has in common.
LEMMA WriteTemp ==
    ASSUME IInv, NEW p \in Process, NEW f \in File, NEW label \in Labels,
           temp' = [temp EXCEPT ![p] = f], Goto(p, label),
           UNCHANGED <<target, content, installed, result, saves>>,
           content[p] # Absent, pc[p] # "done",
           \/ label = "write"
           \/ label = "flush" /\ f.data = content[p]
           \/ label = "exists" /\ f = [data |-> content[p], flushed |-> TRUE]
    PROVE  IInv'
<1> USE DEF IInv, TypeOK, Goto
<1>1. TypeOK'
  OBVIOUS
<1>2. TargetInv'
  BY DEF TargetInv
<1>3. ASSUME NEW q \in Process, q # p
      PROVE  temp'[q] = temp[q] /\ pc'[q] = pc[q] /\ content'[q] = content[q] /\ installed'[q] = installed[q]
  BY <1>3
<1>4. temp'[p] = f /\ pc'[p] = label /\ content'[p] = content[p] /\ installed'[p] = installed[p]
  OBVIOUS
<1>5. f # Absent
  BY ContentAssumption
<1>6. ReadyInv'
  BY <1>3, <1>4, <1>5 DEF ReadyInv, Ready
<1> QED
  BY <1>1, <1>2, <1>6

LEMMA InitIInv == Init => IInv
<1> SUFFICES ASSUME Init
             PROVE  IInv
  OBVIOUS
<1> USE ContentAssumption DEF Init, NoFile
<1>1. target # Absent => target \in [data : Content, flushed : {TRUE}]
  OBVIOUS
<1>2. TargetInv
  BY <1>1 DEF TargetInv
<1>3. target \in File \cup {Absent}
  BY <1>1 DEF File
<1>4. TypeOK
  BY <1>3 DEF TypeOK, Labels
<1>5. ReadyInv
  BY DEF ReadyInv, Ready
<1> QED
  BY <1>2, <1>4, <1>5 DEF IInv

LEMMA NextIInv == IInv /\ [Next]_vars => IInv'
<1> SUFFICES ASSUME IInv, [Next]_vars
             PROVE  IInv'
  OBVIOUS
<1> USE ContentAssumption, FileFacts DEF IInv, TypeOK, ReadyInv, TargetInv, Ready, Labels, Goto, Return
<1>1. ASSUME NEW p \in Process, NEW c \in Content, Begin(p, c)
      PROVE  IInv'
  BY <1>1 DEF Begin
<1>2. ASSUME NEW p \in Process, Create(p)
      PROVE  IInv'
  <2>1. CASE temp' = [temp EXCEPT ![p] = [data |-> Partial, flushed |-> FALSE]] /\ Goto(p, "write")
             /\ UNCHANGED <<result, content>>
    BY <1>2, <2>1, WriteTemp DEF Create
  <2>2. CASE Return(p, "error") /\ UNCHANGED temp
    BY <1>2, <2>2 DEF Create
  <2> QED
    BY <1>2, <2>1, <2>2 DEF Create
<1>3. ASSUME NEW p \in Process, Write(p)
      PROVE  IInv'
  <2>1. content[p] \in Content
    BY <1>3 DEF Write
  <2>2. CASE temp' = [temp EXCEPT ![p] = [data |-> content[p], flushed |-> FALSE]] /\ Goto(p, "flush")
    <3>1. temp' = [temp EXCEPT ![p] = [data |-> content[p], flushed |-> FALSE]] /\ Goto(p, "flush")
          /\ pc[p] = "write" /\ UNCHANGED <<target, content, installed, result, saves>>
      BY <1>3, <2>2 DEF Write
    <3>2. [data |-> content[p], flushed |-> FALSE] \in File
      BY <2>1
    <3> HIDE DEF IInv, Labels
    <3> DEFINE f == [data |-> content[p], flushed |-> FALSE]
    <3>3. f.data = content[p] /\ "flush" \in Labels
      BY DEF Labels
    <3>4. content[p] # Absent
      BY <2>1
    <3> HIDE DEF f
    <3> QED
      BY <3>1, <3>2, <3>3, <3>4, WriteTemp DEF f
  <2>3. CASE Goto(p, "discard") /\ UNCHANGED temp
    BY <1>3, <2>3 DEF Write
  <2> QED
    BY <1>3, <2>2, <2>3 DEF Write
<1>4. ASSUME NEW p \in Process, Flush(p)
      PROVE  IInv'
  <2>1. temp[p] \in File /\ temp[p].data = content[p] /\ content[p] \in Content
    BY <1>4 DEF Flush
  <2>2. CASE temp' = [temp EXCEPT ![p] = [data |-> @.data, flushed |-> TRUE]] /\ Goto(p, "exists")
    <3>1. temp' = [temp EXCEPT ![p] = [data |-> content[p], flushed |-> TRUE]]
      BY <2>1, <2>2
    <3>2. [data |-> content[p], flushed |-> TRUE] \in File
      BY <2>1
    <3> QED
      BY <1>4, <2>1, <2>2, <3>1, <3>2, WriteTemp DEF Flush
  <2>3. CASE Goto(p, "discard") /\ UNCHANGED temp
    BY <1>4, <2>3 DEF Flush
  <2> QED
    BY <1>4, <2>2, <2>3 DEF Flush
<1>5. ASSUME NEW p \in Process, CheckTarget(p)
      PROVE  IInv'
  BY <1>5 DEF CheckTarget
<1>6. ASSUME NEW p \in Process, pc[p] \in Ready, Rename(p), saves' = saves
      PROVE  IInv'
  BY <1>6 DEF Rename
<1>7. ASSUME NEW p \in Process, NEW label \in Labels, pc[p] \in Ready, Fail(p, label), saves' = saves,
             label \in {"moveOver", "discard"}
      PROVE  IInv'
  BY <1>7 DEF Fail
<1>8. ASSUME NEW p \in Process, Replace(p) \/ MoveOver(p) \/ Move(p)
      PROVE  IInv'
  BY <1>6, <1>7, <1>8 DEF Replace, MoveOver, Move
<1>9. ASSUME NEW p \in Process, Done(p) \/ Discard(p)
      PROVE  IInv'
  <2>1. CASE Done(p)
    BY <2>1 DEF Done
  <2>2. CASE Discard(p)
    BY <2>2, ZenonT(60) DEF Discard
  <2> QED
    BY <1>9, <2>1, <2>2
<1>10. ASSUME NEW p \in Process, Die(p)
       PROVE  IInv'
  BY <1>10 DEF Die
<1>11. CASE PowerLoss
  BY <1>11 DEF PowerLoss, Survivors, NoFile
<1>12. CASE ExternalDelete
  BY <1>12 DEF ExternalDelete
<1>13. CASE UNCHANGED vars
  BY <1>13 DEF vars
<1> QED
  BY <1>1, <1>2, <1>3, <1>4, <1>5, <1>8, <1>9, <1>10, <1>11, <1>12, <1>13 DEF Next, Step

LEMMA Inductive == Spec => []IInv
  BY InitIInv, NextIInv, PTL DEF Spec

\* Type correctness.
THEOREM TypeCorrect == Spec => []TypeOK
<1>1. IInv => TypeOK
  BY DEF IInv
<1> QED
  BY <1>1, Inductive, PTL

\* The document is never half written, also after a crash or a loss of power.
THEOREM TargetNeverTorn == Spec => []NeverTorn
<1>1. IInv => NeverTorn
  BY ContentAssumption DEF IInv, TargetInv, NeverTorn
<1> QED
  BY <1>1, Inductive, PTL

-----------------------------------------------------------------------------
\* A save about to return, or that returned normally, has no temporary file.
CleanInv == \A p \in Process :
    pc[p] = "done" \/ (pc[p] = "idle" /\ result[p] = "ok") => temp[p] = Absent

LEMMA InitClean == Init => CleanInv
  BY DEF Init, CleanInv, NoFile

LEMMA NextClean == IInv /\ CleanInv /\ [Next]_vars => CleanInv'
<1> SUFFICES ASSUME TypeOK, CleanInv, [Next]_vars
             PROVE  CleanInv'
  BY DEF IInv
<1> USE DEF TypeOK, CleanInv, Labels, Goto, Return
<1>1. ASSUME NEW p \in Process, NEW c \in Content, Begin(p, c)
      PROVE  CleanInv'
  BY <1>1 DEF Begin
<1>2. ASSUME NEW p \in Process, Create(p) \/ Write(p) \/ Flush(p) \/ CheckTarget(p)
      PROVE  CleanInv'
  <2>1. CASE Create(p)
    BY <2>1 DEF Create
  <2>2. CASE Write(p)
    BY <2>2 DEF Write
  <2>3. CASE Flush(p)
    BY <2>3 DEF Flush
  <2>4. CASE CheckTarget(p)
    BY <2>4 DEF CheckTarget
  <2> QED
    BY <1>2, <2>1, <2>2, <2>3, <2>4
<1>3. ASSUME NEW p \in Process, Rename(p)
      PROVE  CleanInv'
  BY <1>3 DEF Rename
<1>4. ASSUME NEW p \in Process, NEW label \in {"moveOver", "discard"}, Fail(p, label)
      PROVE  CleanInv'
  BY <1>4 DEF Fail
<1>5. ASSUME NEW p \in Process, Replace(p) \/ MoveOver(p) \/ Move(p)
      PROVE  CleanInv'
  BY <1>3, <1>4, <1>5 DEF Replace, MoveOver, Move
<1>6. ASSUME NEW p \in Process, Done(p)
      PROVE  CleanInv'
  BY <1>6 DEF Done
<1>7. ASSUME NEW p \in Process, Discard(p)
      PROVE  CleanInv'
  BY <1>7 DEF Discard
<1>8. ASSUME NEW p \in Process, Die(p)
      PROVE  CleanInv'
  BY <1>8 DEF Die
<1>9. CASE PowerLoss
  BY <1>9 DEF PowerLoss
<1>10. CASE ExternalDelete
  BY <1>10 DEF ExternalDelete
<1>11. CASE UNCHANGED vars
  BY <1>11 DEF vars
<1> QED
  BY <1>1, <1>2, <1>5, <1>6, <1>7, <1>8, <1>9, <1>10, <1>11 DEF Next, Step

\* A save that returned normally left no temporary file.
THEOREM NoTempIsLeft == Spec => []NoStrayTemp
<1>1. CleanInv => NoStrayTemp
  BY DEF CleanInv, NoStrayTemp
<1>2. Spec => []CleanInv
  BY Inductive, InitClean, NextClean, PTL DEF Spec
<1> QED
  BY <1>1, <1>2, PTL

-----------------------------------------------------------------------------
\* The document as the abstract specification sees it.
Document == IF target = Absent THEN Absent ELSE target.data

LEMMA InitRefines == Init => File0!Init
<1> SUFFICES ASSUME Init
             PROVE  File0!Init
  OBVIOUS
<1>1. target # Absent => target \in [data : Content, flushed : {TRUE}]
  BY DEF Init
<1>2. Document \in Content \cup {Absent}
  BY <1>1 DEF Document
<1> QED
  BY <1>2 DEF Init, File0!Init, Document, NoFile

LEMMA NextRefines == IInv /\ [Next]_vars => [File0!Next]_File0!vars
<1> SUFFICES ASSUME IInv, [Next]_vars
             PROVE  File0!Next \/ UNCHANGED <<target, content, installed, result>>
  BY DEF File0!vars
<1> USE ContentAssumption DEF IInv, TypeOK, Goto
<1>1. ASSUME NEW p \in Process, NEW c \in Content, Begin(p, c)
      PROVE  File0!Start(p, c)
  BY <1>1 DEF Begin, File0!Start, ReadyInv
<1>2. ASSUME NEW p \in Process, pc[p] \notin {"idle", "dead", "done"}, Return(p, "error"),
             UNCHANGED <<target, installed>>
      PROVE  File0!Finish(p)
  BY <1>2 DEF Return, File0!Finish, ReadyInv
<1>3. ASSUME NEW p \in Process, Create(p)
      PROVE  File0!Finish(p) \/ UNCHANGED <<target, content, installed, result>>
  BY <1>2, <1>3 DEF Create
<1>4. ASSUME NEW p \in Process, Write(p) \/ Flush(p) \/ CheckTarget(p)
      PROVE  UNCHANGED <<target, content, installed, result>>
  BY <1>4 DEF Write, Flush, CheckTarget
<1>5. ASSUME NEW p \in Process, pc[p] \in Ready, Rename(p)
      PROVE  File0!Install(p)
  <2>1. temp[p] = [data |-> content[p], flushed |-> TRUE] /\ content[p] # Absent /\ ~installed[p]
    BY <1>5 DEF ReadyInv, Ready
  <2>2. temp[p] \in File
    <3>1. content[p] \in Content
      BY <2>1
    <3>2. [data |-> content[p], flushed |-> TRUE] \in File
      BY <3>1, FileFacts
    <3> QED
      BY <2>1, <3>2
  <2>3. target' = temp[p]
    BY <1>5 DEF Rename
  <2>4. target' # Absent
    BY <2>2, <2>3, FileFacts
  <2>5. target'.data = content[p]
    BY <2>1, <2>3
  <2> QED
    BY <1>5, <2>1, <2>4, <2>5 DEF Rename, File0!Install
<1>6. ASSUME NEW p \in Process, NEW label, Fail(p, label)
      PROVE  UNCHANGED <<target, content, installed, result>>
  BY <1>6 DEF Fail
<1>7. ASSUME NEW p \in Process, Replace(p) \/ MoveOver(p) \/ Move(p)
      PROVE  File0!Install(p) \/ UNCHANGED <<target, content, installed, result>>
  BY <1>5, <1>6, <1>7 DEF Replace, MoveOver, Move, Ready
<1>8. ASSUME NEW p \in Process, Done(p)
      PROVE  File0!Finish(p)
  BY <1>8 DEF Done, Return, File0!Finish, ReadyInv
<1>9. ASSUME NEW p \in Process, Discard(p)
      PROVE  File0!Finish(p)
  BY <1>2, <1>9 DEF Discard
<1>10. ASSUME NEW p \in Process, Die(p)
       PROVE  File0!Crash({p})
  BY <1>10 DEF Die, File0!Crash
<1>11. CASE PowerLoss
  <2>1. target' = target
    BY <1>11 DEF PowerLoss, Survivors, TargetInv
  <2>2. content' = [p \in Process |-> IF p \in Process THEN Absent ELSE content[p]]
    BY <1>11 DEF PowerLoss, NoFile
  <2> QED
    BY <1>11, <2>1, <2>2 DEF PowerLoss, File0!Crash, File0!Next
<1>12. CASE ExternalDelete
  BY <1>12 DEF ExternalDelete, File0!Delete, File0!Next
<1>13. CASE UNCHANGED vars
  BY <1>13 DEF vars
<1> QED
  BY <1>1, <1>3, <1>4, <1>7, <1>8, <1>9, <1>10, <1>11, <1>12, <1>13 DEF Next, Step, File0!Next

\* Every behaviour of the save is one the atomic file allows.
THEOREM ImplementsAtomicFile == Spec => RefinesAtomicFile
  BY Inductive, InitRefines, NextRefines, PTL DEF Spec, RefinesAtomicFile, File0!Spec
=============================================================================
