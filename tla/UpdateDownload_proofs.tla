------------------------ MODULE UpdateDownload_proofs ------------------------
(***************************************************************************)
(* Proofs about the download of an update, for any number of windows that  *)
(* download it at once into the same files.                                *)
(***************************************************************************)
EXTENDS UpdateDownload, TLAPS

Label == {"connect", "look", "open", "hash", "discard", "create", "progress", "read", "close", "abandon",
          "verify", "compare", "rename", "remove", "done"}

TypeOK ==
    /\ target \in Content \cup {NoFile} /\ partial \in Content \cup {NoFile}
    /\ pc \in [Process -> Label] /\ received \in [Process -> 0..Chunks]
    /\ cancel \in [Process -> BOOLEAN] /\ ok \in [Process -> BOOLEAN] /\ failed \in [Process -> BOOLEAN]
    /\ dialog \in [Process -> {"open", "closed", "returned"}]
    /\ result \in [Process -> {"none", "installer", "error", "nothing"}]
    /\ overlapped \in BOOLEAN /\ swept \in BOOLEAN
    /\ seen \in [Process -> Content \cup {NoFile}]

\* The file somebody writes to is there: nobody else can remove or rename it.
WrittenIsThere == \A p \in Process : Writing(p) => partial # NoFile

\* Unless downloads overlapped, one window at a time uses the partial file.
OneAtATime == ~overlapped => \A p, q \in Process : Using(p) /\ Using(q) => p = q

\* What was compared with the published checksum is the whole installer, and still is when it is
\* renamed and after that, until a window removes it; and who has computed the checksum of the whole
\* installer does not go on to remove what has its name.
VerifiedStays ==
    /\ \A p \in Process : pc[p] = "rename" => partial = Installer \/ overlapped
    /\ \A p \in Process : ok[p] => /\ pc[p] = "done"
                                   /\ target = Installer \/ (target = NoFile /\ swept) \/ overlapped
    /\ \A p \in Process : pc[p] # "done" => seen[p] # Installer
    /\ \A p \in Process : result[p] = "installer" => ok[p]

\* Somebody is still to remove or rename a partial file, unless it is one left by an earlier run that
\* nobody came to replace.
SomebodyCleansUp ==
    partial # NoFile => \/ \E p \in Process : Using(p)
                        \/ \A p \in Process : received[p] = 0

ReturnedIsDone == \A p \in Process : dialog[p] = "returned" => pc[p] = "done"

IInv == TypeOK /\ WrittenIsThere /\ OneAtATime /\ VerifiedStays /\ SomebodyCleansUp /\ ReturnedIsDone

-----------------------------------------------------------------------------
LEMMA InitIInv == Init => IInv
<1> SUFFICES ASSUME Init
             PROVE  IInv
  OBVIOUS
<1>1. {} \in Content /\ Installer \in Content /\ {1} \in Content
  BY ChunksAssumption DEF Content, Installer
<1>2. target \in Content \cup {NoFile} /\ partial \in Content \cup {NoFile}
  BY <1>1 DEF Init
<1>3. received \in [Process -> 0 .. Chunks]
  <2>1. 0 \in 0 .. Chunks
    BY ChunksAssumption
  <2> QED
    BY <2>1 DEF Init
<1>5. pc \in [Process -> Label]
  BY DEF Init, Label
<1>6. TypeOK
  BY <1>2, <1>3, <1>5 DEF Init, TypeOK
<1>7. NoFile # Installer
  BY <1>1, NoFileAssumption DEF Content, Installer
<1>4. WrittenIsThere /\ OneAtATime /\ VerifiedStays /\ SomebodyCleansUp /\ ReturnedIsDone
  BY <1>7 DEF Init, WrittenIsThere, OneAtATime, VerifiedStays, SomebodyCleansUp, ReturnedIsDone, Writing, Using
<1> QED
  BY <1>4, <1>6 DEF IInv

Step(p) == Worker(p) \/ PressCancel(p) \/ DialogEnds(p) \/ Return(p)

\* The file a window reads into is there, and gets nothing but chunks of the installer.
LEMMA ReadWritesChunks ==
    ASSUME IInv, NEW p \in Process, Read(p)
    PROVE  partial' \in Content
<1>1. partial \in Content
  BY DEF IInv, TypeOK, WrittenIsThere, Writing, Read
<1>2. CASE UNCHANGED partial
  BY <1>1, <1>2
<1>3. CASE received[p] < Chunks /\ partial' = partial \cup {received[p] + 1}
  <2>1. received[p] + 1 \in Installer
    BY <1>3, ChunksAssumption DEF IInv, TypeOK, Installer
  <2> QED
    BY <1>1, <1>3, <2>1 DEF Content
<1> QED
  BY <1>2, <1>3 DEF Read, TransferFails

LEMMA TypeKeeps ==
    ASSUME IInv, NEW p \in Process, Step(p)
    PROVE  TypeOK'
<1> USE ChunksAssumption DEF IInv, TypeOK, Label, Content, Installer, files, history, state, ui, Finish, Goto
<1>1. CASE Connect(p) \/ Look(p) \/ Open(p) \/ Reuse(p) \/ Discard(p)
  BY <1>1 DEF Connect, Look, Open, OpenToHash, Reuse, Discard
<1>5. CASE Create(p) \/ Progress(p)
  BY <1>5 DEF Create, Progress
<1>2. CASE Read(p)
  <2>1. partial' \in Content
    BY <1>2, ReadWritesChunks
  <2>2. received' \in [Process -> 0..Chunks]
    BY <1>2 DEF Read, TransferFails
  <2>3. pc' \in [Process -> Label] /\ failed' \in [Process -> BOOLEAN]
    BY <1>2 DEF Read, TransferFails
  <2> QED
    BY <1>2, <2>1, <2>2, <2>3 DEF Read
<1>3. CASE Abandon(p) \/ Close(p) \/ Remove(p) \/ Verify(p) \/ Compare(p) \/ Rename(p)
  BY <1>3, ZenonT(60) DEF Abandon, Close, Remove, RemovePartial, Verify, OpenToHash, Compare, Rename
<1>4. CASE PressCancel(p) \/ DialogEnds(p) \/ Return(p)
  BY <1>4 DEF PressCancel, DialogEnds, Return, CloseDialog
<1> QED
  BY <1>1, <1>2, <1>3, <1>4, <1>5 DEF Step, Worker

LEMMA WrittenKeeps ==
    ASSUME IInv, NEW p \in Process, Step(p)
    PROVE  WrittenIsThere'
<1> USE NoFileAssumption DEF IInv, TypeOK, WrittenIsThere, Writing, Content, Installer, files, history, state, ui, Finish, Goto
<1>1. CASE Connect(p) \/ Look(p) \/ Open(p) \/ Reuse(p) \/ Discard(p) \/ Create(p) \/ Progress(p)
  BY <1>1 DEF Connect, Look, Open, OpenToHash, Reuse, Discard, Create, Progress
<1>2. CASE Read(p)
  <2>1. partial' # NoFile
    BY <1>2, ReadWritesChunks
  <2> QED
    BY <2>1
<1>3. CASE Abandon(p) \/ Close(p) \/ Remove(p) \/ Verify(p) \/ Compare(p) \/ Rename(p)
  BY <1>3 DEF Abandon, Close, Remove, RemovePartial, Verify, OpenToHash, Compare, Rename, CanMove
<1>4. CASE PressCancel(p) \/ DialogEnds(p) \/ Return(p)
  BY <1>4 DEF PressCancel, DialogEnds, Return, CloseDialog
<1> QED
  BY <1>1, <1>2, <1>3, <1>4 DEF Step, Worker

LEMMA OneKeeps ==
    ASSUME IInv, NEW p \in Process, Step(p)
    PROVE  OneAtATime'
<1> USE DEF IInv, TypeOK, OneAtATime, Using, files, history, state, ui, Finish, Goto
<1>1. CASE Connect(p) \/ Look(p) \/ Open(p) \/ Reuse(p) \/ Discard(p) \/ Progress(p)
  BY <1>1 DEF Connect, Look, Open, OpenToHash, Reuse, Discard, Progress
<1>2. CASE Read(p)
  BY <1>2 DEF Read, TransferFails
<1>5. CASE Create(p)
  <2>1. CASE partial' = {}
    <3>1. CASE \E q \in Process \ {p} : Using(q)
      BY <1>5, <3>1, ZenonT(60) DEF Create
    <3>2. CASE ~\E q \in Process \ {p} : Using(q)
      BY <1>5, <3>2 DEF Create
    <3> QED
      BY <3>1, <3>2
  <2> QED
    BY <1>5, <2>1 DEF Create
<1>3. CASE Abandon(p) \/ Close(p) \/ Remove(p) \/ Verify(p) \/ Compare(p) \/ Rename(p)
  BY <1>3 DEF Abandon, Close, Remove, RemovePartial, Verify, OpenToHash, Compare, Rename
<1>4. CASE PressCancel(p) \/ DialogEnds(p) \/ Return(p)
  BY <1>4 DEF PressCancel, DialogEnds, Return, CloseDialog
<1> QED
  BY <1>1, <1>2, <1>3, <1>4, <1>5 DEF Step, Worker

LEMMA VerifiedKeeps ==
    ASSUME IInv, NEW p \in Process, Step(p)
    PROVE  VerifiedStays'
<1> USE DEF IInv, TypeOK, VerifiedStays, OneAtATime, ReturnedIsDone, Using, files, history, state, ui, Finish, Goto
<1>1. CASE Connect(p) \/ Look(p) \/ Open(p) \/ Progress(p) \/ Abandon(p) \/ Close(p)
  BY <1>1 DEF Connect, Look, Open, OpenToHash, Progress, Abandon, Close
<1>2. CASE Reuse(p)
  BY <1>2 DEF Reuse
<1>8. CASE Discard(p)
  BY <1>8 DEF Discard
<1>3. CASE Create(p)
  BY <1>3, ZenonT(60) DEF Create
<1>4. CASE Read(p)
  BY <1>4 DEF Read, TransferFails
<1>5. CASE Remove(p) \/ Verify(p) \/ Compare(p)
  BY <1>5 DEF Remove, RemovePartial, Verify, OpenToHash, Compare
<1>6. CASE Rename(p)
  BY <1>6 DEF Rename
<1>7. CASE PressCancel(p) \/ DialogEnds(p) \/ Return(p)
  BY <1>7 DEF PressCancel, DialogEnds, Return, CloseDialog
<1> QED
  BY <1>1, <1>2, <1>3, <1>4, <1>5, <1>6, <1>7, <1>8 DEF Step, Worker

LEMMA CleanUpKeeps ==
    ASSUME IInv, NEW p \in Process, Step(p)
    PROVE  SomebodyCleansUp'
<1> USE DEF IInv, TypeOK, SomebodyCleansUp, Using, files, history, state, ui, Finish, Goto
<1>1. CASE Connect(p) \/ Look(p) \/ Open(p) \/ Reuse(p) \/ Discard(p) \/ Create(p) \/ Progress(p)
  BY <1>1 DEF Connect, Look, Open, OpenToHash, Reuse, Discard, Create, Progress
<1>2. CASE Read(p)
  BY <1>2 DEF Read, TransferFails
<1>3. CASE Remove(p)
  BY <1>3 DEF Remove, RemovePartial, CanMove, Writing
<1>4. CASE Abandon(p) \/ Close(p) \/ Verify(p) \/ Compare(p) \/ Rename(p)
  BY <1>4 DEF Abandon, Close, Verify, OpenToHash, Compare, Rename
<1>5. CASE PressCancel(p) \/ DialogEnds(p) \/ Return(p)
  BY <1>5 DEF PressCancel, DialogEnds, Return, CloseDialog
<1> QED
  BY <1>1, <1>2, <1>3, <1>4, <1>5 DEF Step, Worker

LEMMA ReturnedKeeps ==
    ASSUME IInv, NEW p \in Process, Step(p)
    PROVE  ReturnedIsDone'
<1> USE DEF IInv, TypeOK, ReturnedIsDone, files, history, state, ui, Finish, Goto
<1>1. CASE Worker(p)
  BY <1>1 DEF Worker, Connect, Look, Open, OpenToHash, Reuse, Discard, Create, Progress, Read, TransferFails,
                Abandon, Close, Remove, Verify, Compare, Rename
<1>2. CASE PressCancel(p) \/ DialogEnds(p) \/ Return(p)
  BY <1>2 DEF PressCancel, DialogEnds, Return, CloseDialog
<1> QED
  BY <1>1, <1>2 DEF Step

LEMMA NextIInv == IInv /\ [Next]_vars => IInv'
<1> SUFFICES ASSUME IInv, [Next]_vars
             PROVE  IInv'
  OBVIOUS
<1>1. CASE Next
  <2>1. PICK p \in Process : Step(p)
    BY <1>1 DEF Next, Step
  <2> QED
    BY <2>1, TypeKeeps, WrittenKeeps, OneKeeps, VerifiedKeeps, CleanUpKeeps, ReturnedKeeps DEF IInv
<1>2. CASE UNCHANGED vars
  BY <1>2 DEF vars, files, history, state, ui, IInv, TypeOK, WrittenIsThere, OneAtATime, VerifiedStays, SomebodyCleansUp,
              ReturnedIsDone, Writing, Using
<1> QED
  BY <1>1, <1>2

-----------------------------------------------------------------------------
(* The theorems. *)

\* The variables keep their types, and the files what the windows that use them rely on.
THEOREM DownloadInvariant == Spec => []IInv
  BY InitIInv, NextIInv, PTL DEF Spec

\* What is found where DownloadInstaller handed over an installer is the one whose checksum was
\* published, whatever the other windows do, unless one of them created the partial file while it
\* was being used; and if it is gone, a window removed it.
THEOREM OnlyVerifiedIsHandedOver == Spec => []HandedOverIsVerified
<1>1. IInv => HandedOverIsVerified
  BY DEF IInv, VerifiedStays, HandedOverIsVerified
<1> QED
  BY <1>1, DownloadInvariant, PTL

\* When every window has returned and any of them received something, no partial file is left,
\* although a window cannot remove it while another one has it open: the last one to use it can.
THEOREM NoPartialIsLeft == Spec => []NothingLeftBehind
<1>1. ASSUME IInv, \A p \in Process : dialog[p] = "returned", NEW p \in Process, received[p] > 0
      PROVE  partial = NoFile
  <2>1. \A q \in Process : ~Using(q)
    BY <1>1 DEF IInv, ReturnedIsDone, Using
  <2>2. received[p] # 0
    BY <1>1 DEF IInv, TypeOK
  <2> QED
    BY <1>1, <2>1, <2>2 DEF IInv, SomebodyCleansUp
<1>2. IInv => NothingLeftBehind
  BY <1>1 DEF NothingLeftBehind
<1> QED
  BY <1>2, DownloadInvariant, PTL
=============================================================================
