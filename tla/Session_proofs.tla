--------------------------- MODULE Session_proofs ---------------------------
(***************************************************************************)
(* Proofs about the life of a document, for any files, texts and nesting   *)
(* of dialogs.                                                             *)
(***************************************************************************)
EXTENDS Session, TLAPS

Frame ==
    [kind : {"prompt", "saveAs", "running"}, then : FollowUp]
    \cup [kind : {"ansi"}, target : Path, content : Nat, then : FollowUp]
    \cup [kind : {"offer"}, check : {"automatic", "manual"}]
    \cup [kind : {"open", "notice", "download", "retry"}]

TypeOK ==
    /\ newest \in FirstText..MaxText
    /\ text \in 0..newest /\ savePoint \in 0..newest
    /\ path \in Path \cup {NoPath}
    /\ disk \in [Path -> 0..newest \cup {NoFile}]
    /\ checking \subseteq {"automatic", "manual"}
    /\ dialogs \in Seq(Frame)

\* The document may go.
Safe == Kept \/ text \in discarded \/ text \in late

\* A handler that has asked about the document, or did not need to, and now replaces it, ends the
\* window, or waits for the name of another document or for other windows.
HasAsked(f) == f.kind \in {"open", "retry"} \/ (f.kind = "running" /\ f.then \notin {"nothing", "save"})

\* A handler that waits with a text to write holds the editor's, unless Replace made that one since.
HoldsText(f) == f.kind = "ansi" => f.content \in 0..newest /\ (f.content = text \/ text \in late)

Sound(f) == (HasAsked(f) => Safe) /\ HoldsText(f)

\* What may run inside the message loop of another handler: notices, and the way to an installation.
Nested(f) ==
    \/ f.kind \in {"notice", "offer", "download", "retry"}
    \/ f.kind \in {"prompt", "ansi", "saveAs", "running"} /\ f.then = "install"

FramesAreSound == \A i \in 1..Len(dialogs) : Sound(dialogs[i])
OnlyBottomReplaces == \A i \in 1..Len(dialogs) : i < Len(dialogs) => Nested(dialogs[i])

IInv == TypeOK /\ UnmodifiedMeansKept /\ FramesAreSound /\ OnlyBottomReplaces

-----------------------------------------------------------------------------
(* The stack. *)

\* What Push makes of a stack.
LEMMA PushedStack ==
    ASSUME NEW S, NEW d \in Seq(S), NEW f \in S, NEW e, e = <<f>> \o d
    PROVE  /\ e \in Seq(S) /\ Len(e) = Len(d) + 1
           /\ e[1] = f /\ \A i \in 2..Len(e) : e[i] = d[i - 1]
  OBVIOUS

\* What Pop makes of a stack.
LEMMA PoppedStack ==
    ASSUME NEW S, NEW d \in Seq(S), d # <<>>
    PROVE  /\ Tail(d) \in Seq(S) /\ Len(Tail(d)) = Len(d) - 1
           /\ \A i \in 1..Len(Tail(d)) : Tail(d)[i] = d[i + 1]
           /\ Tail(d) = <<>> => Len(d) = 1
<1>1. Len(Tail(d)) = Len(d) - 1 /\ Len(d) \in Nat
  OBVIOUS
<1>2. Len(<<>>) = 0
  OBVIOUS
<1>3. ASSUME Tail(d) = <<>> PROVE Len(Tail(d)) = 0
  BY <1>2, <1>3, Zenon
<1>4. Tail(d) = <<>> => Len(d) = 1
  BY <1>1, <1>3
<1> QED
  BY <1>1, <1>4

\* What Become makes of a stack.
LEMMA ReplacedStack ==
    ASSUME NEW S, NEW d \in Seq(S), d # <<>>, NEW f \in S, NEW e, e = <<f>> \o Tail(d)
    PROVE  /\ e \in Seq(S) /\ Len(e) = Len(d) /\ Len(d) \in Nat
           /\ e[1] = f /\ \A i \in 2..Len(e) : e[i] = d[i]
  OBVIOUS

\* A step that makes no document less safe, nor a waiting text other than the editor's.
Keeps ==
    /\ Safe => Safe'
    /\ text' = text \/ text' \in late'
    /\ late \subseteq late'
    /\ newest' \in Nat /\ newest <= newest'

\* Such a step leaves the handlers that wait sound.
LEMMA StillSound ==
    ASSUME TypeOK, Keeps
    PROVE  \A f \in Frame : Sound(f) => Sound(f)'
  BY DEF Sound, HasAsked, HoldsText, Keeps, TypeOK

StackOK == dialogs \in Seq(Frame) /\ FramesAreSound /\ OnlyBottomReplaces

\* The stack is sound when each of its frames is.
LEMMA SoundStack ==
    ASSUME dialogs' \in Seq(Frame),
           \A i \in 1..Len(dialogs') : \A f \in Frame :
               f = dialogs'[i] => Sound(f)' /\ (i < Len(dialogs') => Nested(f))
    PROVE  StackOK'
<1>1. \A i \in 1..Len(dialogs') : dialogs'[i] \in Frame
  OBVIOUS
<1>2. FramesAreSound'
  BY <1>1 DEF FramesAreSound, Sound, HasAsked, HoldsText
<1>3. OnlyBottomReplaces'
  BY <1>1 DEF OnlyBottomReplaces, Nested
<1> QED
  BY <1>2, <1>3 DEF StackOK

LEMMA PopKeepsStack ==
    ASSUME TypeOK, FramesAreSound, OnlyBottomReplaces, Keeps, dialogs # <<>>, Pop
    PROVE  StackOK'
<1>1. /\ dialogs' \in Seq(Frame) /\ Len(dialogs') = Len(dialogs) - 1 /\ Len(dialogs) \in Nat
      /\ \A i \in 1..Len(dialogs') : dialogs'[i] = dialogs[i + 1]
  BY PoppedStack DEF Pop, TypeOK
<1>2. ASSUME NEW i \in 1..Len(dialogs'), NEW f \in Frame, f = dialogs'[i]
      PROVE  Sound(f)' /\ (i < Len(dialogs') => Nested(f))
  <2>1. i + 1 \in 1..Len(dialogs) /\ f = dialogs[i + 1] /\ (i < Len(dialogs') => i + 1 < Len(dialogs))
    BY <1>1, <1>2
  <2>2. Sound(f) /\ (i < Len(dialogs') => Nested(f))
    BY <2>1 DEF FramesAreSound, OnlyBottomReplaces
  <2> QED
    BY <2>2, StillSound
<1> QED
  BY <1>1, <1>2, SoundStack

LEMMA BecomeKeepsStack ==
    ASSUME TypeOK, FramesAreSound, OnlyBottomReplaces, Keeps, dialogs # <<>>, NEW f \in Frame, Become(f),
           Sound(f)', Tail(dialogs) = <<>> \/ Nested(f)
    PROVE  StackOK'
<1>1. /\ dialogs' \in Seq(Frame) /\ Len(dialogs') = Len(dialogs) /\ Len(dialogs) \in Nat
      /\ dialogs'[1] = f /\ \A i \in 2..Len(dialogs') : dialogs'[i] = dialogs[i]
  BY ReplacedStack DEF Become, TypeOK
<1>2. 1 < Len(dialogs) => Nested(f)
  <2>1. dialogs \in Seq(Frame)
    BY DEF TypeOK
  <2>2. Tail(dialogs) = <<>> => Len(dialogs) = 1
    BY <2>1, PoppedStack
  <2>3. 1 < Len(dialogs) => Len(dialogs) # 1
    BY <1>1
  <2> QED
    BY <2>2, <2>3, Zenon
<1>3. ASSUME NEW i \in 1..Len(dialogs'), NEW g \in Frame, g = dialogs'[i]
      PROVE  Sound(g)' /\ (i < Len(dialogs') => Nested(g))
  <2>1. CASE i = 1
    BY <2>1, <1>1, <1>2, <1>3
  <2>2. CASE i # 1
    <3>1. i \in 2..Len(dialogs) /\ i \in 1..Len(dialogs) /\ g = dialogs[i]
      BY <1>1, <1>3, <2>2
    <3>2. Sound(g) /\ (i < Len(dialogs') => Nested(g))
      BY <1>1, <3>1 DEF FramesAreSound, OnlyBottomReplaces
    <3> QED
      BY <3>2, StillSound
  <2> QED
    BY <2>1, <2>2
<1> QED
  BY <1>1, <1>3, SoundStack

LEMMA PushKeepsStack ==
    ASSUME TypeOK, FramesAreSound, OnlyBottomReplaces, Keeps \/ dialogs = <<>>, NEW f \in Frame, Push(f),
           Sound(f)', Nested(f) \/ dialogs = <<>>
    PROVE  StackOK'
<1>1. /\ dialogs' \in Seq(Frame) /\ Len(dialogs') = Len(dialogs) + 1 /\ Len(dialogs) \in Nat
      /\ dialogs'[1] = f /\ \A i \in 2..Len(dialogs') : dialogs'[i] = dialogs[i - 1]
  BY PushedStack DEF Push, TypeOK
<1>2. ASSUME NEW i \in 1..Len(dialogs'), NEW g \in Frame, g = dialogs'[i]
      PROVE  Sound(g)' /\ (i < Len(dialogs') => Nested(g))
  <2>1. CASE i = 1
    BY <2>1, <1>1, <1>2 DEF TypeOK
  <2>2. CASE i # 1
    <3>1. i - 1 \in 1..Len(dialogs) /\ g = dialogs[i - 1] /\ (i < Len(dialogs') => i - 1 < Len(dialogs)) /\ dialogs # <<>>
      BY <1>1, <1>2, <2>2
    <3>2. Sound(g) /\ (i < Len(dialogs') => Nested(g))
      BY <3>1 DEF FramesAreSound, OnlyBottomReplaces
    <3> QED
      BY <3>1, <3>2, StillSound
  <2> QED
    BY <2>1, <2>2
<1> QED
  BY <1>1, <1>2, SoundStack

LEMMA FrameKinds ==
    /\ \A then \in FollowUp : Prompt(then) \in Frame /\ SaveDialog(then) \in Frame /\ Running(then) \in Frame
    /\ \A target \in Path, content \in Nat, then \in FollowUp : AnsiPrompt(target, content, then) \in Frame
    /\ \A check \in {"automatic", "manual"} : Offer(check) \in Frame
    /\ OpenDialog \in Frame /\ Notice \in Frame /\ Download \in Frame /\ OtherWindows \in Frame
  BY DEF Frame, Prompt, SaveDialog, Running, AnsiPrompt, Offer, OpenDialog, Notice, Download, OtherWindows

\* The handler that acts is sound, and below another one only if it may be.
LEMMA TopFrame ==
    ASSUME IInv, dialogs # <<>>
    PROVE  /\ Head(dialogs) \in Frame /\ Sound(Head(dialogs))
           /\ Nested(Head(dialogs)) \/ Tail(dialogs) = <<>>
<1>1. Head(dialogs) = dialogs[1] /\ 1 \in 1..Len(dialogs) /\ (1 < Len(dialogs) \/ Tail(dialogs) = <<>>)
  BY DEF IInv, TypeOK
<1>2. dialogs[1] \in Frame
  BY <1>1 DEF IInv, TypeOK
<1>3. Sound(dialogs[1]) /\ (1 < Len(dialogs) => Nested(dialogs[1]))
  BY <1>1 DEF IInv, FramesAreSound, OnlyBottomReplaces
<1> QED
  BY <1>1, <1>2, <1>3

\* A step that leaves the document alone: only the stack and the update check change.
LEMMA QuietKeeps ==
    ASSUME IInv, UNCHANGED <<document, disk, newest, late>>, Safe => Safe',
           checking' \subseteq {"automatic", "manual"}, StackOK'
    PROVE  IInv'
<1>1. TypeOK'
  BY DEF IInv, TypeOK, document, StackOK
<1>2. UnmodifiedMeansKept'
  BY DEF IInv, UnmodifiedMeansKept, IsModified, Kept, document
<1> QED
  BY <1>1, <1>2 DEF IInv, StackOK

LEMMA SameIsSafe ==
    ASSUME TypeOK, UNCHANGED <<document, disk, newest, late>>, discarded \subseteq discarded'
    PROVE  Keeps /\ (Safe => Safe')
<1>1. Safe => Safe'
  BY DEF Safe, Kept, document
<1> QED
  BY <1>1 DEF Keeps, document, TypeOK

LEMMA PopQuietly ==
    ASSUME IInv, dialogs # <<>>, Pop, Quiet
    PROVE  IInv'
<1>1. Keeps /\ (Safe => Safe')
  BY SameIsSafe DEF IInv, Quiet
<1>2. StackOK'
  BY <1>1, PopKeepsStack DEF IInv
<1> QED
  BY <1>1, <1>2, QuietKeeps DEF IInv, Quiet, TypeOK, update

LEMMA BecomeQuietly ==
    ASSUME IInv, dialogs # <<>>, NEW f \in Frame, Become(f), Quiet, Sound(f), Tail(dialogs) = <<>> \/ Nested(f)
    PROVE  IInv'
<1>1. Keeps /\ (Safe => Safe')
  BY SameIsSafe DEF IInv, Quiet
<1>2. Sound(f)'
  BY <1>1, StillSound DEF IInv
<1>3. StackOK'
  BY <1>1, <1>2, BecomeKeepsStack DEF IInv
<1> QED
  BY <1>1, <1>3, QuietKeeps DEF IInv, Quiet, TypeOK, update

LEMMA NoticeQuietly ==
    ASSUME IInv, dialogs # <<>>, Become(Notice), Quiet
    PROVE  IInv'
<1>1. Sound(Notice) /\ Nested(Notice)
  BY DEF Notice, Sound, HasAsked, HoldsText, Nested
<1> QED
  BY <1>1, BecomeQuietly, FrameKinds

-----------------------------------------------------------------------------
(* Saving. *)

\* What may be done after the handler at the top.
MayFollow(then) == then \in FollowUp /\ (Tail(dialogs) = <<>> \/ then = "install")

LEMMA WriteKeeps ==
    ASSUME IInv, dialogs # <<>>, NEW target \in Path, NEW content \in 0..newest, content = text \/ text \in late,
           NEW enc, NEW then, MayFollow(then), Write(target, content, enc, then)
    PROVE  IInv'
<1>1. CASE UNCHANGED <<disk, path, source, savePoint>> /\ Become(Notice)
  <2>1. Kept => Kept'
    BY <1>1 DEF Write, Kept
  <2>2. Keeps
    BY <1>1, <2>1 DEF Write, Keeps, Safe, IInv, TypeOK
  <2>3. Sound(Notice)' /\ Nested(Notice)
    BY DEF Notice, Sound, HasAsked, HoldsText, Nested
  <2>4. StackOK'
    BY <1>1, <2>2, <2>3, BecomeKeepsStack, FrameKinds DEF IInv
  <2>5. TypeOK'
    BY <1>1, <2>4 DEF Write, IInv, TypeOK, StackOK, update
  <2>6. UnmodifiedMeansKept'
    BY <1>1, <2>1 DEF Write, IInv, UnmodifiedMeansKept, IsModified, Kept
  <2> QED
    BY <2>4, <2>5, <2>6 DEF IInv, StackOK
<1>2. CASE /\ disk' = [disk EXCEPT ![target] = content] /\ path' = target /\ source' = target
           /\ savePoint' = text /\ Become(Running(then))
  <2>1. path' # NoPath /\ disk'[target] = content
    BY <1>2, PathAssumption DEF IInv, TypeOK
  <2>2. text' = text /\ late' = late /\ discarded' = discarded /\ newest' = newest
    BY DEF Write
  <2>3. Kept' \/ text' \in late'
    BY <1>2, <2>1, <2>2 DEF Kept
  <2>4. Safe'
    BY <2>3 DEF Safe
  <2>5. Keeps
    BY <2>2, <2>4 DEF Keeps, IInv, TypeOK
  <2>6. Sound(Running(then))'
    BY <2>4 DEF Running, Sound, HoldsText
  <2>7. Tail(dialogs) = <<>> \/ Nested(Running(then))
    BY DEF MayFollow, Nested, Running
  <2>8. StackOK'
    BY <1>2, <2>5, <2>6, <2>7, BecomeKeepsStack, FrameKinds DEF IInv, MayFollow
  <2>9. TypeOK'
    BY <1>2, <2>2, <2>8 DEF Write, IInv, TypeOK, StackOK, update
  <2>10. UnmodifiedMeansKept'
    BY <1>2, <2>3 DEF UnmodifiedMeansKept
  <2> QED
    BY <2>8, <2>9, <2>10 DEF IInv, StackOK
<1> QED
  BY <1>1, <1>2 DEF Write

LEMMA WriteCurrentKeeps ==
    ASSUME IInv, dialogs # <<>>, NEW target \in Path, NEW then, MayFollow(then), WriteCurrentDocument(target, then)
    PROVE  IInv'
<1>1. text \in 0..newest /\ text \in Nat /\ then \in FollowUp
  BY DEF IInv, TypeOK, MayFollow
<1>2. CASE Become(AnsiPrompt(target, text, then)) /\ Quiet
  <2>1. AnsiPrompt(target, text, then) \in Frame
    BY <1>1, FrameKinds
  <2>2. Sound(AnsiPrompt(target, text, then))
    BY <1>1 DEF AnsiPrompt, Sound, HasAsked, HoldsText
  <2>3. Tail(dialogs) = <<>> \/ Nested(AnsiPrompt(target, text, then))
    BY DEF MayFollow, Nested, AnsiPrompt
  <2> QED
    BY <1>2, <2>1, <2>2, <2>3, BecomeQuietly
<1>3. CASE Write(target, text, encoding, then)
  BY <1>1, <1>3, WriteKeeps
<1> QED
  BY <1>2, <1>3 DEF WriteCurrentDocument

LEMMA SaveFileKeeps ==
    ASSUME IInv, dialogs # <<>>, NEW then, MayFollow(then), SaveFile(then)
    PROVE  IInv'
<1>1. CASE Become(SaveDialog(then)) /\ Quiet
  <2>1. SaveDialog(then) \in Frame
    BY FrameKinds DEF MayFollow
  <2>2. Sound(SaveDialog(then))
    BY DEF SaveDialog, Sound, HasAsked, HoldsText
  <2>3. Tail(dialogs) = <<>> \/ Nested(SaveDialog(then))
    BY DEF MayFollow, Nested, SaveDialog
  <2> QED
    BY <1>1, <2>1, <2>2, <2>3, BecomeQuietly
<1>2. CASE path # NoPath /\ WriteCurrentDocument(path, then)
  <2>1. path \in Path
    BY <1>2 DEF IInv, TypeOK
  <2> QED
    BY <1>2, <2>1, WriteCurrentKeeps
<1> QED
  BY <1>1, <1>2 DEF SaveFile

\* What the handler at the top wants to do next may follow it.
LEMMA TopMayFollow ==
    ASSUME IInv, dialogs # <<>>, Head(dialogs).kind \in {"prompt", "ansi", "saveAs", "running"}
    PROVE  MayFollow(Head(dialogs).then)
<1>1. Head(dialogs).then \in FollowUp
  BY TopFrame DEF Frame
<1>2. CASE Nested(Head(dialogs))
  BY <1>1, <1>2 DEF Nested, MayFollow
<1>3. CASE Tail(dialogs) = <<>>
  BY <1>1, <1>3 DEF MayFollow
<1> QED
  BY <1>2, <1>3, TopFrame

LEMMA AnswerAnsiKeeps == IInv /\ AnswerAnsi => IInv'
<1> SUFFICES ASSUME IInv, AnswerAnsi
             PROVE  IInv'
  OBVIOUS
<1>1. dialogs # <<>> /\ Head(dialogs).kind = "ansi"
  BY DEF AnswerAnsi, Top
<1>2. CASE Pop /\ Quiet
  BY <1>1, <1>2, PopQuietly
<1>3. CASE \E enc \in {"Unicode", "Ansi"} : Write(Head(dialogs).target, Head(dialogs).content, enc, Head(dialogs).then)
  <2>1. Head(dialogs).target \in Path
    BY <1>1, TopFrame DEF Frame
  <2>2. Head(dialogs).content \in 0..newest /\ (Head(dialogs).content = text \/ text \in late)
    BY <1>1, TopFrame DEF Sound, HoldsText
  <2> QED
    BY <1>1, <1>3, <2>1, <2>2, TopMayFollow, WriteKeeps
<1> QED
  BY <1>2, <1>3 DEF AnswerAnsi

LEMMA AnswerSaveDialogKeeps == IInv /\ AnswerSaveDialog => IInv'
  BY TopMayFollow, WriteCurrentKeeps, PopQuietly DEF AnswerSaveDialog, Top

LEMMA AnswerPromptKeeps == IInv /\ AnswerPrompt => IInv'
<1> SUFFICES ASSUME IInv, AnswerPrompt
             PROVE  IInv'
  OBVIOUS
<1>0. dialogs # <<>> /\ Head(dialogs).kind = "prompt" /\ MayFollow(Head(dialogs).then)
  BY TopMayFollow DEF AnswerPrompt, Top
<1> PICK then \in FollowUp : then = Head(dialogs).then
  BY <1>0 DEF MayFollow
<1>1. dialogs # <<>> /\ MayFollow(then)
  BY <1>0
<1>2. CASE Pop /\ Quiet
  BY <1>1, <1>2, PopQuietly
<1>3. CASE SaveFile(then)
  BY <1>1, <1>3, SaveFileKeeps
<1>4. CASE /\ Become(Running(then)) /\ discarded' = discarded \cup {text}
           /\ UNCHANGED <<document, disk, newest, update, closed, late>>
  <2>1. Keeps /\ Safe'
    BY <1>4, SameIsSafe DEF Safe, IInv, document
  <2>2. Running(then) \in Frame
    BY <1>1, FrameKinds DEF MayFollow
  <2>3. Sound(Running(then))'
    BY <2>1 DEF Running, Sound, HoldsText
  <2>4. Tail(dialogs) = <<>> \/ Nested(Running(then))
    BY <1>1 DEF MayFollow, Nested, Running
  <2>5. StackOK'
    BY <1>1, <1>4, <2>1, <2>2, <2>3, <2>4, BecomeKeepsStack DEF IInv
  <2> QED
    BY <1>4, <2>1, <2>5, QuietKeeps DEF IInv, TypeOK, update
<1> QED
  BY <1>2, <1>3, <1>4 DEF AnswerPrompt

-----------------------------------------------------------------------------
(* The other steps. *)

LEMMA InitIInv == Init => IInv
<1> SUFFICES ASSUME Init
             PROVE  IInv
  OBVIOUS
<1>1. TypeOK
  BY DiskAssumption DEF Init, TypeOK
<1>2. UnmodifiedMeansKept
  BY DEF Init, UnmodifiedMeansKept, IsModified, Kept
<1>3. Len(dialogs) = 0
  BY DEF Init
<1> QED
  BY <1>1, <1>2, <1>3 DEF IInv, FramesAreSound, OnlyBottomReplaces

\* A new text is not at the save point.
LEMMA MakeTextKeeps ==
    ASSUME IInv, MakeText, StackOK'
    PROVE  IInv'
<1>1. newest \in Nat /\ MaxText \in Nat /\ FirstText \in Nat
  BY DiskAssumption DEF IInv, TypeOK
<1>2. TypeOK'
  BY <1>1 DEF IInv, TypeOK, MakeText, StackOK, update
<1>3. IsModified'
  BY <1>1 DEF IInv, TypeOK, MakeText, IsModified
<1>4. path' = source'
  BY DEF IInv, UnmodifiedMeansKept, MakeText
<1> QED
  BY <1>2, <1>3, <1>4 DEF IInv, UnmodifiedMeansKept, StackOK

LEMMA TypeKeeps == IInv /\ Type => IInv'
<1> SUFFICES ASSUME IInv, Type
             PROVE  IInv'
  OBVIOUS
<1>1. dialogs' \in Seq(Frame) /\ Len(dialogs') = 0
  BY DEF Type, Enabled, IInv, TypeOK
<1>2. StackOK'
  BY <1>1, SoundStack
<1> QED
  BY <1>2, MakeTextKeeps DEF Type

LEMMA ReplaceAllKeeps == IInv /\ ReplaceAll => IInv'
<1> SUFFICES ASSUME IInv, ReplaceAll
             PROVE  IInv'
  OBVIOUS
<1>1. MakeText /\ Push(Notice)
  BY DEF ReplaceAll
<1>2. Keeps \/ dialogs = <<>>
  BY <1>1 DEF ReplaceAll, MakeText, Keeps, Safe, IInv, TypeOK
<1>3. Sound(Notice)' /\ Nested(Notice)
  BY DEF Notice, Sound, HasAsked, HoldsText, Nested
<1>4. StackOK'
  BY <1>1, <1>2, <1>3, PushKeepsStack, FrameKinds DEF IInv
<1> QED
  BY <1>1, <1>4, MakeTextKeeps

\* A document without the modified mark may go.
LEMMA UnmodifiedIsSafe == IInv /\ ~IsModified => Safe
  BY DEF IInv, UnmodifiedMeansKept, Safe

LEMMA CommandKeeps == IInv /\ Command => IInv'
<1> SUFFICES ASSUME IInv, Command
             PROVE  IInv'
  OBVIOUS
<1>1. dialogs = <<>> /\ UNCHANGED <<document, disk, newest, update, closed, late>>
  BY DEF Command, Enabled
<1>2. ASSUME NEW f \in Frame, Push(f), Sound(f)'
      PROVE  StackOK'
  BY <1>1, <1>2, PushKeepsStack DEF IInv
<1>3. ASSUME ~IsModified
      PROVE  Safe'
  BY <1>1, <1>3 DEF IInv, UnmodifiedMeansKept, Safe, Kept, document
<1>4. ASSUME NEW then \in FollowUp, Push(PromptSaveChanges(then))
      PROVE  StackOK'
  <2>1. CASE IsModified
    <3>1. Push(Prompt(then)) /\ Prompt(then) \in Frame
      BY <1>4, <2>1, FrameKinds DEF PromptSaveChanges
    <3>2. Sound(Prompt(then))'
      BY DEF Prompt, Sound, HasAsked, HoldsText
    <3> QED
      BY <1>2, <3>1, <3>2
  <2>2. CASE ~IsModified
    <3>1. Push(Running(then)) /\ Running(then) \in Frame
      BY <1>4, <2>2, FrameKinds DEF PromptSaveChanges
    <3>2. Sound(Running(then))'
      BY <1>3, <2>2 DEF Running, Sound, HoldsText
    <3> QED
      BY <1>2, <3>1, <3>2
  <2> QED
    BY <2>1, <2>2
<1>5. ASSUME Push(Running("save"))
      PROVE  StackOK'
  <2>1. Running("save") \in Frame
    BY FrameKinds DEF FollowUp, Steps
  <2>2. Sound(Running("save"))'
    BY DEF Running, Sound, HasAsked, HoldsText
  <2> QED
    BY <1>5, <2>1, <2>2, <1>2
<1>6. ASSUME Push(SaveDialog("nothing"))
      PROVE  StackOK'
  <2>1. SaveDialog("nothing") \in Frame
    BY FrameKinds DEF FollowUp, Steps
  <2>2. Sound(SaveDialog("nothing"))'
    BY DEF SaveDialog, Sound, HasAsked, HoldsText
  <2> QED
    BY <1>6, <2>1, <2>2, <1>2
<1>7. {"new", "openDialog", "close"} \cup Path \subseteq FollowUp
  BY DEF FollowUp, Steps
<1>8. StackOK'
  BY <1>4, <1>5, <1>6, <1>7 DEF Command
<1>9. TypeOK'
  BY <1>1, <1>8 DEF IInv, TypeOK, document, update, StackOK
<1>10. UnmodifiedMeansKept'
  BY <1>1 DEF IInv, UnmodifiedMeansKept, IsModified, Kept, document
<1> QED
  BY <1>8, <1>9, <1>10 DEF IInv, StackOK

LEMMA AnswerOpenDialogKeeps == IInv /\ AnswerOpenDialog => IInv'
<1> SUFFICES ASSUME IInv, AnswerOpenDialog
             PROVE  IInv'
  OBVIOUS
<1>1. dialogs # <<>> /\ Head(dialogs).kind = "open" /\ Quiet
  BY DEF AnswerOpenDialog, Top
<1>2. Safe
  BY <1>1, TopFrame DEF Sound, HasAsked
<1>3. Tail(dialogs) = <<>>
  BY <1>1, TopFrame DEF Nested
<1>4. ASSUME NEW p \in Path, Become(Running(p))
      PROVE  IInv'
  <2>1. Running(p) \in Frame
    BY FrameKinds DEF FollowUp
  <2>2. Sound(Running(p))
    BY <1>2 DEF Running, Sound, HoldsText
  <2> QED
    BY <1>1, <1>3, <1>4, <2>1, <2>2, BecomeQuietly
<1> QED
  BY <1>1, <1>4, PopQuietly DEF AnswerOpenDialog

LEMMA CloseNoticeKeeps == IInv /\ CloseNotice => IInv'
  BY PopQuietly DEF CloseNotice, Top

\* The stack of a step that changes something else.
LEMMA SameStack ==
    ASSUME TypeOK, FramesAreSound, OnlyBottomReplaces, Keeps, dialogs' = dialogs
    PROVE  StackOK'
<1>1. dialogs' \in Seq(Frame)
  BY DEF TypeOK
<1>2. ASSUME NEW i \in 1..Len(dialogs'), NEW f \in Frame, f = dialogs'[i]
      PROVE  Sound(f)' /\ (i < Len(dialogs') => Nested(f))
  <2>1. Sound(f) /\ (i < Len(dialogs') => Nested(f))
    BY <1>2 DEF FramesAreSound, OnlyBottomReplaces
  <2> QED
    BY <2>1, StillSound
<1> QED
  BY <1>1, <1>2, SoundStack

\* The handler that replaces the document or closes the window has asked about it, and is the
\* bottom one unless it installs.
LEMMA RunningHasAsked ==
    ASSUME IInv, dialogs # <<>>, Head(dialogs).kind = "running"
    PROVE  /\ Head(dialogs).then \notin {"nothing", "save"} => Safe
           /\ Head(dialogs).then # "install" => Tail(dialogs) = <<>>
  BY TopFrame DEF Sound, HasAsked, Nested

\* A handler that is the only one and returns leaves nothing behind it.
LEMMA PopLast ==
    ASSUME TypeOK, dialogs # <<>>, Tail(dialogs) = <<>>, Pop
    PROVE  StackOK'
<1>1. dialogs' = <<>>
  BY DEF Pop
<1>2. dialogs' \in Seq(Frame) /\ Len(dialogs') = 0
  BY <1>1
<1> QED
  BY <1>2, SoundStack

LEMMA NewFileKeeps ==
    ASSUME IInv, dialogs # <<>>, Tail(dialogs) = <<>>, NewFile
    PROVE  IInv'
<1>1. StackOK'
  BY PopLast DEF IInv, NewFile
<1>2. newest \in Nat
  BY DiskAssumption DEF IInv, TypeOK
<1>3. TypeOK'
  BY <1>1, <1>2 DEF IInv, TypeOK, NewFile, StackOK, update
<1>4. UnmodifiedMeansKept'
  BY DEF NewFile, UnmodifiedMeansKept, Kept
<1> QED
  BY <1>1, <1>3, <1>4 DEF IInv, StackOK

LEMMA OpenFileKeeps ==
    ASSUME IInv, dialogs # <<>>, Tail(dialogs) = <<>>, NEW p \in Path, OpenFile(p)
    PROVE  IInv'
<1>1. CASE Become(Notice) /\ Quiet
  BY <1>1, NoticeQuietly
<1>2. CASE /\ disk[p] # NoFile /\ text' = disk[p] /\ savePoint' = disk[p] /\ path' = p /\ source' = p /\ Pop
           /\ UNCHANGED <<disk, newest, update, closed, discarded, late>>
  <2>1. StackOK'
    BY <1>2, PopLast DEF IInv
  <2>2. disk[p] \in 0..newest
    BY <1>2 DEF IInv, TypeOK
  <2>3. TypeOK'
    BY <1>2, <2>1, <2>2 DEF IInv, TypeOK, StackOK, update
  <2>4. p # NoPath
    BY PathAssumption
  <2>5. UnmodifiedMeansKept'
    BY <1>2, <2>4 DEF UnmodifiedMeansKept, Kept
  <2> QED
    BY <2>1, <2>3, <2>5 DEF IInv, StackOK
<1> QED
  BY <1>1, <1>2 DEF OpenFile

LEMMA DestroyWindowKeeps == IInv /\ DestroyWindow => IInv'
<1> SUFFICES ASSUME IInv, DestroyWindow
             PROVE  IInv'
  OBVIOUS
<1>1. Keeps /\ (Safe => Safe')
  BY SameIsSafe DEF IInv, DestroyWindow
<1>2. StackOK'
  BY <1>1, SameStack DEF IInv, DestroyWindow
<1> QED
  BY <1>1, <1>2, QuietKeeps DEF IInv, DestroyWindow, TypeOK, update

LEMMA InstallKeeps ==
    ASSUME IInv, dialogs # <<>>, Safe, Install
    PROVE  IInv'
<1>1. CASE Become(OtherWindows) /\ Quiet
  <2>1. Sound(OtherWindows) /\ Nested(OtherWindows)
    BY DEF OtherWindows, Sound, HoldsText, Nested
  <2> QED
    BY <1>1, <2>1, BecomeQuietly, FrameKinds
<1>2. CASE DestroyWindow
  BY <1>2, DestroyWindowKeeps
<1>3. CASE Become(Notice) /\ Quiet
  BY <1>3, NoticeQuietly
<1> QED
  BY <1>1, <1>2, <1>3 DEF Install

LEMMA RunKeeps == IInv /\ Run => IInv'
<1> SUFFICES ASSUME IInv, Run
             PROVE  IInv'
  OBVIOUS
<1>1. dialogs # <<>> /\ Head(dialogs).kind = "running"
  BY DEF Run, Top
<1> PICK then \in FollowUp : then = Head(dialogs).then
  BY <1>1, TopMayFollow DEF MayFollow
<1>2. (then \notin {"nothing", "save"} => Safe) /\ (then # "install" => Tail(dialogs) = <<>>)
  BY <1>1, RunningHasAsked
<1>3. CASE then = "nothing" /\ Pop /\ Quiet
  BY <1>1, <1>3, PopQuietly
<1>4. CASE then = "save" /\ SaveFile("nothing")
  <2>1. MayFollow("nothing")
    BY <1>2, <1>4 DEF MayFollow, FollowUp, Steps
  <2> QED
    BY <1>1, <1>4, <2>1, SaveFileKeeps
<1>5. CASE then = "openDialog" /\ Become(OpenDialog) /\ Quiet
  <2>1. Safe /\ Tail(dialogs) = <<>>
    BY <1>2, <1>5
  <2>2. Sound(OpenDialog)
    BY <2>1 DEF OpenDialog, Sound, HoldsText
  <2> QED
    BY <1>1, <1>5, <2>1, <2>2, BecomeQuietly, FrameKinds
<1>6. CASE then = "new" /\ NewFile
  BY <1>1, <1>2, <1>6, NewFileKeeps
<1>7. CASE then = "close" /\ DestroyWindow
  BY <1>7, DestroyWindowKeeps
<1>8. CASE then = "install" /\ Install
  BY <1>1, <1>2, <1>8, InstallKeeps
<1>9. CASE then \in Path /\ OpenFile(then)
  <2>1. then # "install"
    BY <1>9, PathAssumption DEF Steps
  <2> QED
    BY <1>1, <1>2, <1>9, <2>1, OpenFileKeeps
<1> QED
  BY <1>3, <1>4, <1>5, <1>6, <1>7, <1>8, <1>9 DEF Run

LEMMA CheckKeeps ==
    ASSUME IInv, UNCHANGED <<document, disk, newest, dialogs, discarded, late>>,
           NEW check \in {"automatic", "manual"}, StartUpdateCheck(check)
    PROVE  IInv'
<1>1. Keeps /\ (Safe => Safe')
  BY SameIsSafe DEF IInv
<1>2. StackOK'
  BY <1>1, SameStack DEF IInv
<1>3. checking' \subseteq {"automatic", "manual"}
  BY DEF StartUpdateCheck, IInv, TypeOK
<1> QED
  BY <1>1, <1>2, <1>3, QuietKeeps

LEMMA UpdateCheckedKeeps == IInv /\ UpdateChecked => IInv'
<1> SUFFICES ASSUME IInv, UpdateChecked
             PROVE  IInv'
  OBVIOUS
<1>1. UNCHANGED <<document, disk, newest, late>> /\ discarded' = IF dialogs = <<>> THEN {} ELSE discarded
  BY DEF UpdateChecked
<1>2. Keeps \/ dialogs = <<>>
  BY <1>1, SameIsSafe DEF IInv
<1>3. checking' \subseteq {"automatic", "manual"}
  BY DEF UpdateChecked, IInv, TypeOK
<1>4. ASSUME NEW f \in Frame, Push(f), f.kind \in {"offer", "notice"}
      PROVE  StackOK'
  <2>1. Sound(f)' /\ Nested(f)
    BY <1>4 DEF Sound, HasAsked, HoldsText, Nested
  <2> QED
    BY <1>2, <1>4, <2>1, PushKeepsStack DEF IInv
<1>5. ASSUME dialogs' = dialogs
      PROVE  StackOK'
  <2>1. CASE Keeps
    BY <1>5, <2>1, SameStack DEF IInv
  <2>2. CASE dialogs = <<>>
    <3>1. dialogs' \in Seq(Frame) /\ Len(dialogs') = 0
      BY <1>5, <2>2
    <3> QED
      BY <3>1, SoundStack
  <2> QED
    BY <1>2, <2>1, <2>2
<1>6. StackOK'
  <2>1. PICK check \in {"automatic", "manual"} : HandleUpdateCheckResult(check)
    BY DEF UpdateChecked, IInv, TypeOK
  <2>2. Offer(check) \in Frame /\ Offer(check).kind = "offer" /\ Notice \in Frame /\ Notice.kind = "notice"
    BY FrameKinds DEF Offer, Notice
  <2> QED
    BY <1>4, <1>5, <2>1, <2>2 DEF HandleUpdateCheckResult
<1>7. TypeOK'
  BY <1>1, <1>3, <1>6 DEF IInv, TypeOK, document, StackOK
<1>8. UnmodifiedMeansKept'
  BY <1>1 DEF IInv, UnmodifiedMeansKept, IsModified, Kept, document
<1> QED
  BY <1>6, <1>7, <1>8 DEF IInv, StackOK

LEMMA AnswerOfferKeeps == IInv /\ AnswerOffer => IInv'
<1> SUFFICES ASSUME IInv, AnswerOffer
             PROVE  IInv'
  OBVIOUS
<1>1. Sound(Download) /\ Nested(Download)
  BY DEF Download, Sound, HasAsked, HoldsText, Nested
<1> QED
  BY <1>1, BecomeQuietly, PopQuietly, FrameKinds DEF AnswerOffer, Top

LEMMA FinishDownloadKeeps == IInv /\ FinishDownload => IInv'
<1> SUFFICES ASSUME IInv, FinishDownload
             PROVE  IInv'
  OBVIOUS
<1>1. dialogs # <<>> /\ Quiet
  BY DEF FinishDownload, Top
<1>2. CASE Become(PromptSaveChanges("install"))
  <2>1. Prompt("install") \in Frame /\ Running("install") \in Frame
    BY FrameKinds DEF FollowUp, Steps
  <2>2. Sound(Prompt("install")) /\ Nested(Prompt("install"))
    BY DEF Prompt, Sound, HasAsked, HoldsText, Nested
  <2>3. ~IsModified => Sound(Running("install"))
    BY UnmodifiedIsSafe DEF Running, Sound, HoldsText
  <2>4. Nested(Running("install"))
    BY DEF Running, Nested
  <2>5. CASE IsModified
    BY <1>1, <1>2, <2>1, <2>2, <2>5, BecomeQuietly DEF PromptSaveChanges
  <2>6. CASE ~IsModified
    BY <1>1, <1>2, <2>1, <2>3, <2>4, <2>6, BecomeQuietly DEF PromptSaveChanges
  <2> QED
    BY <2>5, <2>6
<1> QED
  BY <1>1, <1>2, NoticeQuietly, PopQuietly DEF FinishDownload

LEMMA AnswerOtherWindowsKeeps == IInv /\ AnswerOtherWindows => IInv'
<1> SUFFICES ASSUME IInv, AnswerOtherWindows
             PROVE  IInv'
  OBVIOUS
<1>1. dialogs # <<>> /\ Quiet /\ Head(dialogs).kind = "retry"
  BY DEF AnswerOtherWindows, Top
<1>2. Safe
  BY <1>1, TopFrame DEF Sound, HasAsked
<1>3. Running("install") \in Frame
  BY FrameKinds DEF FollowUp, Steps
<1>4. Sound(Running("install")) /\ Nested(Running("install"))
  BY <1>2 DEF Running, Sound, HoldsText, Nested
<1> QED
  BY <1>1, <1>3, <1>4, BecomeQuietly, PopQuietly DEF AnswerOtherWindows

LEMMA StutterKeeps == IInv /\ UNCHANGED vars => IInv'
  BY DEF vars, document, update, IInv, TypeOK, UnmodifiedMeansKept, IsModified, Kept, FramesAreSound,
         OnlyBottomReplaces, Sound, HasAsked, HoldsText, Safe, Nested

\* Every step, of whatever handler, leaves the handlers that wait able to go on safely.
LEMMA NextIInv == IInv /\ [Next]_vars => IInv'
<1> SUFFICES ASSUME IInv, [Next]_vars
             PROVE  IInv'
  OBVIOUS
<1>1. CASE Type \/ ReplaceAll \/ Command
  BY <1>1, TypeKeeps, ReplaceAllKeeps, CommandKeeps
<1>2. CASE AnswerAnsi \/ AnswerSaveDialog \/ AnswerPrompt \/ AnswerOpenDialog \/ CloseNotice
  BY <1>2, AnswerAnsiKeeps, AnswerSaveDialogKeeps, AnswerPromptKeeps, AnswerOpenDialogKeeps, CloseNoticeKeeps
<1>3. CASE Run
  BY <1>3, RunKeeps
<1>4. CASE UpdateTimer
  BY <1>4, CheckKeeps DEF UpdateTimer
<1>5. CASE CheckForUpdates
  BY <1>5, CheckKeeps DEF CheckForUpdates
<1>6. CASE UpdateChecked
  BY <1>6, UpdateCheckedKeeps
<1>7. CASE AnswerOffer \/ FinishDownload \/ AnswerOtherWindows
  BY <1>7, AnswerOfferKeeps, FinishDownloadKeeps, AnswerOtherWindowsKeeps
<1> QED
  BY <1>1, <1>2, <1>3, <1>4, <1>5, <1>6, <1>7, StutterKeeps DEF Next

-----------------------------------------------------------------------------
(* The theorems. *)

\* A document leaves the window only in Run, whose handler has asked about it.
LEMMA LeavesSafely == IInv /\ [Next]_vars => (Leaves => Safe)
<1> SUFFICES ASSUME IInv, [Next]_vars, Leaves
             PROVE  Safe
  OBVIOUS
<1>0. newest \in Nat
  BY DiskAssumption DEF IInv, TypeOK
<1>1. ~MakeText
  BY <1>0 DEF MakeText, Leaves
<1>2. ~UNCHANGED <<document, closed>>
  BY DEF Leaves, document
<1>3. ASSUME NEW then, SaveFile(then)
      PROVE  FALSE
  BY <1>2, <1>3 DEF SaveFile, WriteCurrentDocument, Write, Quiet, Leaves, document
<1>4. ASSUME NEW target, NEW then, WriteCurrentDocument(target, then)
      PROVE  FALSE
  BY <1>2, <1>4 DEF WriteCurrentDocument, Write, Quiet, Leaves, document
<1>5. ASSUME NEW target, NEW content, NEW enc, NEW then, Write(target, content, enc, then)
      PROVE  FALSE
  BY <1>2, <1>5 DEF Write, Leaves, document
<1>6. ~Quiet
  BY <1>2 DEF Quiet
<1>7. ~(Type \/ ReplaceAll \/ AnswerOffer \/ FinishDownload \/ AnswerOtherWindows \/ AnswerOpenDialog \/ CloseNotice)
  BY <1>1, <1>6 DEF Type, ReplaceAll, AnswerOffer, FinishDownload, AnswerOtherWindows, AnswerOpenDialog, CloseNotice
<1>8. ~(Command \/ UpdateTimer \/ CheckForUpdates \/ UpdateChecked)
  BY <1>2 DEF Command, UpdateTimer, CheckForUpdates, UpdateChecked
<1>9. ~(AnswerAnsi \/ AnswerSaveDialog)
  BY <1>4, <1>5, <1>6 DEF AnswerAnsi, AnswerSaveDialog
<1>10. ~AnswerPrompt
  BY <1>2, <1>3, <1>6 DEF AnswerPrompt
<1>11. Run
  BY <1>2, <1>7, <1>8, <1>9, <1>10 DEF Next, vars
<1>12. Head(dialogs).then \notin {"nothing", "save"}
  <2>1. Head(dialogs).then \notin Path \/ Head(dialogs).then \notin Steps
    BY PathAssumption
  <2> QED
    BY <1>3, <1>6, <1>11, <2>1 DEF Run, Steps
<1> QED
  BY <1>11, <1>12, RunningHasAsked DEF Run, Top

\* In every reachable state the handlers that wait are able to go on safely.
THEOREM SessionInvariant == Spec => []IInv
  BY InitIInv, NextIInv, PTL DEF Spec

\* A document without the modified mark is in its file (but for a text Replace made under a dialog),
\* and the document's path is that of a file it was read from or written to: WriteCurrentDocument
\* and OpenFile set them together, whatever was shown or done while they waited.
THEOREM UnmodifiedIsKept == Spec => []UnmodifiedMeansKept
<1>1. IInv => UnmodifiedMeansKept
  BY DEF IInv
<1> QED
  BY <1>1, SessionInvariant, PTL

\* New, Open, the close button and the installation of an update never make a text go away that is
\* not in its file and that the user did not discard (the same exception), however their dialogs nest.
THEOREM NothingGetsLost == Spec => NothingIsLost
<1>1. IInv /\ [Next]_vars => [Leaves => Kept \/ text \in discarded \/ text \in late]_vars
  BY LeavesSafely DEF Safe
<1> QED
  BY <1>1, SessionInvariant, PTL DEF Spec, NothingIsLost
=============================================================================
