------------------------ MODULE ParsePipeline_proofs ------------------------
(***************************************************************************)
(* Proofs about ParsePipeline, for any set of texts, any number of edits   *)
(* and (unless said otherwise) a message queue that may refuse messages.   *)
(***************************************************************************)
EXTENDS ParsePipeline, SequenceTheorems, TLAPS

Message == Snapshot \cup {Reparse}

\* The worker owns a snapshot exactly between claiming it and posting its tree.
WorkerInv == claimed # None <=> wpc \in {"claimed", "parsed", "posting"}

TypeInv == TypeOK /\ WorkerInv

(***************************************************************************)
(* Sequences: what appending, taking the head and removing an element do.  *)
(***************************************************************************)

LEMMA AppendFacts ==
    ASSUME NEW S, NEW s \in Seq(S), NEW e \in S
    PROVE  /\ Append(s, e) \in Seq(S)
           /\ Len(Append(s, e)) = Len(s) + 1
           /\ \A i \in 1 .. Len(s) : Append(s, e)[i] = s[i]
           /\ Append(s, e)[Len(s) + 1] = e
  OBVIOUS

LEMMA RemoveFacts ==
    ASSUME NEW S, NEW s \in Seq(S), NEW i \in 1 .. Len(s)
    PROVE  LET r == [j \in 1 .. Len(s) - 1 |-> IF j < i THEN s[j] ELSE s[j + 1]] IN
           /\ r \in Seq(S)
           /\ Len(r) = Len(s) - 1
           /\ \A j \in 1 .. Len(s) - 1 : r[j] = IF j < i THEN s[j] ELSE s[j + 1]
<1> DEFINE r == [j \in 1 .. Len(s) - 1 |-> IF j < i THEN s[j] ELSE s[j + 1]]
<1>1. Len(s) - 1 \in Nat
  OBVIOUS
<1>2. \A j \in 1 .. Len(s) - 1 : r[j] \in S
  OBVIOUS
<1>3. r \in [1 .. Len(s) - 1 -> S]
  BY <1>2
<1>4. r \in Seq(S)
  BY <1>1, <1>3, SeqDef
<1>5. Len(r) = Len(s) - 1
  BY <1>1, <1>4, LenProperties
<1> QED
  BY <1>4, <1>5

(***************************************************************************)
(* Type correctness.                                                       *)
(***************************************************************************)

LEMMA SnapshotType == \A v \in Nat, t \in Text : [version |-> v, text |-> t] \in Snapshot
  BY DEF Snapshot

LEMMA ScheduleParseType ==
    ASSUME TypeOK, ScheduleParse
    PROVE  reparsePosted' \in BOOLEAN /\ queue' \in Seq(Message)
  BY AppendFacts, PostAssumption DEF TypeOK, ScheduleParse, Message

LEMMA TriggerParseType ==
    ASSUME TypeOK, NEW now \in BOOLEAN, TriggerParse(now), text' \in Text
    PROVE  /\ reparsePosted' \in BOOLEAN
           /\ docVersion' \in Nat
           /\ sent' \in Seq(Text)
           /\ request' \in Snapshot
           /\ immediate' \in BOOLEAN
           /\ ui' = "request"
<1>1. docVersion' \in Nat
  BY DEF TypeOK, TriggerParse
<1>2. request' \in Snapshot
  BY SnapshotType DEF TypeOK, TriggerParse
<1>3. sent' \in Seq(Text)
  BY AppendFacts DEF TypeOK, TriggerParse
<1> QED
  BY <1>1, <1>2, <1>3 DEF TriggerParse

LEMMA InitTypeInv == Init => TypeInv
<1> SUFFICES ASSUME Init
             PROVE  TypeInv
  OBVIOUS
<1>1. request \in Snapshot
  BY SnapshotType DEF Init
<1>2. sent \in Seq(Text) /\ queue \in Seq(Snapshot \cup {Reparse})
  BY DEF Init
<1> QED
  BY <1>1, <1>2, MessageAssumption DEF Init, TypeInv, TypeOK, WorkerInv, UiStates, WorkerStates

LEMMA NextTypeInv == TypeInv /\ [Next]_vars => TypeInv'
<1> SUFFICES ASSUME TypeInv, [Next]_vars
             PROVE  TypeInv'
  OBVIOUS
<1> USE DEF TypeInv, TypeOK, WorkerInv, UiStates, WorkerStates, Message
<1>1. CASE RequestParse
  BY <1>1 DEF RequestParse, uiVars
<1>2. CASE Edit
  BY <1>2, ScheduleParseType DEF Edit
<1>3. ASSUME NEW now \in BOOLEAN, SetDocument(now)
      PROVE  TypeInv'
  <2>1. queue' \in Seq(Message)
    <3>1. CASE queue' = queue
      BY <3>1
    <3>2. CASE queue' = Append(queue, Reparse)
      BY <3>2, AppendFacts
    <3> QED
      BY <1>3, <3>1, <3>2 DEF SetDocument
  <2>2. TriggerParse(now) /\ text' \in Text
    BY <1>3 DEF SetDocument
  <2> QED
    BY <1>3, <2>1, <2>2, TriggerParseType DEF SetDocument
<1>4. CASE ToggleTask
  BY <1>4, ScheduleParseType DEF ToggleTask
<1>5. CASE HandleReparse
  <2>1. queue' \in Seq(Message)
    BY <1>5, HeadTailProperties DEF HandleReparse
  <2>2. CASE reparsePosted
    <3>1. TriggerParse(FALSE) /\ text' \in Text
      BY <1>5, <2>2 DEF HandleReparse
    <3> QED
      BY <1>5, <2>1, <3>1, TriggerParseType, ZenonT(60) DEF HandleReparse
  <2>3. CASE ~reparsePosted
    BY <1>5, <2>1, <2>3 DEF HandleReparse
  <2> QED
    BY <2>2, <2>3
<1>6. CASE HandleTree
  <2>1. queue' \in Seq(Message) /\ Head(queue) \in Snapshot
    BY <1>6, HeadTailProperties DEF HandleTree
  <2>2. Head(queue).version \in Nat
    BY <2>1 DEF Snapshot
  <2> QED
    BY <1>6, <2>1, <2>2 DEF HandleTree
<1>7. CASE RequestStop
  BY <1>7 DEF RequestStop, uiVars, workerVars
<1>15. CASE WakeToStop
  BY <1>15 DEF WakeToStop, uiVars
<1>16. CASE Join \/ PostQuit
  BY <1>16 DEF Join, PostQuit, uiVars, workerVars
<1>8. CASE DrainTree
  <2>1. queue' \in Seq(Message)
    BY <1>8, RemoveFacts DEF DrainTree
  <2> QED
    BY <1>8, <2>1 DEF DrainTree, uiVars, workerVars
<1>9. CASE LoopTop \/ AcquireLock \/ Sleep \/ DozeTimeout \/ Reevaluate \/ SpuriousWake
  BY <1>9 DEF LoopTop, AcquireLock, Sleep, DozeTimeout, Reevaluate, SpuriousWake, uiVars
<1>10. CASE Check
  BY <1>10 DEF Check, uiVars
<1>11. CASE Parse \/ CheckObsolete
  BY <1>11 DEF Parse, CheckObsolete, uiVars
<1>12. CASE PostTree
  <2>1. queue' \in Seq(Message)
    BY <1>12, AppendFacts DEF PostTree
  <2> QED
    BY <1>12, <2>1 DEF PostTree, uiVars
<1>13. CASE DebounceElapses
  BY <1>13 DEF DebounceElapses, uiVars, workerVars
<1>14. CASE UNCHANGED vars
  BY <1>14 DEF vars
<1> QED
  BY <1>1, <1>2, <1>3, <1>4, <1>5, <1>6, <1>7, <1>15, <1>16, <1>8, <1>9, <1>10, <1>11, <1>12, <1>13, <1>14
  DEF Next, UiStep, WorkerStep, Terminated

\* Every reachable state is well typed; in particular no null tree is ever posted.
THEOREM TypeCorrect == Spec => []TypeOK
<1>1. Spec => []TypeInv
  BY InitTypeInv, NextTypeInv, PTL DEF Spec
<1> QED
  BY <1>1, PTL DEF TypeInv

(***************************************************************************)
(* Versions.  A snapshot is genuine when its text is the one the document  *)
(* had when its version was issued.  All snapshots in the system are, and  *)
(* the request on its way to the worker is newer than every other one;     *)
(* without that, RequestParse could hand over a version out of order.      *)
(***************************************************************************)

Genuine(s) == s.version \in 1 .. Len(sent) /\ s.text = sent[s.version]

SnapshotsInv ==
    /\ docVersion = Len(sent)
    /\ Genuine(request) /\ request.version = docVersion
    /\ pending # None => Genuine(pending)
    /\ claimed # None => Genuine(claimed)
    /\ shown # None => Genuine(shown) /\ shown.version = lastApplied
    /\ shown = None => lastApplied = 0
    /\ \A i \in 1 .. Len(queue) : IsTree(i) => Genuine(queue[i])

RequestInv == ui = "request" =>
    /\ lastApplied < request.version
    /\ pending # None => pending.version < request.version
    /\ claimed # None => claimed.version < request.version
    /\ \A i \in 1 .. Len(queue) : IsTree(i) => queue[i].version < request.version

VersionInv == SnapshotsInv /\ RequestInv /\ OrderedDelivery

\* Issuing a snapshot keeps the genuine ones genuine and makes the new one the newest.
LEMMA TriggerParseFacts ==
    ASSUME TypeInv, SnapshotsInv, NEW now \in BOOLEAN, TriggerParse(now), text' \in Text
    PROVE  /\ docVersion' = Len(sent')
           /\ docVersion' = docVersion + 1
           /\ Genuine(request)'
           /\ request'.version = docVersion'
           /\ \A s \in Snapshot : Genuine(s) =>
                 s.version \in 1 .. Len(sent') /\ s.text = sent'[s.version] /\ s.version < docVersion'
<1>1. /\ Len(sent') = Len(sent) + 1
      /\ \A i \in 1 .. Len(sent) : sent'[i] = sent[i]
      /\ sent'[Len(sent) + 1] = text'
  BY AppendFacts DEF TypeInv, TypeOK, TriggerParse
<1>2. Len(sent) \in Nat
  BY LenProperties DEF TypeInv, TypeOK
<1>3. request' = [version |-> docVersion + 1, text |-> text'] /\ docVersion' = docVersion + 1
  BY DEF TriggerParse
<1> QED
  BY <1>1, <1>2, <1>3 DEF SnapshotsInv, Genuine

LEMMA InitVersionInv == Init => VersionInv
  BY DEF Init, VersionInv, SnapshotsInv, RequestInv, OrderedDelivery, Genuine, IsTree

\* What each way of changing the queue does to the trees in it.
LEMMA AppendQueueFacts ==
    ASSUME TypeInv, NEW m \in Message, queue' = Append(queue, m)
    PROVE  /\ Len(queue) \in Nat
           /\ Len(queue') = Len(queue) + 1
           /\ \A i \in 1 .. Len(queue) : queue'[i] = queue[i]
           /\ queue'[Len(queue) + 1] = m
  BY AppendFacts, LenProperties DEF TypeInv, TypeOK, Message

LEMMA TailQueueFacts ==
    ASSUME TypeInv, queue # <<>>, queue' = Tail(queue)
    PROVE  /\ Len(queue) \in Nat \ {0}
           /\ Len(queue') = Len(queue) - 1
           /\ \A i \in 1 .. Len(queue) - 1 : queue'[i] = queue[i + 1]
           /\ Head(queue) = queue[1]
  BY HeadTailProperties, LenProperties, EmptySeq DEF TypeInv, TypeOK, Message

LEMMA NextVersionInv == TypeInv /\ TypeInv' /\ VersionInv /\ [Next]_vars => VersionInv'
<1> SUFFICES ASSUME TypeInv, TypeInv', VersionInv, [Next]_vars
             PROVE  VersionInv'
  OBVIOUS
<1> USE DEF VersionInv
<1> DEFINE Rest == <<lastApplied, shown, pending, claimed>>
\* Appending WM_APP_REPARSE adds no tree.
<1>a. ASSUME queue' = queue \/ queue' = Append(queue, Reparse)
      PROVE  \A i \in 1 .. Len(queue') : queue'[i] # Reparse =>
                i \in 1 .. Len(queue) /\ queue'[i] = queue[i]
  <2>1. CASE queue' = queue
    BY <2>1
  <2>2. CASE queue' = Append(queue, Reparse)
    <3>1. Reparse \in Message
      BY DEF Message
    <3> QED
      BY <2>2, <3>1, AppendQueueFacts
  <2> QED
    BY <1>a, <2>1, <2>2
\* Steps that take no tree, issue no snapshot and only may append WM_APP_REPARSE.
<1>b. ASSUME queue' = queue \/ queue' = Append(queue, Reparse),
             UNCHANGED <<Rest, request, docVersion, sent>>, ui' # "request" \/ ui' = ui
      PROVE  VersionInv'
  <2>1. SnapshotsInv'
    BY <1>a, <1>b DEF SnapshotsInv, Genuine, IsTree
  <2>2. RequestInv'
    BY <1>a, <1>b DEF RequestInv, IsTree
  <2>3. OrderedDelivery'
    BY <1>a, <1>b DEF OrderedDelivery
  <2> QED
    BY <2>1, <2>2, <2>3
\* Taking the first message: the others keep their order.
<1>c. ASSUME queue # <<>>, queue' = Tail(queue)
      PROVE  \A i \in 1 .. Len(queue') :
                i + 1 \in 1 .. Len(queue) /\ queue'[i] = queue[i + 1]
  BY <1>c, TailQueueFacts
\* Issuing a snapshot, with the queue appended to or its first message taken.
<1>d. ASSUME NEW now \in BOOLEAN, TriggerParse(now), text' \in Text, UNCHANGED Rest,
             \/ queue' = queue \/ queue' = Append(queue, Reparse)
             \/ queue # <<>> /\ queue' = Tail(queue)
      PROVE  VersionInv'
  <2> DEFINE Old(s) == s.version < docVersion' /\ Genuine(s)'
  <2>1. /\ docVersion' = Len(sent')
        /\ Genuine(request)'
        /\ request'.version = docVersion'
        /\ \A s \in Snapshot : Genuine(s) =>
              s.version \in 1 .. Len(sent') /\ s.text = sent'[s.version] /\ s.version < docVersion'
    BY <1>d, TriggerParseFacts
  <2>2. \A i \in 1 .. Len(queue') : queue'[i] # Reparse =>
           \E j \in 1 .. Len(queue) : IsTree(j) /\ queue'[i] = queue[j]
    BY <1>a, <1>c, <1>d DEF IsTree
  <2>3. \A j \in 1 .. Len(queue) : IsTree(j) => queue[j] \in Snapshot /\ Genuine(queue[j])
    BY ElementOfSeq DEF IsTree, SnapshotsInv, TypeInv, TypeOK
  <2>4. \A i \in 1 .. Len(queue') : queue'[i] # Reparse =>
           /\ queue'[i].version \in 1 .. Len(sent')
           /\ queue'[i].text = sent'[queue'[i].version]
           /\ queue'[i].version < docVersion'
    BY <2>1, <2>2, <2>3
  <2>5. /\ pending' # None => pending' \in Snapshot /\ Genuine(pending)
        /\ claimed' # None => claimed' \in Snapshot /\ Genuine(claimed)
        /\ shown' # None => shown' \in Snapshot /\ Genuine(shown)
    BY <1>d DEF SnapshotsInv, TypeInv, TypeOK
  <2>6. SnapshotsInv'
    BY <1>d, <2>1, <2>4, <2>5 DEF SnapshotsInv, Genuine, IsTree
  <2>7. RequestInv'
    <3>1. lastApplied' < request'.version
      <4>1. docVersion' \in Nat \ {0}
        BY <1>d DEF TriggerParse, TypeInv, TypeOK
      <4> QED
        BY <1>d, <2>1, <2>5, <4>1 DEF SnapshotsInv
    <3> QED
      BY <1>d, <2>1, <2>4, <2>5, <3>1 DEF RequestInv, IsTree
  <2>8. OrderedDelivery'
    <3>1. CASE queue' = queue \/ queue' = Append(queue, Reparse)
      BY <1>a, <1>d, <3>1 DEF OrderedDelivery
    <3>2. CASE queue # <<>> /\ queue' = Tail(queue)
      <4>1. \A i \in 1 .. Len(queue') : i \in Nat /\ \A j \in 1 .. i - 1 :
               j + 1 \in 1 .. (i + 1) - 1 /\ j \in 1 .. Len(queue')
        BY TailQueueFacts, <3>2
      <4> QED
        BY <1>c, <1>d, <3>2, <4>1 DEF OrderedDelivery
    <3> QED
      BY <1>d, <3>1, <3>2
  <2> QED
    BY <2>6, <2>7, <2>8
<1>1. CASE RequestParse
  <2> USE <1>1 DEF RequestParse, uiVars
  <2>1. SnapshotsInv' /\ RequestInv'
    BY DEF SnapshotsInv, RequestInv, Genuine, IsTree
  <2>2. OrderedDelivery'
    BY DEF OrderedDelivery, RequestInv, IsTree
  <2> QED
    BY <2>1, <2>2
<1>2. CASE Edit
  BY <1>2, <1>b DEF Edit, ScheduleParse
<1>3. ASSUME NEW now \in BOOLEAN, SetDocument(now)
      PROVE  VersionInv'
  BY <1>3, <1>d DEF SetDocument
<1>4. CASE ToggleTask
  BY <1>4, <1>b DEF ToggleTask, ScheduleParse
<1>5. CASE HandleReparse
  <2>1. CASE reparsePosted
    <3>1. /\ TriggerParse(FALSE) /\ UNCHANGED Rest
          /\ queue # <<>> /\ queue' = Tail(queue)
      BY <1>5, <2>1 DEF HandleReparse
    <3>2. text' \in Text
      BY DEF TypeInv, TypeOK
    <3> QED
      BY <3>1, <3>2, <1>d
  <2>2. CASE ~reparsePosted
    <3> USE <1>5, <2>2 DEF HandleReparse
    <3>1. SnapshotsInv' /\ RequestInv'
      BY <1>c DEF SnapshotsInv, RequestInv, Genuine, IsTree
    <3>2. OrderedDelivery'
      <4>1. \A i \in 1 .. Len(queue') : i \in Nat /\ \A j \in 1 .. i - 1 :
               j + 1 \in 1 .. (i + 1) - 1 /\ j \in 1 .. Len(queue')
        BY TailQueueFacts
      <4> QED
        BY <1>c, <4>1 DEF OrderedDelivery
    <3> QED
      BY <3>1, <3>2
  <2> QED
    BY <2>1, <2>2
<1>6. CASE HandleTree
  <2> USE <1>6 DEF HandleTree
  <2>1. /\ 1 \in 1 .. Len(queue) /\ IsTree(1) /\ Head(queue) = queue[1]
        /\ queue[1] \in Snapshot /\ Genuine(queue[1])
    BY TailQueueFacts, ElementOfSeq DEF IsTree, SnapshotsInv, TypeInv, TypeOK
  <2>2. queue[1].version > lastApplied /\ queue[1].version \in Nat /\ lastApplied \in Nat
    BY <2>1 DEF OrderedDelivery, IsTree, Snapshot, TypeInv, TypeOK
  <2>3. lastApplied' = queue[1].version /\ shown' = queue[1]
    BY <2>1, <2>2
  <2>4. \A i \in 1 .. Len(queue') : i + 1 \in 1 .. Len(queue) /\ queue'[i] = queue[i + 1]
    BY <1>c
  <2>5. \A i \in 1 .. Len(queue') : i \in Nat /\ 1 \in 1 .. (i + 1) - 1 /\ \A j \in 1 .. i - 1 :
           j + 1 \in 1 .. (i + 1) - 1 /\ j \in 1 .. Len(queue')
    BY TailQueueFacts
  <2>6. SnapshotsInv' /\ RequestInv'
    BY <2>1, <2>3, <2>4, MessageAssumption DEF SnapshotsInv, RequestInv, Genuine, IsTree
  <2>7. OrderedDelivery'
    BY <2>1, <2>3, <2>4, <2>5 DEF OrderedDelivery, IsTree
  <2> QED
    BY <2>6, <2>7
<1>7. CASE RequestStop \/ WakeToStop \/ Join \/ PostQuit
  BY <1>7, <1>b DEF RequestStop, WakeToStop, Join, PostQuit, uiVars, workerVars
<1>8. CASE DrainTree
  <2> USE <1>8 DEF DrainTree, uiVars, workerVars
  <2>1. PICK k \in 1 .. Len(queue) :
           queue' = [j \in 1 .. Len(queue) - 1 |-> IF j < k THEN queue[j] ELSE queue[j + 1]]
    OBVIOUS
  <2>2. Len(queue) \in Nat \ {0} /\ Len(queue') = Len(queue) - 1
    BY <2>1, RemoveFacts, LenProperties DEF TypeInv, TypeOK
  <2> DEFINE from(j) == IF j < k THEN j ELSE j + 1
  <2>3. \A i \in 1 .. Len(queue') : from(i) \in 1 .. Len(queue) /\ queue'[i] = queue[from(i)]
    BY <2>1, <2>2
  <2>4. \A i \in 1 .. Len(queue') : i \in Nat /\ \A j \in 1 .. i - 1 :
           j \in 1 .. Len(queue') /\ from(j) \in 1 .. from(i) - 1
    BY <2>2
  <2> HIDE DEF from
  <2>5. SnapshotsInv' /\ RequestInv'
    BY <2>3 DEF SnapshotsInv, RequestInv, Genuine, IsTree
  <2>6. OrderedDelivery'
    BY <2>3, <2>4 DEF OrderedDelivery
  <2> QED
    BY <2>5, <2>6
<1>9. CASE LoopTop \/ AcquireLock \/ Sleep \/ DozeTimeout \/ Reevaluate \/ SpuriousWake
  BY <1>9, <1>b DEF LoopTop, AcquireLock, Sleep, DozeTimeout, Reevaluate, SpuriousWake, uiVars
<1>10. CASE Check
  <2> USE <1>10 DEF Check, uiVars
  <2>1. SnapshotsInv' /\ RequestInv'
    BY DEF SnapshotsInv, RequestInv, Genuine, IsTree, TypeInv, WorkerInv
  <2>2. OrderedDelivery'
    BY DEF OrderedDelivery, TypeInv, WorkerInv
  <2> QED
    BY <2>1, <2>2
<1>11. CASE Parse \/ CheckObsolete
  <2> USE <1>11 DEF Parse, CheckObsolete, uiVars
  <2>1. SnapshotsInv' /\ RequestInv'
    BY DEF SnapshotsInv, RequestInv, Genuine, IsTree
  <2>2. OrderedDelivery'
    BY DEF OrderedDelivery
  <2> QED
    BY <2>1, <2>2
<1>12. CASE PostTree
  <2> USE <1>12 DEF PostTree, uiVars
  <2>0. claimed # None /\ claimed \in Snapshot /\ claimed' = None
    BY DEF TypeInv, TypeOK, WorkerInv
  <2>1. CASE queue' = queue
    BY <2>0, <2>1 DEF SnapshotsInv, RequestInv, OrderedDelivery, Genuine, IsTree
  <2>2. CASE queue' = Append(queue, claimed)
    <3>1. /\ Len(queue) \in Nat
          /\ Len(queue') = Len(queue) + 1
          /\ \A i \in 1 .. Len(queue) : queue'[i] = queue[i]
          /\ queue'[Len(queue) + 1] = claimed
      BY <2>0, <2>2, AppendQueueFacts DEF Message
    <3>2. \A i \in 1 .. Len(queue') : i \in 1 .. Len(queue) \/ i = Len(queue) + 1
      BY <3>1
    <3>3. SnapshotsInv' /\ RequestInv'
      BY <2>0, <3>1, <3>2 DEF SnapshotsInv, RequestInv, Genuine, IsTree
    <3>4. \A i \in 1 .. Len(queue') : \A j \in 1 .. i - 1 : j \in 1 .. Len(queue)
      BY <3>1
    <3>5. OrderedDelivery'
      BY <2>0, <3>1, <3>2, <3>4 DEF OrderedDelivery
    <3> QED
      BY <3>3, <3>5
  <2> QED
    BY <2>1, <2>2
<1>13. CASE DebounceElapses
  BY <1>13, <1>b DEF DebounceElapses, uiVars, workerVars
<1>14. CASE UNCHANGED vars
  BY <1>14, <1>b DEF vars
<1> QED
  BY <1>1, <1>2, <1>3, <1>4, <1>5, <1>6, <1>7, <1>8, <1>9, <1>10, <1>11, <1>12, <1>13, <1>14
  DEF Next, UiStep, WorkerStep, Terminated

(***************************************************************************)
(* Freshness: unless a WM_APP_REPARSE is on its way, the newest snapshot   *)
(* is the text in the editor.  This needs a queue that refuses nothing.    *)
(***************************************************************************)

FreshInv == ~reparsePosted => text = sent[Len(sent)]

LEMMA InitFreshInv == Init => FreshInv
  BY DEF Init, FreshInv

LEMMA NextFreshInv ==
    ASSUME PostOutcomes = {TRUE}
    PROVE  TypeInv /\ TypeInv' /\ FreshInv /\ [Next]_vars => FreshInv'
<1> SUFFICES ASSUME TypeInv, TypeInv', FreshInv, [Next]_vars
             PROVE  FreshInv'
  OBVIOUS
<1>1. ASSUME NEW now, TriggerParse(now)
      PROVE  FreshInv'
  <2>1. Len(sent') = Len(sent) + 1 /\ sent'[Len(sent) + 1] = text'
    BY <1>1, AppendFacts DEF TypeInv, TypeOK, TriggerParse
  <2> QED
    BY <2>1 DEF FreshInv
<1>2. ASSUME UNCHANGED <<text, reparsePosted, sent>>
      PROVE  FreshInv'
  BY <1>2 DEF FreshInv
<1>3. CASE Edit \/ ToggleTask
  <2>1. ScheduleParse
    BY <1>3 DEF Edit, ToggleTask
  <2>2. reparsePosted'
    <3>1. CASE reparsePosted
      BY <2>1, <3>1 DEF ScheduleParse
    <3>2. CASE ~reparsePosted
      BY <2>1, <3>2 DEF ScheduleParse
    <3> QED
      BY <3>1, <3>2
  <2> QED
    BY <2>2 DEF FreshInv
<1>4. ASSUME NEW now \in BOOLEAN, SetDocument(now)
      PROVE  FreshInv'
  BY <1>4, <1>1 DEF SetDocument
<1>5. CASE HandleReparse
  BY <1>5, <1>1, <1>2 DEF HandleReparse
<1>6. CASE RequestParse \/ HandleTree \/ RequestStop \/ WakeToStop \/ Join \/ DrainTree \/ PostQuit
  BY <1>6, <1>2 DEF RequestParse, HandleTree, RequestStop, WakeToStop, Join, DrainTree, PostQuit, uiVars
<1>7. CASE WorkerStep \/ SpuriousWake \/ DebounceElapses \/ UNCHANGED vars
  BY <1>7, <1>2 DEF WorkerStep, LoopTop, AcquireLock, Check, Sleep, DozeTimeout, Reevaluate,
     Parse, CheckObsolete, PostTree, SpuriousWake, DebounceElapses, uiVars, vars
<1> QED
  BY <1>3, <1>4, <1>5, <1>6, <1>7 DEF Next, UiStep, Terminated

(***************************************************************************)
(* Stopping, and coalescing.                                               *)
(***************************************************************************)

StopInv ==
    /\ ui \in {"draining", "quit"} => wpc = "done"
    /\ ui = "quit" => \A i \in 1 .. Len(queue) : ~IsTree(i)

LEMMA InitStopInv == Init => StopInv /\ Coalesced
  BY DEF Init, StopInv, Coalesced

LEMMA NextStopInv == TypeInv /\ StopInv /\ [Next]_vars => StopInv'
<1> SUFFICES ASSUME TypeInv, StopInv, [Next]_vars
             PROVE  StopInv'
  OBVIOUS
<1> USE DEF StopInv, IsTree
<1>1. CASE RequestParse \/ WakeToStop
  BY <1>1 DEF RequestParse, WakeToStop, uiVars
<1>2. CASE Edit \/ ToggleTask \/ (\E now \in BOOLEAN : SetDocument(now)) \/ HandleReparse \/ HandleTree
  BY <1>2 DEF Edit, ToggleTask, OffsetsTrusted, SetDocument, HandleReparse, HandleTree, TriggerParse
<1>3. CASE RequestStop \/ Join \/ DrainTree \/ PostQuit
  BY <1>3 DEF RequestStop, Join, DrainTree, PostQuit, uiVars, workerVars
<1>4. CASE LoopTop \/ AcquireLock \/ Sleep \/ DozeTimeout \/ Reevaluate \/ SpuriousWake
  BY <1>4 DEF LoopTop, AcquireLock, Sleep, DozeTimeout, Reevaluate, SpuriousWake, uiVars
<1>5. CASE Check \/ Parse \/ CheckObsolete \/ PostTree
  BY <1>5 DEF Check, Parse, CheckObsolete, PostTree, uiVars
<1>6. CASE DebounceElapses \/ UNCHANGED vars
  BY <1>6 DEF DebounceElapses, uiVars, workerVars, vars
<1> QED
  BY <1>1, <1>2, <1>3, <1>4, <1>5, <1>6 DEF Next, UiStep, WorkerStep, Terminated

LEMMA NextCoalesced == TypeInv /\ Coalesced /\ [Next]_vars => Coalesced'
<1> SUFFICES ASSUME TypeInv, Coalesced, [Next]_vars
             PROVE  Coalesced'
  OBVIOUS
<1> USE DEF Coalesced, TypeInv, TypeOK
<1>1. CASE Edit \/ ToggleTask
  BY <1>1, PostAssumption DEF Edit, ToggleTask, ScheduleParse
<1>2. ASSUME NEW now \in BOOLEAN, SetDocument(now)
      PROVE  Coalesced'
  BY <1>2 DEF SetDocument, TriggerParse
<1>5. CASE HandleReparse
  <2>1. CASE reparsePosted
    BY <1>5, <2>1 DEF HandleReparse, TriggerParse
  <2>2. CASE ~reparsePosted
    BY <1>5, <2>2 DEF HandleReparse
  <2> QED
    BY <2>1, <2>2
<1>3. CASE RequestParse \/ HandleTree \/ RequestStop \/ WakeToStop \/ Join \/ DrainTree \/ PostQuit
  BY <1>3 DEF RequestParse, HandleTree, RequestStop, WakeToStop, Join, DrainTree, PostQuit, uiVars
<1>4. CASE WorkerStep \/ SpuriousWake \/ DebounceElapses \/ UNCHANGED vars
  BY <1>4 DEF WorkerStep, LoopTop, AcquireLock, Check, Sleep, DozeTimeout, Reevaluate,
     Parse, CheckObsolete, PostTree, SpuriousWake, DebounceElapses, uiVars, vars
<1> QED
  BY <1>1, <1>2, <1>5, <1>3, <1>4 DEF Next, UiStep, Terminated

(***************************************************************************)
(* The theorems.                                                           *)
(***************************************************************************)

IInv == TypeInv /\ VersionInv /\ StopInv /\ Coalesced

LEMMA Inductive == Spec => []IInv
<1>1. Init => IInv
  BY InitTypeInv, InitVersionInv, InitStopInv DEF IInv
<1>2. IInv /\ [Next]_vars => IInv'
  BY NextTypeInv, NextVersionInv, NextStopInv, NextCoalesced DEF IInv
<1> QED
  BY <1>1, <1>2, PTL DEF Spec

\* The preview's source offsets are used only while the editor holds the text they were
\* computed from, if no message is refused by a full queue.
THEOREM OffsetsAreValid ==
    ASSUME PostOutcomes = {TRUE}
    PROVE  Spec => []OffsetsValid
<1>1. Spec => []FreshInv
  <2>1. IInv => TypeInv
    BY DEF IInv
  <2>2. TypeInv /\ TypeInv' /\ FreshInv /\ [Next]_vars => FreshInv'
    BY NextFreshInv
  <2> QED
    BY InitFreshInv, Inductive, <2>1, <2>2, PTL DEF Spec
<1>2. IInv /\ FreshInv => OffsetsValid
  BY MessageAssumption
  DEF IInv, VersionInv, SnapshotsInv, FreshInv, Genuine, OffsetsValid, OffsetsTrusted
<1> QED
  BY <1>1, <1>2, Inductive, PTL

\* Trees are delivered in the order of their snapshots and at most once, whatever is refused.
THEOREM DeliveryIsOrdered == Spec => []OrderedDelivery
<1>1. IInv => OrderedDelivery
  BY DEF IInv, VersionInv
<1> QED
  BY <1>1, Inductive, PTL

\* No document is parsed more often than it changed.
THEOREM ParsesAreCoalesced == Spec => []Coalesced
<1>1. IInv => Coalesced
  BY DEF IInv
<1> QED
  BY <1>1, Inductive, PTL

\* Closing the window leaves no running worker and no tree without an owner.
THEOREM NoTreeIsLeaked == Spec => []NoTreeLeak
<1>1. IInv => NoTreeLeak
  BY DEF IInv, StopInv, TypeInv, WorkerInv, NoTreeLeak
<1> QED
  BY <1>1, Inductive, PTL

\* The pipeline implements the preview's contract: every step changes the document, takes a
\* snapshot, shows a newer one, or is invisible.
THEOREM ImplementsContract == Spec => RefinesContract
<1>1. Init => Contract!Init
  BY DEF Init, Contract!Init
<1>2. IInv /\ IInv' /\ [Next]_vars => [Contract!Next]_(Contract!vars)
  <2> SUFFICES ASSUME IInv, IInv', [Next]_vars
               PROVE  [Contract!Next]_(Contract!vars)
    OBVIOUS
  <2> USE DEF Contract!Next, Contract!vars
  <2>0. text' \in Text
    BY DEF IInv, TypeInv, TypeOK
  <2>1. CASE Edit \/ ToggleTask
    BY <2>0, <2>1 DEF Edit, ToggleTask, Contract!Change
  <2>2. ASSUME NEW now \in BOOLEAN, SetDocument(now)
        PROVE  Contract!Take
    BY <2>2 DEF SetDocument, TriggerParse, Contract!Take
  <2>3. CASE HandleReparse
    BY <2>0, <2>3 DEF HandleReparse, TriggerParse, Contract!Take
  <2>4. CASE HandleTree
    <3>1. /\ 1 \in 1 .. Len(queue) /\ IsTree(1) /\ Head(queue) = queue[1]
          /\ queue[1] \in Snapshot
      BY <2>4, TailQueueFacts, ElementOfSeq DEF HandleTree, IsTree, IInv, TypeInv, TypeOK
    <3>2. queue[1].version > lastApplied /\ Genuine(queue[1])
      BY <3>1 DEF IInv, VersionInv, OrderedDelivery, SnapshotsInv, IsTree
    <3>3. queue[1] = [version |-> queue[1].version, text |-> sent[queue[1].version]]
      BY <3>1, <3>2 DEF Snapshot, Genuine
    <3>4. CASE shown' = Head(queue)
      <4>1. shown # None => queue[1].version > shown.version
        BY <3>2 DEF IInv, VersionInv, SnapshotsInv
      <4>2. queue[1].version \in 1 .. Len(sent)
        BY <3>2 DEF Genuine
      <4>3. UNCHANGED <<text, sent>>
        BY <2>4 DEF HandleTree
      <4> QED
        BY <3>1, <3>3, <3>4, <4>1, <4>2, <4>3 DEF Contract!Show
    <3>5. CASE UNCHANGED shown
      BY <2>4, <3>5 DEF HandleTree
    <3> QED
      BY <2>4, <3>4, <3>5 DEF HandleTree
  <2>5. CASE RequestParse \/ RequestStop \/ WakeToStop \/ Join \/ DrainTree \/ PostQuit
    BY <2>5 DEF RequestParse, RequestStop, WakeToStop, Join, DrainTree, PostQuit, uiVars
  <2>6. CASE WorkerStep \/ SpuriousWake \/ DebounceElapses \/ UNCHANGED vars
    BY <2>6 DEF WorkerStep, LoopTop, AcquireLock, Check, Sleep, DozeTimeout, Reevaluate,
       Parse, CheckObsolete, PostTree, SpuriousWake, DebounceElapses, uiVars, vars
  <2> QED
    BY <2>1, <2>2, <2>3, <2>4, <2>5, <2>6 DEF Next, UiStep, Terminated
<1> QED
  BY <1>1, <1>2, Inductive, PTL DEF Spec, Contract!Spec, RefinesContract
=============================================================================
