--------------------------- MODULE PreviewContract ---------------------------
(***************************************************************************)
(* What the asynchronous preview promises whoever reads it: it shows a     *)
(* snapshot the document really had when that snapshot was taken, and it   *)
(* never goes back to an older one nor shows the same one twice.           *)
(***************************************************************************)
EXTENDS Naturals, Sequences

CONSTANTS Text, None

VARIABLES
    text,   \* the document
    sent,   \* the snapshots taken of it, oldest first
    shown   \* the snapshot on display, or None

vars == <<text, sent, shown>>

Init ==
    /\ text \in Text
    /\ sent = <<text>>
    /\ shown = None

\* The document changes, any number of times, before anyone looks at it ...
Change ==
    /\ text' \in Text
    /\ UNCHANGED <<sent, shown>>

\* ... or it may change and a snapshot of the new text is taken.
Take ==
    /\ text' \in Text
    /\ sent' = Append(sent, text')
    /\ UNCHANGED shown

\* A snapshot newer than the one on display replaces it; others may be skipped.
Show ==
    /\ \E v \in 1 .. Len(sent) :
          /\ shown # None => v > shown.version
          /\ shown' = [version |-> v, text |-> sent[v]]
    /\ UNCHANGED <<text, sent>>

Next == Change \/ Take \/ Show

Spec == Init /\ [][Next]_vars
=============================================================================
