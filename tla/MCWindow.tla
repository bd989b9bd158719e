------------------------------ MODULE MCWindow ------------------------------
(* A drive c with a document, a folder a with a folder b in it, a document and a text file, and a   *)
(* hidden folder h with a document.  Other programs create and delete b and what is in it.          *)
EXTENDS Window, TLC

c == <<"c">>
a == <<"c", "a">>
b == <<"c", "a", "b">>
h == <<"c", "h">>
z == <<"c", "z.md">>
y == <<"c", "a", "b", "y.md">>
q == <<"c", "h", "q.md">>
t == <<"c", "a", "t.txt">>

MCFolder == {c, a, b, h}
MCMarkdown == {z, y, q}
MCOtherFile == {t}
MCLeftOut == {h}
MCChanging == {b, y}
MCInitialDisk == {c, a, b, h, z, q, t}
MCSegmentWidth == c :> 30 @@ a :> 20 @@ b :> 20 @@ h :> 40
MCToolbar == <<[kind |-> "Button", width |-> 30, alignRight |-> FALSE],
               [kind |-> "Separator", width |-> 13, alignRight |-> FALSE],
               [kind |-> "Segment", width |-> 60, alignRight |-> FALSE],
               [kind |-> "Segment", width |-> 70, alignRight |-> FALSE],
               [kind |-> "Button", width |-> 38, alignRight |-> FALSE],
               [kind |-> "Button", width |-> 30, alignRight |-> TRUE]>>
=============================================================================
