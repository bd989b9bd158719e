----------------------------- MODULE MCSession -----------------------------
(* Instances of Session: one file that exists and one that does not. *)
EXTENDS Session, TLC

CONSTANTS p1, p2

MCPath == {p1, p2}
MCDisk == p1 :> 1 @@ p2 :> NoFile
=============================================================================
