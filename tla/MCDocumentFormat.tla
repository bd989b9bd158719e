-------------------------- MODULE MCDocumentFormat --------------------------
(* Instances of DocumentFormat: every short payload after every byte order mark. *)
EXTENDS DocumentFormat

CONSTANTS Bytes, MaxPayload

Marks == {<<>>, <<239, 187, 191>>, <<255, 254>>, <<254, 255>>}
MCFiles == {mark \o payload : mark \in Marks, payload \in BoundedSeq(Bytes, MaxPayload)}

\* The letter A, a line feed, an e with an acute accent, an A with a tilde followed by a
\* copyright sign, an emoji, and U+FEFF.
MCTyped == {<<65>>, <<10>>, <<195, 169>>, <<195, 131, 194, 169>>, <<240, 159, 154, 128>>, <<239, 187, 191>>}
=============================================================================
