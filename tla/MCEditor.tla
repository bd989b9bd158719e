------------------------------ MODULE MCEditor ------------------------------
(* Short documents with every mark, both line endings, items of two levels and a task. *)
EXTENDS Editor

MCTexts ==
    {<<>>, <<"a", "b">>, <<"*", "*", "a", "*", "*">>, <<"tick", "a", "tick", " ", "http">>,
     <<"a", "crlf", " ", "b", "lf", "a">>,
     <<"-", " ", "a", "lf", " ", "-", " ", "b", "lf", "1.", " ", "a">>,
     <<">", " ", "-", " ", "[ ]", " ", "a", "crlf", "lf", ">", "b">>,
     <<"#", " ", "a", "lf", "a", "b", "a", "b", "a">>,
     <<"tick", "tick", "tick", "lf", "a", "crlf", "tick", "tick", "tick">>,
     <<" ", "a", "lf", "b", "lf", " ", "a">>,
     <<"a", "b", "lf", "lf", "~", "~", "a", "~", "~">>,
     <<"[ ]", " ", "a", "lf", "*", " ", "b">>}

MCNeedle == <<"a", "b", "a">>
MCReplacement == <<"b", "a">>
=============================================================================
