---------------------------- MODULE MCSyncScroll ----------------------------
(* SyncScroll with every layout of one or two blocks of one or three lines, 6 high (so that  *)
(* thirds are exact), with or without a blank line and some space before them.                *)
EXTENDS SyncScroll

After(b) ==
    LET line == IF b = <<>> THEN 0 ELSE b[Len(b)].end
        y == IF b = <<>> THEN 0 ELSE b[Len(b)].bottom
    IN  {Append(b, [start |-> line + blank + 1, end |-> line + blank + lines,
                         top |-> y + space, bottom |-> y + space + 6]) :
            blank \in {0, 1}, space \in {0, 6}, lines \in {1, 3}}

OneBlock == After(<<>>)
MCLayouts == OneBlock \cup UNION {After(one) : one \in OneBlock}
=============================================================================
