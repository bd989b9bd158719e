--------------------------- MODULE SyncPositions ---------------------------
(***************************************************************************)
(* Where a source line is in the preview and which line is at a height:    *)
(* LayoutEngine::GetScrollYForLine and GetLineForScrollY, over the blocks  *)
(* of the layout, in document order and one below the other.  Heights are  *)
(* integers in a unit fine enough for the interpolation to be exact (the   *)
(* code uses floats).                                                      *)
(***************************************************************************)
EXTENDS Integers, Sequences, FiniteSetsExt

\* Inside a block the lines share its height; between two blocks they share the gap.
GetScrollYForLine(blocks, line) ==
    IF blocks = <<>> \/ line <= blocks[1].start THEN 0
    ELSE LET i == Max({j \in DOMAIN blocks : blocks[j].start <= line})
             b == blocks[i]
         IN  IF line <= b.end
             THEN b.top + ((line - b.start) * (b.bottom - b.top)) \div (b.end - b.start + 1)
             ELSE IF i < Len(blocks)
             THEN b.bottom + ((line - b.end) * (blocks[i + 1].top - b.bottom))
                                 \div (blocks[i + 1].start - b.end)
             ELSE b.bottom

GetLineForScrollY(blocks, y) ==
    IF blocks = <<>> \/ y <= 0 THEN 1
    ELSE IF y <= blocks[1].top THEN blocks[1].start
    ELSE LET i == Max({j \in DOMAIN blocks : blocks[j].top <= y})
             b == blocks[i]
         IN  IF y <= b.bottom
             THEN Min({b.end, b.start + ((y - b.top) * (b.end - b.start + 1)) \div (b.bottom - b.top)})
             ELSE IF i < Len(blocks)
             THEN b.end + ((y - b.bottom) * (blocks[i + 1].start - b.end))
                              \div (blocks[i + 1].top - b.bottom)
             ELSE b.end

-----------------------------------------------------------------------------
\* A later line is never higher in the preview, and a lower position never shows an earlier
\* line: neither pane goes back while the other goes on.
Monotonic(blocks) ==
    blocks # <<>> =>
        /\ \A line \in 0 .. blocks[Len(blocks)].end :
              GetScrollYForLine(blocks, line) <= GetScrollYForLine(blocks, line + 1)
        /\ \A y \in 0 .. blocks[Len(blocks)].bottom :
              GetLineForScrollY(blocks, y) <= GetLineForScrollY(blocks, y + 1)

=============================================================================
