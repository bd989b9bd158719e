------------------------------ MODULE PdfPages ------------------------------
(***************************************************************************)
(* The page writer of the PDF exporter (PdfWriter): it draws what the      *)
(* blocks of a document ask for one below the other and begins a new page  *)
(* where the next thing does not fit.  What is asked for is a sequence:    *)
(*   "gap"     room above a block, given up at the foot of a page          *)
(*   "keep"    a heading wants its lines and something below them together *)
(*   "line", "rule", "diagram"  something drawn that takes h               *)
(*   "marker"  the mark of an item, drawn beside the line after it         *)
(*   "room"    room that is left in any case                               *)
(*   "code"    a box of lines that may go on on the next page              *)
(*   "row"     a row of a table; header rows are repeated on a new page    *)
(* Lengths are hundredths of a point.                                      *)
(***************************************************************************)
EXTENDS Integers, Sequences

CONSTANT Papers     \* what may be printed: what is asked for, and the height of a page

LineStep == 1200     \* of code
CodePad == 700
PageSlack == 50          \* so near to its head a page counts as empty

Alone == {"line", "rule", "diagram"}
Asked == Alone \cup {"gap", "keep", "marker", "room", "code", "row"}

\* The least room something takes at the head of a page.
Least(ask) == IF ask.op = "code" THEN LineStep + 2 * CodePad ELSE ask.h

\* All but a row of a table fits on a page of its own, nothing is so low that the page would still
\* count as empty below it, and a marker stands before a line of its height.
Fits(p, k) == p.asks[k].op \in Alone \cup {"marker", "code"} => Least(p.asks[k]) <= p.room
Tall(p, k) == p.asks[k].op \notin {"keep", "code"} => p.asks[k].h > PageSlack
InTable(p, k) == p.asks[k].op = "row" => p.asks[k].row \in 1..k /\ \A j \in k - p.asks[k].row + 1..k : p.asks[j].op = "row"
BeforeLine(p, k) == p.asks[k].op = "marker" => k < Len(p.asks) /\ p.asks[k + 1].op = "line" /\ p.asks[k + 1].h = p.asks[k].h

ASSUME PapersAssumption ==
    \A p \in Papers :
        /\ p.room \in Nat /\ DOMAIN p.asks = 1..Len(p.asks) /\ Len(p.asks) \in Nat
        /\ \A k \in DOMAIN p.asks :
              /\ p.asks[k].op \in Asked /\ p.asks[k].h \in Nat
              /\ Fits(p, k) /\ Tall(p, k) /\ InTable(p, k) /\ BeforeLine(p, k)

VARIABLES
    paper,          \* what is printed
    next,           \* the place of what is asked for now; 0 before anything is printed
    drawnLines,     \* how many lines of the code are drawn
    repeat,         \* the header row to repeat on a new page before the row; 0 if there is no new page
    page, down,     \* the page and how far down it is written
    marks           \* what is drawn: on which page, from where to where

pdfVars == <<paper, next, drawnLines, repeat, page, down, marks>>

NoPaper == [asks |-> <<>>, room |-> 0]

PdfInit ==
    /\ paper = NoPaper
    /\ next = 0 /\ drawnLines = 0 /\ repeat = 0
    /\ page = 1 /\ down = 0
    /\ marks = {}

Ask == paper.asks[next]
Asks(kinds) == next \in DOMAIN paper.asks /\ Ask.op \in kinds

\* Something of this height passes the foot of a page that is not empty.
Passes(h) == down + h > paper.room /\ down > PageSlack

MarkOf(at, place, top, bottom, again) ==
    [at |-> at, op |-> paper.asks[at].op, page |-> place, top |-> top, bottom |-> bottom, again |-> again]

GoOn == next' = next + 1 /\ UNCHANGED <<paper, drawnLines, repeat>>

NewPage == page' = page + 1 /\ down' = 0
SamePage == UNCHANGED <<page, down>>

-----------------------------------------------------------------------------
BeginPrint ==
    /\ next = 0
    /\ next' = 1
    /\ \E p \in Papers : paper' = p
    /\ UNCHANGED <<drawnLines, repeat, page, down, marks>>

\* PrintGap: at the foot of a page the gap is the end of the page.
PrintGap ==
    /\ Asks({"gap"})
    /\ IF down + Ask.h > paper.room THEN NewPage ELSE down' = down + Ask.h /\ UNCHANGED page
    /\ UNCHANGED marks /\ GoOn

\* Mutant: a page is begun although nothing is on this one yet.
PrintKeepAlways ==
    /\ Asks({"keep"})
    /\ IF down + Ask.h > paper.room THEN NewPage ELSE SamePage
    /\ UNCHANGED marks /\ GoOn

\* Orphan prevention of RenderHeading.
PrintKeep ==
    /\ Asks({"keep"})
    /\ IF Passes(Ask.h) THEN NewPage ELSE SamePage
    /\ UNCHANGED marks /\ GoOn

\* Advance: what was drawn, or is not looked at, moves the pen.
PrintRoom ==
    /\ Asks({"room"})
    /\ down' = down + Ask.h
    /\ UNCHANGED <<page, marks>> /\ GoOn

PrintAt(place, top) ==
    /\ page' = place
    /\ down' = IF Ask.op = "marker" THEN top ELSE top + Ask.h
    /\ marks' = marks \cup {MarkOf(next, place, top, top + Ask.h, FALSE)}

\* Mutant: a page is turned only when nothing at all is left of it.
PrintMarkLate ==
    /\ Asks(Alone \cup {"marker"})
    /\ IF down >= paper.room THEN PrintAt(page + 1, 0) ELSE PrintAt(page, down)
    /\ GoOn

\* EnsureSpace, and what is drawn there.
PrintMark ==
    /\ Asks(Alone \cup {"marker"})
    /\ IF Passes(Ask.h) THEN PrintAt(page + 1, 0) ELSE PrintAt(page, down)
    /\ GoOn

-----------------------------------------------------------------------------
(* PrintCode: as many lines as fit, in a box, then a new page. *)

Fit(top) == IF (paper.room - top - 2 * CodePad) \div LineStep > 1 THEN (paper.room - top - 2 * CodePad) \div LineStep ELSE 1
Count(top) == IF Fit(top) < Ask.h - drawnLines THEN Fit(top) ELSE Ask.h - drawnLines

BoxAt(place, top) ==
    LET bottom == top + Count(top) * LineStep + 2 * CodePad
        ends == drawnLines + Count(top) = Ask.h
    IN  /\ marks' = marks \cup {MarkOf(next, place, top, bottom, FALSE)}
        /\ page' = IF ends THEN place ELSE place + 1
        /\ down' = IF ends THEN bottom ELSE 0
        /\ drawnLines' = IF ends THEN 0 ELSE drawnLines + Count(top)
        /\ next' = IF ends THEN next + 1 ELSE next
        /\ UNCHANGED <<paper, repeat>>

PrintCode ==
    /\ Asks({"code"})
    /\ IF Passes(LineStep + 2 * CodePad) THEN BoxAt(page + 1, 0) ELSE BoxAt(page, down)

-----------------------------------------------------------------------------
(* Tables.  Ask.row is the place of a row in its table. *)

FirstRow == next - Ask.row + 1

\* The row does not fit: a new page, which a header row has for itself.
TurnRow ==
    /\ Asks({"row"}) /\ repeat = 0 /\ Passes(Ask.h)
    /\ NewPage
    /\ repeat' = IF Ask.header THEN next ELSE FirstRow
    /\ UNCHANGED <<paper, next, drawnLines, marks>>

Repeats == repeat \notin {0, next} /\ paper.asks[repeat].header

RepeatRow ==
    /\ Asks({"row"}) /\ Repeats
    /\ marks' = marks \cup {MarkOf(repeat, page, down, down + paper.asks[repeat].h, TRUE)}
    /\ down' = down + paper.asks[repeat].h
    /\ repeat' = repeat + 1
    /\ UNCHANGED <<paper, next, drawnLines, page>>

\* After the repeated rows the row is drawn wherever it ends.
PrintRow ==
    /\ Asks({"row"}) /\ ~Repeats
    /\ repeat = 0 => ~Passes(Ask.h)
    /\ marks' = marks \cup {MarkOf(next, page, down, down + Ask.h, FALSE)}
    /\ down' = down + Ask.h
    /\ repeat' = 0
    /\ next' = next + 1
    /\ UNCHANGED <<paper, drawnLines, page>>

PdfNext == BeginPrint \/ PrintGap \/ PrintKeep \/ PrintRoom \/ PrintMark \/ PrintCode \/ TurnRow \/ RepeatRow \/ PrintRow

PdfSpec == PdfInit /\ [][PdfNext]_pdfVars

-----------------------------------------------------------------------------
Printed == next > Len(paper.asks)

\* A row may only reach below the foot of its page when it begins the page, or when the header
\* was repeated above it.
RowMayPass(m) == m.op = "row" /\ (m.top <= PageSlack \/ \E n \in marks : n.page = m.page /\ n.again)

\* Two things on one page lie one below the other; a marker lies beside the line it is for.
Apart(m, n) == m.bottom <= n.top \/ n.bottom <= m.top
Beside(m, n) == m.op = "marker" /\ n.at = m.at + 1 /\ n.top = m.top

Reaches(m) == m.bottom <= paper.room \/ RowMayPass(m)
Separate(m, n) == m.page = n.page => m = n \/ Apart(m, n) \/ Beside(m, n) \/ Beside(n, m)

\* Whatever the document, nothing that is printed reaches below the foot of its page, where
\* the page number is, but a row of a table too high for the page or what is left of it under
\* a repeated header; and nothing is printed over anything else.
PagesAreSound == \A m \in marks : 0 <= m.top /\ m.page <= page /\ Reaches(m) /\ \A n \in marks : Separate(m, n)

Unseen == {"gap", "keep", "room"}

\* What is drawn next after something, if anything, and without another heading between them.
NextOf(at) ==
    {j \in DOMAIN paper.asks :
        at < j /\ paper.asks[j].op \notin Unseen /\ \A k \in at + 1..j - 1 : paper.asks[k].op \in Unseen \ {"keep"}}

\* A heading holds on to its lines and the text below it.  (A diagram or a row of a table below
\* it may need more than is kept for them.)
HoldsOn(at, j) ==
    \/ paper.asks[at].op = "marker"
    \/ paper.asks[at].op = "line" /\ paper.asks[at].header /\ paper.asks[j].op \in {"line", "marker", "code", "rule"}

\* A heading is never the last thing on a page when text follows it, the mark of an item is on
\* the page of the item's first line, and no page is left empty.
KeptTogether ==
    /\ \A m, n \in marks :
          n.at \in NextOf(m.at) /\ HoldsOn(m.at, n.at) => \E o \in marks : o.at = n.at /\ o.page = m.page
    /\ \A p \in 1..page : p < page \/ Printed => \E m \in marks : m.page = p

\* What the design document says of headings: some content follows on the same page.
NoOrphanHeadings ==
    \A m, n \in marks :
        /\ m.op = "line" /\ paper.asks[m.at].header /\ n.at > m.at /\ paper.asks[n.at].op \notin Unseen
        /\ \A k \in m.at + 1..n.at - 1 : paper.asks[k].op \in Unseen
        => \E o \in marks : o.at = n.at /\ o.page = m.page
=============================================================================
