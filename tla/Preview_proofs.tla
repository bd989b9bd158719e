--------------------------- MODULE Preview_proofs ---------------------------
(***************************************************************************)
(* Proofs about the preview, its outline and its page writer, for every    *)
(* set of documents, and every sequence of things to print that            *)
(* PapersAssumption allows.                                                *)
(***************************************************************************)
EXTENDS Preview, SequenceTheorems, FiniteSetTheorems, WellFoundedInduction, TLAPS

-----------------------------------------------------------------------------
(* The page writer. *)

Marks == [at : Nat, op : Asked, page : Nat, top : Nat, bottom : Nat, again : BOOLEAN]

PdfTypeOK ==
    /\ paper \in Papers \cup {NoPaper}
    /\ next \in Nat /\ drawnLines \in Nat /\ repeat \in Nat
    /\ page \in Nat \ {0} /\ down \in Nat
    /\ marks \subseteq Marks

\* The mark of an item whose first line is drawn next, beside it.
Pending(m) ==
    /\ m.op = "marker" /\ next = m.at + 1 /\ m.page = page
    /\ Asks({"line"}) /\ m.top = down /\ m.bottom = down + Ask.h /\ ~Passes(Ask.h)

\* What is drawn on the page lies above the pen.
PenIsBelow == \A m \in marks : m.page <= page /\ (m.page = page => m.bottom <= down \/ Pending(m))

\* A page counts as empty only when the pen is at its head.
PenIsClear == down = 0 \/ down > PageSlack

LinesAreLeft == drawnLines # 0 => Asks({"code"}) /\ drawnLines < Ask.h

\* While rows are repeated the pen is at the head of the page or under a repeated row.
RowsAreRepeated ==
    repeat # 0 =>
        /\ Asks({"row"}) /\ repeat \in FirstRow..next
        /\ down = 0 \/ \E n \in marks : n.page = page /\ n.again

NothingIsBegun == next = 0 => marks = {} /\ page = 1 /\ down = 0 /\ drawnLines = 0 /\ repeat = 0

PdfInv == NothingIsBegun /\ PdfTypeOK /\ PagesAreSound /\ PenIsBelow /\ PenIsClear /\ LinesAreLeft /\ RowsAreRepeated

\* Before anything is printed.
LEMMA InitPdf == PdfInit => PdfInv
  BY DEF PdfInit, PdfInv, PdfTypeOK, PagesAreSound, PenIsBelow, PenIsClear, LinesAreLeft, RowsAreRepeated, NothingIsBegun

-----------------------------------------------------------------------------
(* What is asked for. *)

\* What is asked for next is one of the things to print.
LEMMA Asking ==
  ASSUME PdfTypeOK, next \in DOMAIN paper.asks
  PROVE  /\ paper \in Papers /\ paper.room \in Nat
         /\ Ask.op \in Asked /\ Ask.h \in Nat
         /\ Fits(paper, next) /\ Tall(paper, next) /\ InTable(paper, next) /\ BeforeLine(paper, next)
<1>1. paper \in Papers
  BY DEF PdfTypeOK, NoPaper
<1> QED
  BY <1>1, PapersAssumption DEF Ask

\* Only the line beside it may be asked for when a mark is pending.
LEMMA NothingPending ==
  ASSUME PdfInv, NEW kinds, Asks(kinds), "line" \notin kinds
  PROVE  \A m \in marks : m.page = page => m.bottom <= down
  BY DEF PdfInv, PenIsBelow, Pending, Asks

\* Something new is drawn where nothing is: at the pen, or on a page of its own.
LEMMA Drawing ==
  ASSUME PdfInv, NEW m \in Marks, marks' = marks \cup {m}, paper' = paper, page' \in Nat, page' >= page,
         m.page >= page, m.page <= page',
         m.page = page => m.top >= down,
         \A n \in marks : n.page = page => n.bottom <= down \/ Beside(n, m),
         \/ m.bottom <= paper.room
         \/ m.op = "row" /\ (m.top <= PageSlack \/ m.again \/ \E n \in marks : n.page = m.page /\ n.again)
  PROVE  PagesAreSound' /\ marks' \subseteq Marks
<1>1. marks \subseteq Marks /\ page \in Nat /\ down \in Nat
  BY DEF PdfInv, PdfTypeOK
<1>2. Reaches(m)'
  BY DEF Reaches, RowMayPass
<1>3. ASSUME NEW n \in marks
      PROVE  /\ n.page <= page /\ n.page <= page' /\ Reaches(n)'
             /\ Separate(n, m) /\ Separate(m, n)
  <2>1. n.page <= page /\ Reaches(n)
    BY <1>3 DEF PdfInv, PagesAreSound
  <2>2. Reaches(n)'
    BY <2>1 DEF Reaches, RowMayPass
  <2>3. n.page \in Nat /\ n.bottom \in Nat /\ m.page \in Nat /\ m.top \in Nat
    BY <1>1, <1>3 DEF Marks
  <2>4. CASE n.page = m.page
    <3>1. n.page = page
      BY <2>1, <2>3, <2>4, <1>1
    <3>2. n.bottom <= m.top \/ Beside(n, m)
      BY <3>1, <2>3, <2>4, <1>1
    <3> QED
      BY <2>1, <2>2, <2>3, <1>1, <3>2 DEF Separate, Apart
  <2>5. CASE n.page # m.page
    BY <2>1, <2>2, <2>3, <2>5, <1>1 DEF Separate
  <2> QED
    BY <2>4, <2>5
<1>4. 0 <= m.top /\ Separate(m, m)
  BY DEF Marks, Separate
<1>5. \A n, o \in marks : Separate(n, o) /\ 0 <= n.top
  BY DEF PdfInv, PagesAreSound
<1>6. ASSUME NEW n, NEW o
      PROVE  Separate(n, o)' <=> Separate(n, o)
  BY DEF Separate, Apart, Beside
<1> QED
  BY <1>1, <1>2, <1>3, <1>4, <1>5, <1>6 DEF PagesAreSound

\* When nothing is drawn all stays sound.
LEMMA NotDrawing ==
  ASSUME PdfInv, marks' = marks, paper' = paper, page' \in Nat, page' >= page
  PROVE  PagesAreSound'
<1>1. \A n \in marks : n.page \in Nat /\ page \in Nat
  BY DEF PdfInv, PdfTypeOK, Marks
<1> QED
  BY <1>1 DEF PdfInv, PagesAreSound, Reaches, RowMayPass, Separate, Apart, Beside

-----------------------------------------------------------------------------
(* The actions. *)

\* A document is chosen.
LEMMA BeginPdf == PdfInv /\ BeginPrint => PdfInv'
<1> SUFFICES ASSUME PdfInv, BeginPrint
             PROVE  PdfInv'
  OBVIOUS
<1>1. marks' = {} /\ drawnLines' = 0 /\ repeat' = 0 /\ down' = 0 /\ page' = 1 /\ next' = 1
  BY DEF PdfInv, NothingIsBegun, BeginPrint
<1>2. paper' \in Papers
  BY DEF BeginPrint
<1> QED
  BY <1>1, <1>2 DEF PdfInv, NothingIsBegun, PdfTypeOK, PagesAreSound, PenIsBelow, PenIsClear, LinesAreLeft, RowsAreRepeated

\* A gap, what is kept and room left: the pen moves down or to a new page.
LEMMA MovePdf ==
  ASSUME PdfInv, Asks({"gap", "keep", "room"}), GoOn, marks' = marks,
         \/ NewPage
         \/ page' = page /\ down' \in {down, down + Ask.h} /\ (Ask.op = "keep" => down' = down)
  PROVE  PdfInv'
<1>1. /\ Ask.h \in Nat /\ Tall(paper, next)
      /\ next \in Nat /\ page \in Nat \ {0} /\ down \in Nat
  BY Asking DEF PdfInv, PdfTypeOK, Asks
<1>2. PdfTypeOK'
  BY <1>1 DEF PdfInv, PdfTypeOK, GoOn, NewPage
<1>3. PagesAreSound'
  BY <1>1, NotDrawing DEF GoOn, NewPage
<1>4. PenIsBelow'
  <2>1. \A m \in marks : m.page = page => m.bottom <= down
    BY NothingPending
  <2>2. \A m \in marks : m.page \in Nat /\ m.bottom \in Nat /\ m.page <= page
    BY DEF PdfInv, PdfTypeOK, Marks, PenIsBelow
  <2> QED
    BY <1>1, <2>1, <2>2 DEF PenIsBelow, NewPage
<1>5. PenIsClear'
  BY <1>1 DEF PdfInv, PenIsClear, NewPage, Tall, Asks, Ask, PageSlack
<1>6. LinesAreLeft' /\ RowsAreRepeated' /\ NothingIsBegun'
  BY <1>1 DEF PdfInv, NothingIsBegun, LinesAreLeft, RowsAreRepeated, Asks, GoOn
<1> QED
  BY <1>2, <1>3, <1>4, <1>5, <1>6 DEF PdfInv

\* A gap ends the page or moves the pen.
LEMMA GapPdf == PdfInv /\ PrintGap => PdfInv'
  BY MovePdf DEF PrintGap, Asks

\* What is kept together begins a page or stays on this one.
LEMMA KeepPdf == PdfInv /\ PrintKeep => PdfInv'
  BY MovePdf DEF PrintKeep, SamePage, Asks

\* The pen is moved.
LEMMA RoomPdf == PdfInv /\ PrintRoom => PdfInv'
  BY MovePdf DEF PrintRoom, Asks

\* A line, a rule, a diagram or the mark of an item.
LEMMA MarkPdf == PdfInv /\ PrintMark => PdfInv'
<1> SUFFICES ASSUME PdfInv, PrintMark
             PROVE  PdfInv'
  OBVIOUS
<1>a. PICK place : place = IF Passes(Ask.h) THEN page + 1 ELSE page
  OBVIOUS
<1>b. PICK top : top = IF Passes(Ask.h) THEN 0 ELSE down
  OBVIOUS
<1>c. PICK m : m = MarkOf(next, place, top, top + Ask.h, FALSE)
  OBVIOUS
<1>1. /\ Ask.h \in Nat /\ Ask.op \in Alone \cup {"marker"} /\ next \in DOMAIN paper.asks
      /\ paper \in Papers /\ paper.room \in Nat
      /\ Fits(paper, next) /\ Tall(paper, next) /\ BeforeLine(paper, next)
      /\ next \in Nat /\ page \in Nat \ {0} /\ down \in Nat /\ marks \subseteq Marks
  BY Asking DEF PdfInv, PdfTypeOK, PrintMark, Asks
<1>2. /\ page' = place /\ marks' = marks \cup {m} /\ paper' = paper /\ next' = next + 1
      /\ drawnLines' = drawnLines /\ repeat' = repeat
      /\ down' = IF Ask.op = "marker" THEN top ELSE top + Ask.h
  BY <1>a, <1>b, <1>c DEF PrintMark, PrintAt, GoOn
<1>3. Ask.h > PageSlack /\ Ask.h <= paper.room
  BY <1>1 DEF Fits, Tall, Least, Ask, Alone
<1>4. /\ m \in Marks /\ m.page = place /\ m.top = top /\ m.bottom = top + Ask.h /\ m.op = Ask.op /\ m.at = next
      /\ place \in Nat /\ top \in Nat
  BY <1>1, <1>a, <1>b, <1>c DEF MarkOf, Marks, Asked, Ask
<1>5. top + Ask.h <= paper.room /\ (top = 0 \/ top > PageSlack)
  BY <1>1, <1>3, <1>b DEF PdfInv, PenIsClear, Passes
<1>6. ASSUME NEW n \in marks, n.page = page
      PROVE  \/ n.bottom <= down
             \/ Beside(n, m) /\ ~Passes(Ask.h) /\ n.bottom = down + Ask.h /\ Ask.op = "line"
  <2>1. CASE Pending(n)
    <3>1. n.op = "marker" /\ next = n.at + 1 /\ n.top = down /\ n.bottom = down + Ask.h /\ ~Passes(Ask.h) /\ Ask.op = "line"
      BY <2>1 DEF Pending, Asks
    <3> QED
      BY <1>4, <1>b, <3>1 DEF Beside
  <2>2. n.bottom <= down \/ Pending(n)
    BY <1>6 DEF PdfInv, PenIsBelow
  <2> QED
    BY <2>1, <2>2
<1>7. PagesAreSound' /\ marks' \subseteq Marks
  <2>1. page' \in Nat /\ page' >= page /\ m.page >= page /\ m.page <= page' /\ (m.page = page => m.top >= down)
    BY <1>1, <1>2, <1>4, <1>a, <1>b
  <2>2. \A n \in marks : n.page = page => n.bottom <= down \/ Beside(n, m)
    BY <1>6
  <2>3. m.bottom <= paper.room
    BY <1>4, <1>5
  <2> QED
    BY <1>2, <1>4, <2>1, <2>2, <2>3, Drawing
<1>8. PdfTypeOK'
  <2>1. down' \in Nat /\ page' \in Nat \ {0} /\ next' \in Nat
    BY <1>1, <1>2, <1>4, <1>a
  <2> QED
    BY <1>2, <1>7, <2>1 DEF PdfInv, PdfTypeOK
<1>9. PenIsBelow'
  <2>1. ASSUME NEW n \in marks
        PROVE  n.page <= page' /\ (n.page = page' => n.bottom <= down')
    <3>1. n.page <= page /\ n.page \in Nat /\ n.bottom \in Nat
      BY <1>1, <2>1 DEF PdfInv, PenIsBelow, Marks
    <3> QED
      BY <1>1, <1>2, <1>4, <1>6, <3>1, <1>a, <1>b
  <2>2. m.page <= page' /\ (m.bottom <= down' \/ Pending(m)')
    <3>1. CASE Ask.op # "marker"
      BY <1>1, <1>2, <1>4, <3>1
    <3>2. CASE Ask.op = "marker"
      <4>1. next + 1 \in DOMAIN paper.asks /\ paper.asks[next + 1].op = "line" /\ paper.asks[next + 1].h = Ask.h
        BY <1>1, <3>2, PapersAssumption DEF BeforeLine, Ask
      <4>2. Ask' = paper.asks[next + 1]
        BY <1>2 DEF Ask
      <4>3. ~Passes(Ask.h)'
        BY <1>1, <1>2, <1>4, <1>5, <3>2, <4>1, <4>2 DEF Passes
      <4> QED
        BY <1>1, <1>2, <1>4, <3>2, <4>1, <4>2, <4>3 DEF Pending, Asks
    <3> QED
      BY <3>1, <3>2
  <2> QED
    BY <1>2, <2>1, <2>2 DEF PenIsBelow
<1>10. PenIsClear'
  BY <1>1, <1>2, <1>3, <1>4, <1>5 DEF PenIsClear, PageSlack
<1>11. LinesAreLeft' /\ RowsAreRepeated' /\ NothingIsBegun'
  <2>1. drawnLines = 0 /\ repeat = 0
    BY <1>1 DEF PdfInv, LinesAreLeft, RowsAreRepeated, Asks, Alone
  <2> QED
    BY <1>1, <1>2, <2>1 DEF LinesAreLeft, RowsAreRepeated, NothingIsBegun
<1> QED
  BY <1>7, <1>8, <1>9, <1>10, <1>11 DEF PdfInv

\* A box of code or a row: below it, or on a new page, the pen goes on.
LEMMA BoxPdf ==
  ASSUME PdfInv, Asks({"code", "row"}), NEW place, NEW top, NEW m \in Marks,
         (place = page /\ top = down) \/ (place = page + 1 /\ top = 0),
         m.page = place, m.top = top, m.bottom >= top, m.op # "marker",
         marks' = marks \cup {m}, paper' = paper,
         (page' = place /\ down' = m.bottom) \/ (page' = place + 1 /\ down' = 0),
         \/ m.bottom <= paper.room
         \/ m.op = "row" /\ (m.top <= PageSlack \/ m.again \/ \E n \in marks : n.page = m.page /\ n.again)
  PROVE  PagesAreSound' /\ PenIsBelow' /\ marks' \subseteq Marks
<1>1. page \in Nat \ {0} /\ down \in Nat /\ marks \subseteq Marks
  BY DEF PdfInv, PdfTypeOK
<1>2. \A n \in marks : n.page = page => n.bottom <= down
  BY NothingPending
<1>3. PagesAreSound' /\ marks' \subseteq Marks
  <2>1. page' \in Nat /\ page' >= page /\ m.page >= page /\ m.page <= page' /\ (m.page = page => m.top >= down)
    BY <1>1
  <2> QED
    BY <1>2, <2>1, Drawing
<1>4. PenIsBelow'
  <2>1. ASSUME NEW n \in marks
        PROVE  n.page <= page' /\ (n.page = page' => n.bottom <= down')
    <3>1. n.page <= page /\ n.page \in Nat /\ n.bottom \in Nat
      BY <1>1, <2>1 DEF PdfInv, PenIsBelow, Marks
    <3>2. m.bottom \in Nat
      BY DEF Marks
    <3> QED
      BY <1>1, <1>2, <3>1, <3>2
  <2>2. m.page <= page' /\ (m.page = page' => m.bottom <= down')
    BY <1>1 DEF Marks
  <2> QED
    BY <2>1, <2>2 DEF PenIsBelow
<1> QED
  BY <1>3, <1>4

\* A box of as many lines as fit.
LEMMA CodePdf == PdfInv /\ PrintCode => PdfInv'
<1> SUFFICES ASSUME PdfInv, PrintCode
             PROVE  PdfInv'
  OBVIOUS
<1>1. /\ Ask.h \in Nat /\ Ask.op = "code" /\ next \in DOMAIN paper.asks /\ Asks({"code", "row"})
      /\ paper \in Papers /\ paper.room \in Nat /\ Fits(paper, next)
      /\ next \in Nat /\ drawnLines \in Nat /\ page \in Nat \ {0} /\ down \in Nat /\ marks \subseteq Marks
  BY Asking DEF PdfInv, PdfTypeOK, PrintCode, Asks
<1>2. LineStep + 2 * CodePad <= paper.room
  BY <1>1 DEF Fits, Least, Ask
<1>3. drawnLines <= Ask.h
  BY <1>1 DEF PdfInv, LinesAreLeft
<1>4. PICK place, top : /\ BoxAt(place, top)
                        /\ (place = page /\ top = down) \/ (place = page + 1 /\ top = 0)
                        /\ top + LineStep + 2 * CodePad <= paper.room
                        /\ top = 0 \/ top > PageSlack
  <2>1. CASE Passes(LineStep + 2 * CodePad)
    BY <1>1, <1>2, <2>1 DEF PrintCode, LineStep, CodePad
  <2>2. CASE ~Passes(LineStep + 2 * CodePad)
    <3>1. BoxAt(page, down)
      BY <2>2 DEF PrintCode
    <3>2. down + LineStep + 2 * CodePad <= paper.room /\ (down = 0 \/ down > PageSlack)
      BY <1>1, <1>2, <2>2 DEF Passes, PdfInv, PenIsClear, LineStep, CodePad
    <3> QED
      BY <3>1, <3>2
  <2> QED
    BY <2>1, <2>2
<1>5. /\ Fit(top) \in Nat /\ Fit(top) >= 1
      /\ top + Fit(top) * LineStep + 2 * CodePad <= paper.room
  BY <1>1, <1>4 DEF Fit, LineStep, CodePad
<1>6. Count(top) \in Nat /\ Count(top) <= Fit(top) /\ Count(top) <= Ask.h - drawnLines /\ (Count(top) = 0 => drawnLines = Ask.h)
  BY <1>1, <1>3, <1>5 DEF Count
<1>7. PICK bottom \in Nat : /\ bottom = top + Count(top) * LineStep + 2 * CodePad
                            /\ bottom <= paper.room /\ bottom > PageSlack /\ bottom >= top
  BY <1>1, <1>4, <1>5, <1>6 DEF LineStep, CodePad, PageSlack
<1>8. PICK m : m = MarkOf(next, place, top, bottom, FALSE)
  OBVIOUS
<1>9. /\ marks' = marks \cup {m} /\ paper' = paper /\ repeat' = repeat
      /\ \/ /\ drawnLines + Count(top) = Ask.h
            /\ page' = place /\ down' = bottom /\ drawnLines' = 0 /\ next' = next + 1
         \/ /\ drawnLines + Count(top) # Ask.h
            /\ page' = place + 1 /\ down' = 0 /\ drawnLines' = drawnLines + Count(top) /\ next' = next
  BY <1>4, <1>7, <1>8 DEF BoxAt
<1>10. m \in Marks /\ m.page = place /\ m.top = top /\ m.bottom = bottom /\ m.op = "code"
  BY <1>1, <1>4, <1>7, <1>8 DEF MarkOf, Marks, Asked, Ask
<1>11. PagesAreSound' /\ PenIsBelow' /\ marks' \subseteq Marks
  BY <1>1, <1>4, <1>7, <1>9, <1>10, BoxPdf
<1>12. PdfTypeOK'
  <2>1. page' \in Nat \ {0} /\ down' \in Nat /\ next' \in Nat /\ drawnLines' \in Nat
    BY <1>1, <1>4, <1>6, <1>7, <1>9
  <2> QED
    BY <1>9, <1>11, <2>1 DEF PdfInv, PdfTypeOK
<1>13. PenIsClear'
  BY <1>7, <1>9 DEF PenIsClear
<1>14. LinesAreLeft'
  BY <1>1, <1>3, <1>6, <1>9 DEF LinesAreLeft, Asks, Ask
<1>15. RowsAreRepeated' /\ NothingIsBegun'
  <2>1. repeat = 0
    BY <1>1 DEF PdfInv, RowsAreRepeated, Asks
  <2>2. next # 0
    BY <1>1, PapersAssumption
  <2> QED
    BY <1>1, <1>9, <2>1, <2>2 DEF RowsAreRepeated, NothingIsBegun
<1> QED
  BY <1>11, <1>12, <1>13, <1>14, <1>15 DEF PdfInv

-----------------------------------------------------------------------------
(* Rows. *)

\* ... and so are the rows a row of a table is printed with.
LEMMA AskingRow ==
  ASSUME PdfInv, Asks({"row"})
  PROVE  /\ Ask.h \in Nat /\ Ask.op = "row" /\ next \in DOMAIN paper.asks /\ Asks({"code", "row"})
         /\ paper \in Papers /\ paper.room \in Nat /\ Tall(paper, next)
         /\ FirstRow \in Nat \ {0} /\ FirstRow <= next
         /\ \A j \in FirstRow..next : j \in DOMAIN paper.asks /\ paper.asks[j].op = "row"
         /\ next \in Nat \ {0} /\ repeat \in Nat /\ page \in Nat \ {0} /\ down \in Nat /\ marks \subseteq Marks
         /\ drawnLines = 0
<1>1. /\ Ask.h \in Nat /\ Ask.op = "row" /\ next \in DOMAIN paper.asks /\ Asks({"code", "row"})
      /\ paper \in Papers /\ paper.room \in Nat /\ Tall(paper, next) /\ InTable(paper, next)
      /\ next \in Nat /\ repeat \in Nat /\ page \in Nat \ {0} /\ down \in Nat /\ marks \subseteq Marks
  BY Asking DEF PdfInv, PdfTypeOK, Asks
<1>2. DOMAIN paper.asks = 1..Len(paper.asks) /\ Len(paper.asks) \in Nat
  BY <1>1, PapersAssumption
<1>3. Ask.row \in 1..next /\ \A j \in next - Ask.row + 1..next : paper.asks[j].op = "row"
  BY <1>1 DEF InTable, Ask
<1>4. drawnLines = 0
  BY <1>1 DEF PdfInv, LinesAreLeft, Asks
<1>5. FirstRow = next - Ask.row + 1
  BY DEF FirstRow
<1>6. next \in 1..Len(paper.asks)
  BY <1>1, <1>2
<1>7. FirstRow \in Nat \ {0} /\ FirstRow <= next /\ next \in Nat \ {0}
  BY <1>2, <1>3, <1>5, <1>6
<1>8. \A j \in FirstRow..next : j \in DOMAIN paper.asks
  BY <1>2, <1>6, <1>7
<1>9. \A j \in FirstRow..next : paper.asks[j].op = "row"
  BY <1>3, <1>5
<1> QED
  BY <1>1, <1>4, <1>7, <1>8, <1>9

\* A row begins a page.
LEMMA TurnPdf == PdfInv /\ TurnRow => PdfInv'
<1> SUFFICES ASSUME PdfInv, TurnRow
             PROVE  PdfInv'
  OBVIOUS
<1>1. /\ Asks({"row"}) /\ page' = page + 1 /\ down' = 0 /\ repeat' \in {next, FirstRow}
      /\ paper' = paper /\ next' = next /\ drawnLines' = drawnLines /\ marks' = marks
  BY DEF TurnRow, NewPage
<1>2. /\ next \in Nat \ {0} /\ page \in Nat \ {0} /\ down \in Nat /\ FirstRow \in Nat \ {0} /\ FirstRow <= next
  BY <1>1, AskingRow
<1>3. PagesAreSound'
  BY <1>1, <1>2, NotDrawing
<1>4. PdfTypeOK'
  BY <1>1, <1>2 DEF PdfInv, PdfTypeOK
<1>5. PenIsBelow'
  <2>1. \A n \in marks : n.page <= page /\ n.page \in Nat
    BY DEF PdfInv, PdfTypeOK, PenIsBelow, Marks
  <2> QED
    BY <1>1, <1>2, <2>1 DEF PenIsBelow
<1>6. PenIsClear' /\ LinesAreLeft' /\ NothingIsBegun'
  BY <1>1, <1>2 DEF PdfInv, PenIsClear, LinesAreLeft, NothingIsBegun, Asks, Ask
<1>7. RowsAreRepeated'
  BY <1>1, <1>2 DEF RowsAreRepeated, Asks, Ask, FirstRow
<1> QED
  BY <1>3, <1>4, <1>5, <1>6, <1>7 DEF PdfInv

\* A header row is drawn again.
LEMMA RepeatPdf == PdfInv /\ RepeatRow => PdfInv'
<1> SUFFICES ASSUME PdfInv, RepeatRow
             PROVE  PdfInv'
  OBVIOUS
<1>1. Asks({"row"}) /\ Repeats
  BY DEF RepeatRow
<1>2. repeat \in FirstRow..next /\ repeat # next
  BY <1>1 DEF PdfInv, RowsAreRepeated, Repeats
<1>3. repeat \in DOMAIN paper.asks /\ paper.asks[repeat].op = "row" /\ repeat \in Nat /\ repeat + 1 \in FirstRow..next
  BY <1>1, <1>2, AskingRow
<1>4. /\ next \in Nat \ {0} /\ page \in Nat \ {0} /\ down \in Nat /\ paper \in Papers /\ drawnLines = 0
      /\ Asks({"code", "row"})
  BY <1>1, AskingRow
<1>5. paper.asks[repeat].h \in Nat /\ paper.asks[repeat].h > PageSlack
  BY <1>3, <1>4, PapersAssumption DEF Tall
<1>6. PICK bottom \in Nat : bottom = down + paper.asks[repeat].h /\ bottom >= down /\ bottom > PageSlack
  BY <1>4, <1>5 DEF PageSlack
<1>7. PICK m : m = MarkOf(repeat, page, down, bottom, TRUE)
  OBVIOUS
<1>8. /\ marks' = marks \cup {m} /\ down' = bottom /\ repeat' = repeat + 1
      /\ paper' = paper /\ next' = next /\ drawnLines' = drawnLines /\ page' = page
  BY <1>6, <1>7 DEF RepeatRow
<1>9. m \in Marks /\ m.page = page /\ m.top = down /\ m.bottom = bottom /\ m.op = "row" /\ m.again
  BY <1>3, <1>4, <1>6, <1>7 DEF MarkOf, Marks, Asked
<1>10. PagesAreSound' /\ PenIsBelow' /\ marks' \subseteq Marks
  BY <1>4, <1>6, <1>8, <1>9, BoxPdf
<1>11. PdfTypeOK'
  BY <1>3, <1>6, <1>8, <1>10 DEF PdfInv, PdfTypeOK
<1>12. PenIsClear' /\ LinesAreLeft' /\ NothingIsBegun'
  BY <1>4, <1>6, <1>8 DEF PenIsClear, LinesAreLeft, NothingIsBegun
<1>13. RowsAreRepeated'
  BY <1>1, <1>3, <1>8, <1>9 DEF RowsAreRepeated, Asks, Ask, FirstRow
<1> QED
  BY <1>10, <1>11, <1>12, <1>13 DEF PdfInv

\* A row is drawn.
LEMMA RowPdf == PdfInv /\ PrintRow => PdfInv'
<1> SUFFICES ASSUME PdfInv, PrintRow
             PROVE  PdfInv'
  OBVIOUS
<1>1. Asks({"row"}) /\ (repeat = 0 => ~Passes(Ask.h))
  BY DEF PrintRow
<1>2. /\ Ask.h \in Nat /\ Ask.op = "row" /\ Asks({"code", "row"})
      /\ next \in Nat \ {0} /\ page \in Nat \ {0} /\ down \in Nat /\ paper.room \in Nat /\ drawnLines = 0
      /\ Ask.h > PageSlack
  BY <1>1, AskingRow DEF Tall, Ask
<1>3. PICK bottom \in Nat : bottom = down + Ask.h /\ bottom >= down /\ bottom > PageSlack
  BY <1>2 DEF PageSlack
<1>4. PICK m : m = MarkOf(next, page, down, bottom, FALSE)
  OBVIOUS
<1>5. /\ marks' = marks \cup {m} /\ down' = bottom /\ repeat' = 0 /\ next' = next + 1
      /\ paper' = paper /\ drawnLines' = drawnLines /\ page' = page
  BY <1>3, <1>4 DEF PrintRow
<1>6. m \in Marks /\ m.page = page /\ m.top = down /\ m.bottom = bottom /\ m.op = "row"
  BY <1>2, <1>3, <1>4 DEF MarkOf, Marks, Asked, Ask
<1>7. bottom <= paper.room \/ down <= PageSlack \/ \E n \in marks : n.page = page /\ n.again
  <2>1. CASE repeat = 0
    BY <1>1, <1>2, <1>3, <2>1 DEF Passes, PageSlack
  <2>2. CASE repeat # 0
    BY <2>2 DEF PdfInv, RowsAreRepeated, PageSlack
  <2> QED
    BY <2>1, <2>2
<1>8. PagesAreSound' /\ PenIsBelow' /\ marks' \subseteq Marks
  <2>1. \/ m.bottom <= paper.room
        \/ m.op = "row" /\ (m.top <= PageSlack \/ m.again \/ \E n \in marks : n.page = m.page /\ n.again)
    BY <1>6, <1>7
  <2> QED
    BY <1>2, <1>3, <1>5, <1>6, <2>1, BoxPdf
<1>9. PdfTypeOK'
  BY <1>2, <1>3, <1>5, <1>8 DEF PdfInv, PdfTypeOK
<1>10. PenIsClear' /\ LinesAreLeft' /\ NothingIsBegun' /\ RowsAreRepeated'
  BY <1>2, <1>3, <1>5 DEF PenIsClear, LinesAreLeft, NothingIsBegun, RowsAreRepeated
<1> QED
  BY <1>8, <1>9, <1>10 DEF PdfInv

-----------------------------------------------------------------------------
\* Every step of the page writer.
LEMMA NextPdf == PdfInv /\ [PdfNext]_pdfVars => PdfInv'
<1>1. PdfInv /\ UNCHANGED pdfVars => PdfInv'
  <2> SUFFICES ASSUME PdfInv, UNCHANGED pdfVars
               PROVE  PdfInv'
    OBVIOUS
  <2>1. Ask' = Ask /\ FirstRow' = FirstRow
    BY DEF pdfVars, Ask, FirstRow
  <2> QED
    BY <2>1 DEF PdfInv, pdfVars, PdfTypeOK, PagesAreSound, Reaches, RowMayPass, Separate, Apart, Beside, PenIsBelow,
                Pending, Passes, PenIsClear, LinesAreLeft, RowsAreRepeated, NothingIsBegun, Asks
<1> QED
  BY <1>1, BeginPdf, GapPdf, KeepPdf, RoomPdf, MarkPdf, CodePdf, TurnPdf, RepeatPdf, RowPdf DEF PdfNext

\* Whatever is printed, on pages of whatever height: nothing reaches below the foot of its page
\* but a row that begins it or follows a repeated header, and nothing is printed over another.
THEOREM SoundPages == PdfSpec => []PagesAreSound
<1>1. PdfInv => PagesAreSound
  BY DEF PdfInv
<1> QED
  BY <1>1, InitPdf, NextPdf, PTL DEF PdfSpec

-----------------------------------------------------------------------------
(* The least and the greatest of some numbers. *)

\* A set of numbers that is not empty has a least member.
LEMMA LeastNatural ==
    ASSUME NEW S \in SUBSET Nat, S # {}
    PROVE  \E x \in S : \A y \in S : x <= y
<1>1. PICK x \in S : \A y \in S : ~(<<y, x>> \in OpToRel(<, Nat))
  BY NatLessThanWellFounded, WFMin
<1>2. \A y \in S : ~(y < x)
  BY <1>1 DEF OpToRel
<1> QED
  BY <1>2

\* A set of numbers with a bound has a greatest member.
LEMMA GreatestIs ==
    ASSUME NEW n \in Nat, NEW S \in SUBSET (0..n), S # {}
    PROVE  Max(S) \in S
<1> DEFINE T == {n - x : x \in S}
<1>1. T \in SUBSET Nat /\ T # {}
  <2>1. \A x \in S : n - x \in Nat
    OBVIOUS
  <2> QED
    BY <2>1
<1>2. PICK y \in T : \A x \in T : y <= x
  <2> HIDE DEF T
  <2> QED
    BY <1>1, LeastNatural
<1>3. PICK m \in S : y = n - m
  BY <1>2
<1>4. \A x \in S : m >= x
  BY <1>2, <1>3
<1> QED
  BY <1>3, <1>4 DEF Max

-----------------------------------------------------------------------------
(* The outline: a panel by its parts, so that each of them can change on its own. *)

\* A finite list, whatever is in it.
IsList(s) == Len(s) \in Nat /\ DOMAIN s = 1..Len(s)

\* The heading an item of a panel stands for.
IndexIn(hs, its, item) ==
    IF item = 0 THEN NoItem
    ELSE IF its[item].index \in 0..Len(hs) - 1 THEN its[item].index ELSE NoItem

\* A panel of these parts.
PanelOf(hs, its, item, index, line) ==
    [headings |-> hs, items |-> its, selected |-> item, selectedIndex |-> index, lastLine |-> line]

\* A panel that lists its headings and knows which is selected.
GoodPanel(p) ==
    \E hs, its, item, index, line :
        /\ p = PanelOf(hs, its, item, index, line)
        /\ IsList(hs) /\ its = ItemsOf(hs) /\ item \in {0} \cup DOMAIN its
        /\ index = IndexIn(hs, its, item)

\* The section of a line is a heading of the list, or none.
LEMMA SectionIsListed ==
    ASSUME NEW hs, IsList(hs), NEW line
    PROVE  FindSectionIndex(hs, line) \in -1..Len(hs) - 1
<1> DEFINE S == {i \in 0..Len(hs) : \A k \in 1..i : hs[k].line <= line}
<1>1. S \in SUBSET (0..Len(hs)) /\ S # {}
  <2>1. 0 \in S
    BY DEF IsList
  <2> QED
    BY <2>1
<1>2. Max(S) \in S
  <2> HIDE DEF S
  <2> QED
    BY <1>1, GreatestIs DEF IsList
<1> QED
  BY <1>2 DEF FindSectionIndex, IsList

\* The item of each heading is the one in its place.
LEMMA ItemsAreHeadings ==
    ASSUME NEW hs, IsList(hs)
    PROVE  /\ DOMAIN ItemsOf(hs) = IF hs = <<>> THEN {1} ELSE 1..Len(hs)
           /\ \A i \in 1..Len(hs) : ItemsOf(hs)[i].index = i - 1
           /\ Len(hs) = 0 => hs = <<>>
<1>1. Len(hs) = 0 => hs = <<>>
  BY DEF IsList
<1> QED
  BY <1>1 DEF ItemsOf, IsList

\* A panel of which one thing changes.
LEMMA PanelWith ==
    ASSUME NEW hs, NEW its, NEW item, NEW index, NEW line, NEW new
    PROVE  /\ [PanelOf(hs, its, item, index, line) EXCEPT !.headings = new] = PanelOf(new, its, item, index, line)
           /\ [PanelOf(hs, its, item, index, line) EXCEPT !.items = new] = PanelOf(hs, new, item, index, line)
           /\ [PanelOf(hs, its, item, index, line) EXCEPT !.selected = new] = PanelOf(hs, its, new, index, line)
           /\ [PanelOf(hs, its, item, index, line) EXCEPT !.selectedIndex = new] = PanelOf(hs, its, item, new, line)
           /\ [PanelOf(hs, its, item, index, line) EXCEPT !.lastLine = new] = PanelOf(hs, its, item, index, new)
           /\ PanelOf(hs, its, item, index, line).headings = hs /\ PanelOf(hs, its, item, index, line).items = its
           /\ PanelOf(hs, its, item, index, line).selected = item
           /\ PanelOf(hs, its, item, index, line).selectedIndex = index
           /\ PanelOf(hs, its, item, index, line).lastLine = line
  BY DEF PanelOf

\* A panel whose items are those of its headings and whose selection is one of them is a good one.
LEMMA PanelIsGood ==
    ASSUME NEW hs, IsList(hs), NEW its, its = ItemsOf(hs), NEW item \in {0} \cup DOMAIN its, NEW index,
           index = IndexIn(hs, its, item), NEW line
    PROVE  GoodPanel(PanelOf(hs, its, item, index, line)) /\ PanelOf(hs, its, item, index, line).headings = hs
<1>1. GoodPanel(PanelOf(hs, its, item, index, line))
  BY Zenon DEF GoodPanel
<1>2. PanelOf(hs, its, item, index, line).headings = hs
  BY DEF PanelOf
<1> QED
  BY <1>1, <1>2

\* Highlighting a line makes the selected item and the selected heading one.
LEMMA HighlightKeeps ==
    ASSUME NEW hs, IsList(hs), NEW its, its = ItemsOf(hs), NEW item, NEW index, NEW last, NEW line,
           \/ index = Unknown
           \/ item \in {0} \cup DOMAIN its /\ index = IndexIn(hs, its, item)
    PROVE  /\ GoodPanel(HighlightLine(PanelOf(hs, its, item, index, last), line))
           /\ HighlightLine(PanelOf(hs, its, item, index, last), line).headings = hs
<1> DEFINE at == FindSectionIndex(hs, line)
<1>1. at \in -1..Len(hs) - 1 /\ Len(hs) \in Nat
  BY SectionIsListed DEF IsList
<1> HIDE DEF at
<1>2. HighlightLine(PanelOf(hs, its, item, index, last), line)
        = IF at = index THEN PanelOf(hs, its, item, index, line)
          ELSE PanelOf(hs, its, IF at >= 0 /\ at < Len(hs) THEN at + 1 ELSE 0, at, line)
  <2> DEFINE seen == PanelOf(hs, its, item, index, line)
  <2>1. [PanelOf(hs, its, item, index, last) EXCEPT !.lastLine = line] = seen
    BY DEF PanelOf
  <2>2. seen.headings = hs /\ seen.selectedIndex = index
    BY DEF PanelOf
  <2>3. ASSUME NEW to
        PROVE  [seen EXCEPT !.selectedIndex = at, !.selected = to] = PanelOf(hs, its, to, at, line)
    <3>1. [seen EXCEPT !.selectedIndex = at] = PanelOf(hs, its, item, at, line)
      BY PanelWith DEF seen
    <3>2. [PanelOf(hs, its, item, at, line) EXCEPT !.selected = to] = PanelOf(hs, its, to, at, line)
      BY PanelWith
    <3> HIDE DEF seen
    <3> QED
      BY <3>1, <3>2
  <2>4. PanelOf(hs, its, item, index, last).headings = hs
    BY DEF PanelOf
  <2> HIDE DEF seen
  <2>5. HighlightLine(PanelOf(hs, its, item, index, last), line) = Highlighted(seen, at)
    BY <2>1, <2>4 DEF HighlightLine, at
  <2>6. Highlighted(seen, at) = IF at = index THEN seen
                                ELSE PanelOf(hs, its, IF at >= 0 /\ at < Len(hs) THEN at + 1 ELSE 0, at, line)
    BY <2>2, <2>3 DEF Highlighted
  <2> QED
    BY <2>5, <2>6 DEF seen
<1>3. CASE at = index
  <2>1. item \in {0} \cup DOMAIN its /\ index = IndexIn(hs, its, item)
    BY <1>1, <1>3 DEF Unknown
  <2>2. HighlightLine(PanelOf(hs, its, item, index, last), line) = PanelOf(hs, its, item, index, line)
    BY <1>2, <1>3
  <2> QED
    BY <2>1, <2>2, PanelIsGood
<1>4. CASE at # index
  <2> DEFINE new == IF at >= 0 /\ at < Len(hs) THEN at + 1 ELSE 0
  <2>1. new \in {0} \cup DOMAIN its /\ at = IndexIn(hs, its, new)
    <3>1. CASE at >= 0
      <4>1. new = at + 1 /\ new \in 1..Len(hs) /\ hs # <<>>
        BY <1>1, <3>1
      <4> QED
        BY <1>1, <4>1, ItemsAreHeadings DEF IndexIn
    <3>2. CASE at = -1
      BY <3>2 DEF IndexIn, NoItem
    <3> QED
      BY <1>1, <3>1, <3>2
  <2> HIDE DEF new
  <2>2. HighlightLine(PanelOf(hs, its, item, index, last), line) = PanelOf(hs, its, new, at, line)
    BY <1>2, <1>4 DEF new
  <2> QED
    BY <2>1, <2>2, PanelIsGood
<1> QED
  BY <1>3, <1>4

\* New headings, whatever was listed: the panel lists them, and the items say what they say.
LEMMA SetHeadingsKeeps ==
    ASSUME NEW p, GoodPanel(p), NEW new, IsList(new)
    PROVE  GoodPanel(SetHeadings(p, new)) /\ SetHeadings(p, new).headings = new
<1>1. PICK hs, its, item, index, line :
        /\ p = PanelOf(hs, its, item, index, line)
        /\ IsList(hs) /\ its = ItemsOf(hs) /\ item \in {0} \cup DOMAIN its
        /\ index = IndexIn(hs, its, item)
  BY DEF GoodPanel
<1>2. p.headings = hs /\ p.items = its /\ p.lastLine = line
  BY <1>1, PanelWith
<1>3. CASE SameShape(p, new)
  <2> DEFINE kept == [i \in DOMAIN its |-> [its[i] EXCEPT !.title = new[i].title]]
  <2>1. hs # <<>> /\ Len(hs) = Len(new) /\ DOMAIN new = 1..Len(hs) /\ DOMAIN hs = 1..Len(hs) /\ Len(hs) \in Nat
    BY <1>1, <1>2, <1>3 DEF SameShape, IsList
  <2>2. \A i \in 1..Len(hs) : new[i].level = hs[i].level
    BY <1>2, <1>3, <2>1 DEF SameShape
  <2>3. new # <<>>
    BY <2>1, ItemsAreHeadings, <1>1
  <2>4. \A i \in 1..Len(hs) : ParentOf(new, i) = ParentOf(hs, i)
    <3>1. ASSUME NEW i \in 1..Len(hs)
          PROVE  {k \in 1..i - 1 : new[k].level < new[i].level /\ \A m \in k + 1..i - 1 : new[m].level >= new[i].level}
                 = {k \in 1..i - 1 : hs[k].level < hs[i].level /\ \A m \in k + 1..i - 1 : hs[m].level >= hs[i].level}
      BY <2>1, <2>2
    <3> QED
      BY <3>1 DEF ParentOf
  <2>5. its = [i \in 1..Len(hs) |-> [title |-> hs[i].title, parent |-> ParentOf(hs, i), index |-> i - 1]]
    BY <1>1, <2>1 DEF ItemsOf
  <2>6. kept = ItemsOf(new)
    <3>1. ItemsOf(new) = [i \in 1..Len(hs) |-> [title |-> new[i].title, parent |-> ParentOf(new, i), index |-> i - 1]]
      BY <2>1, <2>3 DEF ItemsOf
    <3>2. \A i \in 1..Len(hs) : [its[i] EXCEPT !.title = new[i].title]
             = [title |-> new[i].title, parent |-> ParentOf(new, i), index |-> i - 1]
      BY <2>4, <2>5
    <3> QED
      BY <2>5, <3>1, <3>2
  <2>7. SetHeadings(p, new) = HighlightLine(PanelOf(new, kept, item, Unknown, line), line)
    <3>1. [p EXCEPT !.items = kept] = PanelOf(hs, kept, item, index, line)
      BY <1>1, PanelWith
    <3>2. [PanelOf(hs, kept, item, index, line) EXCEPT !.headings = new] = PanelOf(new, kept, item, index, line)
      BY PanelWith
    <3>3. [PanelOf(new, kept, item, index, line) EXCEPT !.selectedIndex = Unknown] = PanelOf(new, kept, item, Unknown, line)
      BY PanelWith
    <3>4. SetHeadings(p, new) = HighlightLine([p EXCEPT !.items = kept, !.headings = new, !.selectedIndex = Unknown], line)
      BY <1>2, <1>3 DEF SetHeadings, Retitled
    <3> HIDE DEF kept
    <3> QED
      BY <3>1, <3>2, <3>3, <3>4
  <2> HIDE DEF kept
  <2> QED
    BY <2>6, <2>7, HighlightKeeps
<1>4. CASE ~SameShape(p, new) /\ new = <<>> /\ hs = <<>>
  <2>1. SetHeadings(p, new) = p
    BY <1>2, <1>4 DEF SetHeadings
  <2> QED
    BY <1>2, <1>4, <2>1
<1>5. CASE ~SameShape(p, new) /\ ~(new = <<>> /\ hs = <<>>)
  <2>1. [p EXCEPT !.headings = new] = PanelOf(new, its, item, index, line)
    BY <1>1, PanelWith
  <2>2. SetHeadings(p, new) = Rebuild(PanelOf(new, its, item, index, line))
    BY <1>2, <1>5, <2>1 DEF SetHeadings
  <2>3. Rebuild(PanelOf(new, its, item, index, line)) = HighlightLine(PanelOf(new, ItemsOf(new), 0, Unknown, line), line)
    <3> DEFINE q == PanelOf(new, its, item, index, line)
    <3>1. q.headings = new /\ q.lastLine = line
      BY PanelWith
    <3>2. [q EXCEPT !.items = ItemsOf(new)] = PanelOf(new, ItemsOf(new), item, index, line)
      BY PanelWith
    <3>3. [PanelOf(new, ItemsOf(new), item, index, line) EXCEPT !.selected = 0] = PanelOf(new, ItemsOf(new), 0, index, line)
      BY PanelWith
    <3>4. [PanelOf(new, ItemsOf(new), 0, index, line) EXCEPT !.selectedIndex = Unknown] = PanelOf(new, ItemsOf(new), 0, Unknown, line)
      BY PanelWith
    <3> HIDE DEF q
    <3>5. Rebuild(q) = HighlightLine([q EXCEPT !.items = ItemsOf(new), !.selected = 0, !.selectedIndex = Unknown], line)
      BY <3>1 DEF Rebuild
    <3> QED
      BY <3>2, <3>3, <3>4, <3>5 DEF q
  <2> QED
    BY <2>2, <2>3, HighlightKeeps
<1> QED
  BY <1>3, <1>4, <1>5

\* The lesser of two numbers is a number.
LEMMA PairIsNatural ==
    ASSUME NEW m \in Nat, NEW n \in Nat
    PROVE  Min({m, n}) \in Nat
  BY LeastNatural DEF Min

\* What is counted up is a list.
LEMMA CountedIsList ==
    ASSUME NEW n \in Nat, NEW f, f = [k \in 1..n |-> f[k]]
    PROVE  IsList(f)
<1>1. f \in Seq({f[k] : k \in 1..n})
  OBVIOUS
<1> QED
  BY <1>1 DEF IsList

\* The headings of a document are a list.
LEMMA HeadingsAreList ==
    ASSUME NEW d, d.text \in Docs
    PROVE  IsList(CollectHeadings(d))
<1> DEFINE tree == TreeOf(d)
           tops == {i \in DOMAIN tree : tree[i].parent = 1 /\ tree[i].type = "Heading"}
           nth(k) == CHOOSE i \in tops : Cardinality({j \in tops : j <= i}) = k
           heading(block) == [line |-> block.start, level |-> block.level, title |-> Title(ExtractPlainText(block.spans))]
           n == Min({MaxItems, Cardinality(tops)})
<1>1. DOMAIN tree = DOMAIN Trees[d.text]
  BY DEF TreeOf, Flipped
<1>2. tops \in SUBSET DOMAIN tree /\ IsFiniteSet(DOMAIN tree)
  <2>1. DOMAIN tree = 1..Len(Trees[d.text]) /\ Len(Trees[d.text]) \in Nat
    BY <1>1, TreesAssumption DEF IsText
  <2> QED
    BY <2>1, FS_Interval
<1>3. Cardinality(tops) \in Nat
  <2> HIDE DEF tops, tree
  <2> QED
    BY <1>2, FS_Subset, FS_CardinalityType
<1>4. n \in Nat
  <2> HIDE DEF tops, tree
  <2> QED
    BY <1>3, PairIsNatural, PreviewAssumption
<1>5. CollectHeadings(d) = [k \in 1..n |-> heading(tree[nth(k)])]
  BY DEF CollectHeadings, HeadingsOf
<1> HIDE DEF n, heading, nth, tree
<1>6. CollectHeadings(d) = [k \in 1..n |-> CollectHeadings(d)[k]]
  BY <1>5
<1> QED
  BY <1>4, <1>6, CountedIsList

-----------------------------------------------------------------------------
(* The texts, the trees and the panel. *)

\* A tree is of a text there was; the last one that comes is of the text there is, unless an
\* edit waits for its parse.
TextsInv ==
    /\ doc = [text |-> doc.text, flips |-> doc.flips]
    /\ parsing \in Seq(Range(parsing))
    /\ \A d \in {doc, shown} \cup Range(parsing) : d.text \in Docs
    /\ ~reparsePosted => doc = IF parsing = <<>> THEN shown ELSE parsing[Len(parsing)]

\* The panel lists the headings there were when it was last set, which are those that are shown
\* while it is visible; the control has those items, and one of them is selected, or none.
OutlineInv ==
    /\ IsList(headings) /\ items = ItemsOf(headings)
    /\ selected \in {0} \cup DOMAIN items /\ selectedIndex = ItemIndex(selected)
    /\ showOutline => headings = CollectHeadings(shown)

\* In terms of the panel as a whole.
LEMMA OutlineIsPanel ==
    /\ OutlineInv => GoodPanel(Panel) /\ Panel.headings = headings
    /\ \A p : GoodPanel(p) /\ PanelBecomes(p) /\ (showOutline' => p.headings = CollectHeadings(shown')) => OutlineInv'
    /\ \A p : GoodPanel(p) /\ PanelIs(p) /\ (showOutline => p.headings = CollectHeadings(shown)) => OutlineInv
<1>1. Panel = PanelOf(headings, items, selected, selectedIndex, lastLine)
  BY DEF Panel, PanelOf
<1>2. ItemIndex(selected) = IndexIn(headings, items, selected)
  BY DEF ItemIndex, IndexIn
<1>3. OutlineInv => GoodPanel(Panel) /\ Panel.headings = headings
  BY <1>1, <1>2, PanelIsGood DEF OutlineInv
<1>4. ASSUME NEW p, GoodPanel(p), PanelBecomes(p), showOutline' => p.headings = CollectHeadings(shown')
      PROVE  OutlineInv'
  <2>1. PICK hs, its, item, index, line :
          /\ p = PanelOf(hs, its, item, index, line)
          /\ IsList(hs) /\ its = ItemsOf(hs) /\ item \in {0} \cup DOMAIN its
          /\ index = IndexIn(hs, its, item)
    BY <1>4 DEF GoodPanel
  <2>2. headings' = hs /\ items' = its /\ selected' = item /\ selectedIndex' = index
    BY <1>4, <2>1, PanelWith DEF PanelBecomes
  <2>3. ItemIndex(selected)' = index
    BY <2>1, <2>2 DEF ItemIndex, IndexIn
  <2>4. showOutline' => headings' = CollectHeadings(shown')
    BY <1>4, <2>1, <2>2, PanelWith
  <2> QED
    BY <2>1, <2>2, <2>3, <2>4 DEF OutlineInv
<1>5. ASSUME NEW p, GoodPanel(p), PanelIs(p), showOutline => p.headings = CollectHeadings(shown)
      PROVE  OutlineInv
  <2>1. PICK hs, its, item, index, line :
          /\ p = PanelOf(hs, its, item, index, line)
          /\ IsList(hs) /\ its = ItemsOf(hs) /\ item \in {0} \cup DOMAIN its
          /\ index = IndexIn(hs, its, item)
    BY <1>5 DEF GoodPanel
  <2>2. headings = hs /\ items = its /\ selected = item /\ selectedIndex = index
    BY <1>5, <2>1, PanelWith DEF PanelIs
  <2>3. ItemIndex(selected) = index
    BY <2>1, <2>2 DEF ItemIndex, IndexIn
  <2>4. showOutline => headings = CollectHeadings(shown)
    BY <1>5, <2>1, <2>2, PanelWith
  <2> QED
    BY <2>1, <2>2, <2>3, <2>4 DEF OutlineInv
<1> QED
  BY <1>3, <1>4, <1>5

\* The inductive invariant of the preview.
PreviewInv == TextsInv /\ OutlineInv /\ CopiedIsShown

\* A caret on another line leaves a good panel good and its headings alone.
LEMMA HighlightGood ==
    ASSUME NEW p, GoodPanel(p), NEW line
    PROVE  GoodPanel(HighlightLine(p, line)) /\ HighlightLine(p, line).headings = p.headings
<1>1. PICK hs, its, item, index, last :
        /\ p = PanelOf(hs, its, item, index, last)
        /\ IsList(hs) /\ its = ItemsOf(hs) /\ item \in {0} \cup DOMAIN its
        /\ index = IndexIn(hs, its, item)
  BY DEF GoodPanel
<1>2. p.headings = hs
  BY <1>1, PanelWith
<1> QED
  BY <1>1, <1>2, HighlightKeeps

\* The panel is made for the text the window opens with.
LEMMA InitPreview == Init => PreviewInv
<1> SUFFICES ASSUME Init
             PROVE  PreviewInv
  OBVIOUS
<1>1. TextsInv
  <2>1. PICK d \in Docs : doc = [text |-> d, flips |-> {}]
    BY DEF Init
  <2>2. parsing = <<>> /\ shown = doc
    BY DEF Init
  <2> QED
    BY <2>1, <2>2 DEF TextsInv, Range
<1>2. OutlineInv
  <2>1. GoodPanel(NewPanel)
    <3>1. IsList(<<>>)
      BY DEF IsList
    <3>2. NewPanel = PanelOf(<<>>, ItemsOf(<<>>), 0, NoItem, 0)
      BY DEF NewPanel, PanelOf
    <3>3. NoItem = IndexIn(<<>>, ItemsOf(<<>>), 0)
      BY DEF IndexIn
    <3> QED
      BY <3>1, <3>2, <3>3, PanelIsGood
  <2>2. IsList(CollectHeadings(doc)) /\ shown = doc
    BY <1>1, HeadingsAreList DEF TextsInv, Init
  <2> DEFINE p == HighlightLine(SetHeadings(NewPanel, CollectHeadings(doc)), 1)
  <2>3. GoodPanel(p) /\ p.headings = CollectHeadings(shown)
    BY <2>1, <2>2, SetHeadingsKeeps, HighlightGood
  <2> HIDE DEF p
  <2>4. PanelIs(IF showOutline THEN p ELSE NewPanel)
    BY DEF Init, p
  <2> QED
    BY <2>1, <2>3, <2>4, OutlineIsPanel
<1>3. CopiedIsShown
  BY DEF Init, CopiedIsShown
<1> QED
  BY <1>1, <1>2, <1>3 DEF PreviewInv

-----------------------------------------------------------------------------
(* The steps. *)

\* A text that is typed, or a task that is toggled in it, waits for its parse.
LEMMA EditKeepsTexts ==
    ASSUME TextsInv, doc' = [text |-> doc'.text, flips |-> doc'.flips], doc'.text \in Docs, reparsePosted' = TRUE,
           UNCHANGED <<parsing, shown>>
    PROVE  TextsInv'
  BY DEF TextsInv

\* What leaves the texts and the panel alone.
LEMMA NothingKept ==
    ASSUME PreviewInv, UNCHANGED <<docVars, showOutline, headings, items, selected, selectedIndex>>, CopiedIsShown'
    PROVE  PreviewInv'
<1>1. TextsInv'
  BY DEF PreviewInv, TextsInv, docVars
<1>2. ItemIndex(selected)' = ItemIndex(selected)
  BY DEF ItemIndex
<1>3. OutlineInv'
  BY <1>2 DEF PreviewInv, OutlineInv, docVars
<1> QED
  BY <1>1, <1>3 DEF PreviewInv

\* What leaves the panel, its headings and the tree alone.
LEMMA OutlineIsStill ==
    ASSUME OutlineInv, UNCHANGED <<showOutline, shown, headings, items, selected, selectedIndex>>
    PROVE  OutlineInv'
<1>1. ItemIndex(selected)' = ItemIndex(selected)
  BY DEF ItemIndex
<1> QED
  BY <1>1 DEF OutlineInv

\* A text that is typed waits for its parse, and the panel for its tree.
LEMMA TypeKeeps == ASSUME PreviewInv, NEW text \in Played, Type(text) PROVE PreviewInv'
<1>1. TextsInv'
  BY PreviewAssumption, EditKeepsTexts DEF PreviewInv, Type
<1>2. OutlineInv'
  BY OutlineIsStill DEF PreviewInv, Type, outlineVars
<1>3. CopiedIsShown'
  BY DEF PreviewInv, Type, CopiedIsShown
<1> QED
  BY <1>1, <1>2, <1>3 DEF PreviewInv

\* A sequence is one of the things that are in it.
LEMMA SeqOfItsOwn ==
    ASSUME NEW S, NEW s \in Seq(S)
    PROVE  s \in Seq(Range(s)) /\ Range(s) \subseteq S
  BY DEF Range

\* The text of the editor is now the last one on its way.
LEMMA ReparseKeeps == ASSUME PreviewInv, HandleReparse PROVE PreviewInv'
<1>1. TextsInv'
  <2>1. parsing' = Append(parsing, doc) /\ doc' = doc /\ shown' = shown
    BY DEF HandleReparse
  <2> DEFINE S == Range(parsing) \cup {doc}
  <2>2. parsing \in Seq(S) /\ parsing' \in Seq(S) /\ Len(parsing') = Len(parsing) + 1 /\ parsing'[Len(parsing')] = doc
    BY <2>1 DEF PreviewInv, TextsInv
  <2>3. parsing' \in Seq(Range(parsing')) /\ Range(parsing') \subseteq S
    BY <2>2 DEF Range
  <2>4. parsing' # <<>>
    BY <2>2
  <2> QED
    BY <2>1, <2>2, <2>3, <2>4 DEF PreviewInv, TextsInv
<1>2. OutlineInv'
  BY OutlineIsStill DEF PreviewInv, HandleReparse, outlineVars
<1>3. CopiedIsShown'
  BY DEF PreviewInv, HandleReparse, CopiedIsShown
<1> QED
  BY <1>1, <1>2, <1>3 DEF PreviewInv

\* A tree arrives: the panel lists its headings, and the trees before it never come.
LEMMA TreeKeeps == ASSUME PreviewInv, NEW k \in DOMAIN parsing, TreeArrives(k) PROVE PreviewInv'
<1>1. /\ shown' = parsing[k] /\ parsing' = SubSeq(parsing, k + 1, Len(parsing))
      /\ doc' = doc /\ reparsePosted' = reparsePosted /\ showOutline' = showOutline /\ clip' = clip
  BY DEF TreeArrives
<1>2. k \in 1..Len(parsing) /\ Len(parsing) \in Nat /\ parsing[k] \in Range(parsing) /\ parsing[k].text \in Docs
  BY DEF PreviewInv, TextsInv, Range
<1>3. TextsInv'
  <2> DEFINE S == Range(parsing)
  <2>1. /\ parsing' \in Seq(S) /\ Len(parsing') = Len(parsing) - k
        /\ \A i \in 1..(Len(parsing) - k) : parsing'[i] = parsing[k + i]
    BY <1>1, <1>2 DEF PreviewInv, TextsInv
  <2> HIDE DEF S
  <2>2. parsing' \in Seq(Range(parsing')) /\ Range(parsing') \subseteq S
    BY <2>1, SeqOfItsOwn
  <2> USE DEF S
  <2>3. parsing # <<>>
    BY <1>2
  <2>4. (IF parsing' = <<>> THEN shown' ELSE parsing'[Len(parsing')]) = parsing[Len(parsing)]
    <3>1. CASE k = Len(parsing)
      <4>1. parsing' = <<>>
        BY <2>1, <3>1, <1>2
      <4> QED
        BY <4>1, <3>1, <1>1
    <3>2. CASE k # Len(parsing)
      <4> DEFINE n == Len(parsing)
      <4>n. n \in Nat /\ k \in 1..n /\ k # n
        BY <3>2, <1>2
      <4> HIDE DEF n
      <4>1. n - k \in 1..(n - k) /\ k + (n - k) = n
        BY <4>n
      <4> USE DEF n
      <4>2. parsing' # <<>>
        BY <2>1, <4>1
      <4> QED
        BY <2>1, <4>1, <4>2
    <3> QED
      BY <3>1, <3>2
  <2> QED
    BY <1>1, <1>2, <2>2, <2>3, <2>4 DEF PreviewInv, TextsInv
<1>4. OutlineInv'
  <2> DEFINE p == HighlightLine(SetHeadings(Panel, CollectHeadings(parsing[k])), CaretLine(doc, edit))
  <2>1. GoodPanel(Panel) /\ IsList(CollectHeadings(parsing[k]))
    BY <1>2, OutlineIsPanel, HeadingsAreList DEF PreviewInv
  <2>2. GoodPanel(p) /\ p.headings = CollectHeadings(shown')
    BY <1>1, <2>1, SetHeadingsKeeps, HighlightGood
  <2> HIDE DEF p
  <2>3. IF showOutline THEN PanelBecomes(p) ELSE PanelBecomes(Panel)
    BY DEF TreeArrives, p
  <2> QED
    BY <1>1, <2>1, <2>2, <2>3, OutlineIsPanel
<1>5. CopiedIsShown'
  BY <1>1 DEF PreviewInv, CopiedIsShown
<1> QED
  BY <1>3, <1>4, <1>5 DEF PreviewInv

\* A checkbox changes the document only while the tree is the document's, and waits for the parse.
LEMMA ReleaseKeeps == ASSUME PreviewInv, NEW p, Release(p) PROVE PreviewInv'
<1>1. UNCHANGED <<parsing, shown, showOutline, clip, outlineVars>>
  BY DEF Release
<1>2. ToggleTask(sel.task) \/ UNCHANGED <<doc, reparsePosted>>
  BY DEF Release
<1>3. TextsInv'
  <2>1. CASE UNCHANGED <<doc, reparsePosted>>
    BY <1>1, <2>1 DEF PreviewInv, TextsInv
  <2>2. CASE ToggleTask(sel.task) /\ Current
    <3>1. PICK flipped : doc' = [doc EXCEPT !.flips = flipped] /\ reparsePosted' = TRUE
      BY <2>2 DEF ToggleTask
    <3>2. doc' = [text |-> doc.text, flips |-> flipped]
      BY <3>1 DEF PreviewInv, TextsInv
    <3>3. doc'.text \in Docs
      BY <3>2 DEF PreviewInv, TextsInv
    <3> QED
      BY <1>1, <3>1, <3>2, <3>3, EditKeepsTexts DEF PreviewInv
  <2>3. CASE ToggleTask(sel.task) /\ ~Current
    BY <1>1, <2>1, <2>3 DEF ToggleTask
  <2> QED
    BY <1>2, <2>1, <2>2, <2>3
<1>4. OutlineInv'
  BY <1>1, OutlineIsStill DEF PreviewInv, outlineVars
<1>5. CopiedIsShown'
  BY <1>1 DEF PreviewInv, CopiedIsShown
<1> QED
  BY <1>3, <1>4, <1>5 DEF PreviewInv

\* The tree is of the text while nothing is on its way.
LEMMA CurrentIsShown == TextsInv /\ Current => doc = shown
  BY DEF TextsInv, Current

\* The source is cut out of the document only while the tree is the document's: it is what is shown.
LEMMA CopyMarkdownKeeps == ASSUME PreviewInv, CopyMarkdown PROVE PreviewInv'
<1>1. UNCHANGED <<docVars, showOutline, headings, items, selected, selectedIndex>>
  BY DEF CopyMarkdown, outlineVars
<1>2. CopiedIsShown'
  <2> DEFINE selection == GetSourceSelection(layout, sel.anchor, sel.focus)
             of(d) == Slice(Source(d.text), SourceRange(Source(d.text), selection, selection.wholeLines))
  <2>1. clip' = IF SourceTrusted /\ of(doc) # <<>> THEN [text |-> of(doc), meant |-> of(shown)] ELSE clip
    BY DEF CopyMarkdown, CopySourceMarkdown
  <2>2. SourceTrusted => of(doc) = of(shown)
    BY CurrentIsShown DEF SourceTrusted, PreviewInv
  <2> HIDE DEF of
  <2> QED
    BY <2>1, <2>2 DEF PreviewInv, CopiedIsShown
<1> QED
  BY <1>1, <1>2, NothingKept

\* The text that is selected is what is shown.
LEMMA CopySelectionKeeps == ASSUME PreviewInv, CopySelection PROVE PreviewInv'
<1>1. UNCHANGED <<docVars, showOutline, headings, items, selected, selectedIndex>>
  BY DEF CopySelection, outlineVars
<1>2. CopiedIsShown'
  <2> DEFINE text == GetSelectedText(layout, sel.anchor, sel.focus)
  <2>1. clip' = IF text # <<>> THEN [text |-> text, meant |-> text] ELSE clip
    BY DEF CopySelection
  <2> HIDE DEF text
  <2> QED
    BY <2>1 DEF PreviewInv, CopiedIsShown
<1> QED
  BY <1>1, <1>2, NothingKept

\* The texts and the clipboard are left alone.
LEMMA PanelStep ==
    ASSUME PreviewInv, UNCHANGED <<docVars, clip>>, OutlineInv'
    PROVE  PreviewInv'
  BY DEF PreviewInv, TextsInv, docVars, CopiedIsShown

\* The caret has moved: the panel highlights its section.
LEMMA UpdateUiKeeps == ASSUME PreviewInv, UpdateUi PROVE PreviewInv'
<1> DEFINE p == IF showOutline THEN HighlightLine(Panel, CaretLine(doc, edit)) ELSE Panel
<1>1. PanelBecomes(p) /\ UNCHANGED <<docVars, clip, showOutline>>
  BY DEF UpdateUi
<1>2. GoodPanel(p) /\ p.headings = headings
  BY OutlineIsPanel, HighlightGood DEF PreviewInv
<1> HIDE DEF p
<1>3. OutlineInv'
  BY <1>1, <1>2, OutlineIsPanel DEF PreviewInv, OutlineInv, docVars
<1> QED
  BY <1>1, <1>3, PanelStep

\* A panel that is shown again lists the headings of the tree there is by now.
LEMMA VisibleKeeps == ASSUME PreviewInv, SetOutlineVisible PROVE PreviewInv'
<1> DEFINE p == IF showOutline THEN Panel ELSE HighlightLine(SetHeadings(Panel, CollectHeadings(shown)), CaretLine(doc, edit))
<1>1. PanelBecomes(p) /\ UNCHANGED <<docVars, clip>> /\ showOutline' = ~showOutline
  BY DEF SetOutlineVisible
<1>2. GoodPanel(Panel) /\ IsList(CollectHeadings(shown))
  BY OutlineIsPanel, HeadingsAreList DEF PreviewInv, TextsInv
<1>3. GoodPanel(p) /\ (~showOutline => p.headings = CollectHeadings(shown))
  BY <1>2, SetHeadingsKeeps, HighlightGood
<1> HIDE DEF p
<1>4. OutlineInv'
  BY <1>1, <1>3, OutlineIsPanel DEF docVars
<1> QED
  BY <1>1, <1>4, PanelStep

\* The control selects an item of its own.
LEMMA SelectKeeps ==
    ASSUME PreviewInv, NEW item \in DOMAIN items, SelectItem(item), UNCHANGED <<docVars, clip, showOutline>>
    PROVE  PreviewInv'
<1>1. ItemIndex(selected)' = ItemIndex(item)
  BY DEF SelectItem, ItemIndex
<1>2. OutlineInv'
  BY <1>1 DEF PreviewInv, OutlineInv, SelectItem, docVars
<1> QED
  BY <1>2, PanelStep

\* The mouse, the keys, the width and the caret change neither.
LEMMA StillKeeps ==
    ASSUME PreviewInv, UNCHANGED <<docVars, showOutline, clip, headings, items, selected, selectedIndex>>
    PROVE  PreviewInv'
  BY NothingKept DEF PreviewInv, CopiedIsShown

\* Every step keeps the texts, the panel and the clipboard.
LEMMA NextPreview == PreviewInv /\ [Next]_<<vars, pdfVars>> => PreviewInv'
<1> SUFFICES ASSUME PreviewInv, [Next]_<<vars, pdfVars>>
             PROVE  PreviewInv'
  OBVIOUS
<1>1. ASSUME NEW text \in Played, Type(text)
      PROVE  PreviewInv'
  BY <1>1, TypeKeeps
<1>2. CASE HandleReparse
  BY <1>2, ReparseKeeps
<1>3. ASSUME NEW k \in DOMAIN parsing, TreeArrives(k)
      PROVE  PreviewInv'
  BY <1>3, TreeKeeps
<1>4. ASSUME NEW w \in Widths, Resize(w)
      PROVE  PreviewInv'
  BY <1>4, StillKeeps DEF Resize, outlineVars
<1>5. ASSUME NEW p, NEW shift, NEW soon, Press(p, shift, soon)
      PROVE  PreviewInv'
  BY <1>5, StillKeeps DEF Press, MouseOnly, outlineVars
<1>6. ASSUME NEW p, PressCtrl(p) \/ EditHere(p)
      PROVE  PreviewInv'
  BY <1>6, StillKeeps DEF PressCtrl, EditHere, outlineVars
<1>7. ASSUME NEW p, DoublePress(p) \/ Move(p)
      PROVE  PreviewInv'
  BY <1>7, StillKeeps DEF DoublePress, Move, MouseOnly, outlineVars
<1>8. ASSUME NEW p, Release(p)
      PROVE  PreviewInv'
  BY <1>8, ReleaseKeeps
<1>9. CASE CaptureLost \/ SelectAll \/ ClearSelection
  BY <1>9, StillKeeps DEF CaptureLost, SelectAll, ClearSelection, MouseOnly, outlineVars
<1>10. CASE CopySelection \/ CopyMarkdown
  BY <1>10, CopySelectionKeeps, CopyMarkdownKeeps
<1>11. ASSUME NEW wholeWord, NEW forward, FindNext(wholeWord, forward)
       PROVE  PreviewInv'
  BY <1>11, StillKeeps DEF FindNext, outlineVars
<1>12. ASSUME NEW line, MoveCaret(line)
       PROVE  PreviewInv'
  BY <1>12, StillKeeps DEF MoveCaret, outlineVars
<1>13. CASE UpdateUi
  BY <1>13, UpdateUiKeeps
<1>14. ASSUME NEW item \in DOMAIN items, ClickItem(item) \/ KeyToItem(item) \/ CollapseItem(item)
       PROVE  PreviewInv'
  BY <1>14, SelectKeeps DEF ClickItem, KeyToItem, CollapseItem, PanelOnly
<1>15. CASE HandlePosted \/ ShowOutlinePopup
  BY <1>15, StillKeeps DEF HandlePosted, ShowOutlinePopup, outlineVars
<1>16. CASE SetOutlineVisible
  BY <1>16, VisibleKeeps
<1>17. CASE UNCHANGED vars
  BY <1>17, StillKeeps DEF vars, outlineVars
<1> QED
  BY <1>1, <1>2, <1>3, <1>4, <1>5, <1>6, <1>7, <1>8, <1>9, <1>10, <1>11, <1>12, <1>13, <1>14, <1>15, <1>16, <1>17
     DEF Next, ExportPdf, Writing

\* A visible outline lists the headings of the tree that is shown, each item under its own parent,
\* and the heading the panel takes for selected is the one its control has selected -- whatever
\* was typed, whichever trees were left out, and however often the panel was hidden in between.
THEOREM OutlineFollows == Spec => []OutlineInStep
<1>1. PreviewInv => OutlineInStep
  BY DEF PreviewInv, OutlineInv, OutlineInStep
<1> QED
  BY <1>1, InitPreview, NextPreview, PTL DEF Spec

\* What is copied is the source of what was shown, although it is cut out of the editor's text:
\* SourceTrusted lets it be cut only while no edit waits for its tree.
THEOREM CopiesWhatIsShown == Spec => []CopiedIsShown
<1>1. PreviewInv => CopiedIsShown
  BY DEF PreviewInv
<1> QED
  BY <1>1, InitPreview, NextPreview, PTL DEF Spec

-----------------------------------------------------------------------------
(* The window prints as the page writer does. *)

\* A step of the window is a step of the page writer, or leaves it alone.
LEMMA WindowPrints == [Next]_<<vars, pdfVars>> => [PdfNext]_pdfVars
  BY DEF Next, Bounded, ExportPdf, PdfNext

\* Printing from the window does what the page writer's own specification says.
THEOREM PreviewPrints == Spec => PdfSpec
<1>1. Init => PdfInit
  BY DEF Init
<1> QED
  BY <1>1, WindowPrints, PTL DEF Spec, PdfSpec

\* Whatever is printed from the window, its pages are sound.
THEOREM PrintedPagesAreSound == Spec => []PagesAreSound
  BY PreviewPrints, SoundPages, PTL

-----------------------------------------------------------------------------
(* Texts and letters. *)

\* A text has a length, and places from 1 on.
LEMMA TextIs ==
    ASSUME NEW text, IsText(text)
    PROVE  Len(text) \in Nat /\ DOMAIN text = 1..Len(text)
  BY DEF IsText

\* An offset of a text that is between two letters.
AtLetter(text, offset) ==
    offset \in 0..Len(text) /\ (offset \in 1..Len(text) - 1 => text[offset] # "F0")

\* The ends of a text are between letters.
LEMMA EndsAtLetter ==
    ASSUME NEW text, IsText(text)
    PROVE  AtLetter(text, 0) /\ AtLetter(text, Len(text))
  BY TextIs DEF AtLetter

\* Both sides of a unit that does not go on with the second half of a letter are.
LEMMA BesideLetter ==
    ASSUME NEW text, IsText(text), WholeLetters(text), NEW i \in 1..Len(text)
    PROVE  /\ text[i] # "9F" => AtLetter(text, i - 1)
           /\ text[i] # "F0" => AtLetter(text, i)
           /\ text[i] = "F0" => i + 1 \in 1..Len(text) /\ AtLetter(text, i + 1)
           /\ text[i] = "9F" => i - 1 \in 1..Len(text) /\ text[i - 1] = "F0"
<1>1. Len(text) \in Nat /\ DOMAIN text = 1..Len(text)
  BY TextIs
<1> DEFINE n == Len(text)
<1> HIDE DEF n
<1>2. n \in Nat /\ i \in 1..n /\ DOMAIN text = 1..n
  BY <1>1 DEF n
<1>3. text[i] # "9F" => i - 1 \in 0..n /\ (i - 1 \in 1..n - 1 => text[i - 1] # "F0")
  <2>1. ASSUME i - 1 \in 1..n - 1, text[i - 1] = "F0"
        PROVE  text[i] = "9F"
    <3>1. i - 1 \in DOMAIN text /\ (i - 1) + 1 = i
      BY <1>2, <2>1
    <3> QED
      BY <2>1, <3>1 DEF WholeLetters
  <2> QED
    BY <1>2, <2>1
<1>4. text[i] = "F0" => i + 1 \in 1..n /\ text[i + 1] = "9F"
  BY <1>2 DEF WholeLetters
<1>5. text[i] = "9F" => i - 1 \in 1..n /\ text[i - 1] = "F0"
  BY <1>2 DEF WholeLetters
<1> QED
  BY <1>2, <1>3, <1>4, <1>5 DEF AtLetter, n

\* A set of some of the numbers from 1 to n has a least and a greatest of its own.
LEMMA EndsAreIn ==
    ASSUME NEW n \in Nat, NEW S \in SUBSET (0..n), S # {}
    PROVE  /\ Max(S) \in S /\ \A x \in S : Max(S) >= x
           /\ Min(S) \in S /\ \A x \in S : Min(S) <= x
<1>1. Max(S) \in S
  BY GreatestIs
<1>2. \E x \in S : \A y \in S : x <= y
  BY LeastNatural
<1>3. Min(S) \in S /\ \A x \in S : Min(S) <= x
  BY <1>2 DEF Min
<1>4. \A x \in S : Max(S) >= x
  <2>1. \E x \in S : \A y \in S : x >= y
    <3> DEFINE T == {n - x : x \in S}
    <3>1. T \in SUBSET Nat /\ T # {}
      BY \A x \in S : n - x \in Nat
    <3>2. PICK y \in T : \A x \in T : y <= x
      <4> HIDE DEF T
      <4> QED
        BY <3>1, LeastNatural
    <3>3. PICK m \in S : y = n - m
      BY <3>2
    <3>4. \A x \in S : m >= x
      BY <3>2, <3>3
    <3> QED
      BY <3>4
  <2> QED
    BY <2>1 DEF Max
<1> QED
  BY <1>1, <1>3, <1>4

\* A hit in a text: where its letter begins, and the side of it the point is on.
GoodHit(text, hit) == AtLetter(text, Min({Edge(hit), Len(text)})) /\ Min({hit.pos, Len(text)}) \in 0..Len(text)

\* The lesser of two numbers, as the folds and the sets of the model take it.
LEMMA LesserOfTwo ==
    ASSUME NEW m \in Int, NEW n \in Int
    PROVE  Min({m, n}) = IF m <= n THEN m ELSE n
<1>1. \E x \in {m, n} : \A y \in {m, n} : x <= y
  BY m <= n \/ n <= m
<1>2. Min({m, n}) \in {m, n} /\ \A y \in {m, n} : Min({m, n}) <= y
  BY <1>1 DEF Min
<1> QED
  BY <1>2

\* ... and the greater.
LEMMA GreaterOfTwo ==
    ASSUME NEW m \in Int, NEW n \in Int
    PROVE  Max({m, n}) = IF m >= n THEN m ELSE n
<1>1. \E x \in {m, n} : \A y \in {m, n} : x >= y
  BY m <= n \/ n <= m
<1>2. Max({m, n}) \in {m, n} /\ \A y \in {m, n} : Max({m, n}) >= y
  BY <1>1 DEF Max
<1> QED
  BY <1>2

\* The letter at a unit of the text.
LEMMA CharacterIsHit ==
    ASSUME NEW text, IsText(text), WholeLetters(text), NEW i \in 1..Len(text), NEW places, NEW at, NEW inText
    PROVE  GoodHit(text, CharacterAt(text, places, WholeCharacter(text, i), at, inText))
<1> DEFINE j == WholeCharacter(text, i)
           len == IF text[j] = "F0" THEN 2 ELSE 1
           hit == CharacterAt(text, places, j, at, inText)
           n == Len(text)
<1>1. j \in 1..n /\ text[j] # "9F"
  BY BesideLetter, TextIs DEF WholeCharacter
<1> HIDE DEF j
<1>2. hit.pos = j - 1 /\ hit.len = len
  BY DEF CharacterAt
<1>3. Edge(hit) = j - 1 \/ Edge(hit) = j - 1 + len
  <2> HIDE DEF hit, len
  <2>1. Edge(hit) = (j - 1) + (IF hit.trailing THEN len ELSE 0)
    BY <1>2 DEF Edge
  <2>2. len \in Nat
    BY DEF len
  <2> QED
    BY <1>1, <2>1, <2>2
<1>4. AtLetter(text, j - 1) /\ AtLetter(text, j - 1 + len)
  <2>1. AtLetter(text, j - 1)
    BY <1>1, BesideLetter
  <2>2. CASE text[j] = "F0"
    <3>1. AtLetter(text, j + 1) /\ j - 1 + len = j + 1
      BY <1>1, <2>2, BesideLetter
    <3> QED
      BY <2>1, <3>1
  <2>3. CASE text[j] # "F0"
    <3>1. AtLetter(text, j) /\ j - 1 + len = j
      BY <1>1, <2>3, BesideLetter
    <3> QED
      BY <2>1, <3>1
  <2> QED
    BY <2>2, <2>3
<1> HIDE DEF hit, len
<1>5. n \in Nat
  BY TextIs
<1>6. Edge(hit) \in 0..n /\ AtLetter(text, Edge(hit))
  BY <1>3, <1>4 DEF AtLetter
<1> HIDE DEF n
<1>7. Min({Edge(hit), n}) = Edge(hit)
  BY <1>5, <1>6, LesserOfTwo
<1>8. Min({hit.pos, n}) = j - 1
  BY <1>1, <1>2, <1>5, LesserOfTwo
<1> QED
  BY <1>1, <1>5, <1>6, <1>7, <1>8 DEF GoodHit, hit, n, j

\* Wherever a text is pointed at, letters stay whole.
LEMMA PointIsHit ==
    ASSUME NEW view, IsView(view), NEW x, NEW y
    PROVE  GoodHit(view.text, HitTestPoint(view, x, y))
<1> DEFINE text == view.text
           places == Places(view.text, view.width)
<1> HIDE DEF text, places
<1>1. IsText(text) /\ WholeLetters(text) /\ Len(text) \in Nat /\ DOMAIN text = 1..Len(text)
  BY TextIs DEF IsView, text
<1>2. ASSUME NEW here \in SUBSET DOMAIN text, NEW at, NEW inText
      PROVE  GoodHit(text, HitTestRow(text, places, here, at, inText))
  <2>1. CASE here = {}
    <3> DEFINE hit == [pos |-> Len(text), len |-> 0, trailing |-> FALSE, inside |-> FALSE]
    <3>1. HitTestRow(text, places, here, at, inText) = hit
      BY <2>1 DEF HitTestRow
    <3>2. Edge(hit) = Len(text) /\ hit.pos = Len(text)
      BY <1>1 DEF Edge
    <3>3. Min({Len(text), Len(text)}) = Len(text)
      BY <1>1, LesserOfTwo
    <3> HIDE DEF hit
    <3> QED
      BY <1>1, <3>1, <3>2, <3>3, EndsAtLetter DEF GoodHit
  <2>2. CASE here # {}
    <3> DEFINE i == InRow(places, here, at)
               S == {Min(here)} \cup {k \in here : places[k].col * CharWidth <= at}
    <3>1. here \in SUBSET (0..Len(text))
      BY <1>1
    <3>2. Min(here) \in here
      BY <1>1, <2>2, <3>1, EndsAreIn
    <3>3. S \in SUBSET (0..Len(text)) /\ S # {} /\ S \subseteq here
      BY <3>1, <3>2
    <3>4. i \in here
      <4> HIDE DEF S
      <4>1. Max(S) \in S
        BY <1>1, <3>3, EndsAreIn
      <4> QED
        BY <3>3, <4>1 DEF InRow, S
    <3>5. i \in 1..Len(text)
      BY <1>1, <3>4
    <3> HIDE DEF i
    <3>6. HitTestRow(text, places, here, at, inText) = CharacterAt(text, places, WholeCharacter(text, i), at, inText)
      BY <2>2 DEF HitTestRow, i
    <3> QED
      BY <1>1, <3>5, <3>6, CharacterIsHit
  <2> QED
    BY <2>1, <2>2
<1>3. ASSUME NEW at, NEW deep
      PROVE  GoodHit(text, HitTestPlaces(text, places, at, deep))
  <2> DEFINE row == Max({0, Min({Last(places).row, deep \div LineHeight})})
             here == {i \in DOMAIN text : places[i].row = row}
             inText == deep >= 0 /\ deep < LineHeight * (Last(places).row + 1)
  <2>1. HitTestPlaces(text, places, at, deep) = HitTestRow(text, places, here, at, inText)
    BY DEF HitTestPlaces
  <2>2. here \in SUBSET DOMAIN text
    OBVIOUS
  <2> HIDE DEF here, inText
  <2> QED
    BY <1>2, <2>1, <2>2
<1> QED
  BY <1>3 DEF HitTestPoint, text, places

\* Between two letters of different kinds, or at an end of the text.
WordEdge(text, offset) == offset \in 1..Len(text) - 1 => ClassOf(text[offset]) # ClassOf(text[offset + 1])

\* The halves of a letter are of one kind.
LEMMA WordEdgeIsAtLetter ==
    ASSUME NEW text, IsText(text), WholeLetters(text), NEW offset \in 0..Len(text), WordEdge(text, offset)
    PROVE  AtLetter(text, offset)
<1>1. Len(text) \in Nat /\ DOMAIN text = 1..Len(text)
  BY TextIs
<1>2. ASSUME offset \in 1..Len(text) - 1, text[offset] = "F0"
      PROVE  FALSE
  <2>1. text[offset + 1] = "9F"
    BY <1>1, <1>2 DEF WholeLetters
  <2>2. ClassOf("F0") = "Word" /\ ClassOf("9F") = "Word"
    BY DEF ClassOf
  <2> QED
    BY <1>2, <2>1, <2>2 DEF WordEdge
<1> QED
  BY <1>2 DEF AtLetter

\* The word around a place of a text: it has ends between words, and is not empty unless the text is.
LEMMA WordIs ==
    ASSUME NEW text, IsText(text), WholeLetters(text), NEW index \in 0..Len(text)
    PROVE  \E from, to \in 0..Len(text) :
              /\ WordBounds(text, index) = <<from, to>> /\ from <= to
              /\ WordEdge(text, from) /\ WordEdge(text, to) /\ AtLetter(text, from) /\ AtLetter(text, to)
<1> DEFINE n == Len(text)
<1>1. n \in Nat /\ DOMAIN text = 1..n
  BY TextIs
<1>2. CASE text = <<>>
  <2>1. WordBounds(text, index) = <<0, 0>>
    BY <1>2 DEF WordBounds
  <2>2. WordEdge(text, 0) /\ AtLetter(text, 0)
    BY EndsAtLetter, <1>1 DEF WordEdge
  <2> QED
    BY <1>1, <2>1, <2>2
<1>3. CASE text # <<>>
  <2>1. n # 0
    BY <1>3 DEF IsText
  <2> DEFINE i == Min({index, n - 1}) + 1
             same(a, b) == \A k \in a..b : ClassOf(text[k]) = ClassOf(text[i])
             A == {a \in 1..i : same(a, i)}
             B == {b \in i..n : same(i, b)}
  <2>2. WordBounds(text, index) = <<Min(A) - 1, Max(B)>>
    BY <1>3 DEF WordBounds
  <2>3. i \in 1..n
    <3> HIDE DEF n
    <3>1. Min({index, n - 1}) = IF index <= n - 1 THEN index ELSE n - 1
      BY <1>1, <2>1, LesserOfTwo
    <3> QED
      BY <1>1, <2>1, <3>1 DEF n
  <2> HIDE DEF i, n
  <2>4. i \in A /\ i \in B /\ A \subseteq 0..n /\ B \subseteq 0..n
    BY <1>1, <2>3
  <2>5. A # {} /\ B # {}
    BY <2>4
  <2>6. Min(A) \in A /\ (\A a \in A : Min(A) <= a) /\ Max(B) \in B /\ (\A b \in B : Max(B) >= b)
    <3> HIDE DEF A, B
    <3> QED
      BY <1>1, <2>4, <2>5, EndsAreIn
  <2> DEFINE a == Min(A)
             b == Max(B)
  <2>7. a \in 1..i /\ b \in i..n /\ same(a, i) /\ same(i, b)
    BY <2>6
  <2>8. a - 1 \notin A /\ b + 1 \notin B
    <3>1. a \in Nat /\ b \in Nat
      BY <1>1, <2>3, <2>7
    <3> HIDE DEF A, B
    <3> QED
      BY <2>6, <3>1
  <2> HIDE DEF a, b
  <2>9. WordEdge(text, a - 1)
    <3>1. ASSUME a - 1 \in 1..n - 1, ClassOf(text[a - 1]) = ClassOf(text[a])
          PROVE  FALSE
      <4>1. a - 1 \in 1..i /\ \A k \in a - 1..i : k = a - 1 \/ k \in a..i
        BY <1>1, <2>3, <2>7, <3>1
      <4>2. ClassOf(text[a]) = ClassOf(text[i])
        BY <1>1, <2>3, <2>7
      <4>3. a - 1 \in A
        BY <2>7, <3>1, <4>1, <4>2
      <4> QED
        BY <2>8, <4>3
    <3>2. (a - 1) + 1 = a
      BY <1>1, <2>3, <2>7
    <3> QED
      BY <3>1, <3>2 DEF WordEdge, n
  <2>10. WordEdge(text, b)
    <3>1. ASSUME b \in 1..n - 1, ClassOf(text[b]) = ClassOf(text[b + 1])
          PROVE  FALSE
      <4>1. b + 1 \in i..n /\ \A k \in i..b + 1 : k = b + 1 \/ k \in i..b
        BY <1>1, <2>3, <2>7, <3>1
      <4>2. ClassOf(text[b]) = ClassOf(text[i])
        BY <1>1, <2>3, <2>7
      <4>3. b + 1 \in B
        BY <2>7, <3>1, <4>1, <4>2
      <4> QED
        BY <2>8, <4>3
    <3> QED
      BY <3>1 DEF WordEdge, n
  <2>11. a - 1 \in 0..n /\ b \in 0..n /\ a - 1 <= b
    BY <1>1, <2>3, <2>7
  <2>12. AtLetter(text, a - 1) /\ AtLetter(text, b)
    BY <2>9, <2>10, <2>11, WordEdgeIsAtLetter DEF n
  <2> QED
    BY <2>2, <2>9, <2>10, <2>11, <2>12 DEF a, b, n
<1> QED
  BY <1>2, <1>3

-----------------------------------------------------------------------------
(* Positions of a layout. *)

\* A place of a text of the layout, or the beginning.
GoodPosition(lay, p) ==
    p = Origin \/ (p.unit \in DOMAIN lay.units /\ AtLetter(TextOf(lay, p.unit), p.offset))

\* The texts of a layout.
LEMMA UnitsAre ==
    ASSUME NEW lay, IsLayout(lay)
    PROVE  /\ Len(lay.units) \in Nat /\ DOMAIN lay.units = 1..Len(lay.units)
           /\ lay.units # <<>> => Len(lay.units) # 0
           /\ \A u \in DOMAIN lay.units :
                 IsView(ViewOf(lay, u)) /\ ViewOf(lay, u).text = TextOf(lay, u)
                 /\ IsText(TextOf(lay, u)) /\ WholeLetters(TextOf(lay, u)) /\ Len(TextOf(lay, u)) \in Nat
<1>1. IsText(lay.units) /\ \A u \in DOMAIN lay.units : IsView(ViewOf(lay, u))
  BY DEF IsLayout
<1>2. \A u \in DOMAIN lay.units : ViewOf(lay, u).text = TextOf(lay, u)
  BY DEF TextOf
<1>3. lay.units # <<>> => Len(lay.units) # 0
  BY <1>1 DEF IsText
<1> QED
  BY <1>1, <1>2, <1>3, TextIs DEF IsView

\* A position has a unit and an offset, so that two can be compared.
LEMMA PositionIs ==
    ASSUME NEW lay, IsLayout(lay), NEW p, GoodPosition(lay, p)
    PROVE  p.unit \in Nat /\ p.offset \in Nat
  BY UnitsAre DEF GoodPosition, Origin, Pos, AtLetter

\* A place in a text of the layout is one of its positions.
LEMMA PlaceIsPosition ==
    ASSUME NEW lay, NEW u \in DOMAIN lay.units, NEW offset, AtLetter(TextOf(lay, u), offset)
    PROVE  GoodPosition(lay, Pos(u, offset)) /\ Pos(u, offset).unit = u /\ Pos(u, offset).offset = offset
  BY DEF GoodPosition, Pos

\* Some of the units are nearest.
LEMMA NearestIs ==
    ASSUME NEW us, us # {}, NEW gap, \A u \in us : gap[u] \in Nat
    PROVE  {u \in us : \A v \in us : gap[u] <= gap[v]} # {}
<1> DEFINE S == {gap[u] : u \in us}
<1>1. S \in SUBSET Nat /\ S # {}
  OBVIOUS
<1>2. PICK g \in S : \A h \in S : g <= h
  <2> HIDE DEF S
  <2> QED
    BY <1>1, LeastNatural
<1>3. PICK u \in us : g = gap[u]
  OBVIOUS
<1>4. \A v \in us : gap[u] <= gap[v]
  BY <1>2, <1>3
<1> QED
  BY <1>4

\* How far a point is from an interval.
LEMMA GapIs ==
    ASSUME NEW from \in Int, NEW to \in Int, NEW v \in Int
    PROVE  Gap(from, to, v) \in Nat
  BY DEF Gap

\* There is a text nearest to any point.
LEMMA NearestUnitIs ==
    ASSUME NEW lay, IsLayout(lay), lay.units # <<>>, NEW x \in Int, NEW y \in Int
    PROVE  NearestUnit(lay, x, y) \in DOMAIN lay.units
<1> DEFINE us == DOMAIN lay.units
           area == [u \in us |-> ViewOf(lay, u).area]
           nearest(vs, gap) == {u \in vs : \A v \in vs : gap[u] <= gap[v]}
           deep == [u \in us |-> Gap(area[u].top, area[u].bottom, y)]
           across == [u \in us |-> Gap(area[u].left, area[u].right, x)]
           level == nearest(us, deep)
<1>1. us # {} /\ us = 1..Len(lay.units) /\ Len(lay.units) \in Nat
  <2>1. Len(lay.units) \in Nat /\ Len(lay.units) # 0 /\ us = 1..Len(lay.units)
    BY UnitsAre
  <2>2. 1 \in 1..Len(lay.units)
    BY <2>1
  <2> QED
    BY <2>1, <2>2
<1>2. \A u \in us : IsArea(area[u])
  BY UnitsAre DEF IsView
<1>3. \A u \in us : deep[u] \in Nat /\ across[u] \in Nat
  BY <1>2, GapIs DEF IsArea
<1>4. NearestUnit(lay, x, y) = Min(nearest(level, across))
  BY DEF NearestUnit
<1> HIDE DEF us, deep, across, area
<1>5. level # {} /\ level \subseteq us
  <2>1. {u \in us : \A v \in us : deep[u] <= deep[v]} # {}
    <3>1. us # {} /\ \A u \in us : deep[u] \in Nat
      BY <1>1, <1>3
    <3> QED
      BY <3>1, NearestIs
  <2> QED
    BY <2>1
<1> HIDE DEF level
<1>6. nearest(level, across) # {} /\ nearest(level, across) \subseteq us
  <2>1. {u \in level : \A v \in level : across[u] <= across[v]} # {}
    BY <1>3, <1>5, NearestIs
  <2> QED
    BY <1>5, <2>1
<1>7. nearest(level, across) \in SUBSET (0..Len(lay.units))
  BY <1>1, <1>6
<1> HIDE DEF nearest
<1>8. Min(nearest(level, across)) \in nearest(level, across)
  BY <1>1, <1>6, <1>7, EndsAreIn
<1> QED
  BY <1>4, <1>6, <1>8 DEF us

\* A point of the layout is in a unit, beside a letter of it.
LEMMA HitIs ==
    ASSUME NEW lay, IsLayout(lay), lay.units # <<>>, NEW x \in Int, NEW y \in Int
    PROVE  \E u \in DOMAIN lay.units :
              /\ HitTestUnit(lay, x, y).unit = u /\ HitTestUnit(lay, x, y).text = TextOf(lay, u)
              /\ AtLetter(TextOf(lay, u), HitTestUnit(lay, x, y).caret)
              /\ HitTestUnit(lay, x, y).character \in 0..Len(TextOf(lay, u))
<1> DEFINE u == NearestUnit(lay, x, y)
           view == ViewOf(lay, u)
           hit == HitTestPoint(view, x, y)
<1>1. u \in DOMAIN lay.units
  BY NearestUnitIs
<1> HIDE DEF u
<1>2. IsView(view) /\ view.text = TextOf(lay, u)
  BY <1>1, UnitsAre
<1>3. GoodHit(view.text, hit)
  <2> HIDE DEF view
  <2> QED
    BY <1>2, PointIsHit
<1>4. HitTestUnit(lay, x, y) = HitInUnit(u, view, hit)
  BY DEF HitTestUnit, HitUnit, HitView, u
<1> HIDE DEF view, hit
<1> QED
  BY <1>1, <1>2, <1>3, <1>4 DEF HitInUnit, GoodHit

\* The position of a point.
LEMMA PointIsPosition ==
    ASSUME NEW lay, IsLayout(lay), NEW x \in Int, NEW y \in Int
    PROVE  GoodPosition(lay, HitTestTextPosition(lay, x, y))
<1>1. CASE lay.units = <<>>
  BY <1>1 DEF HitTestTextPosition, GoodPosition
<1>2. CASE lay.units # <<>>
  <2> DEFINE hit == HitTestUnit(lay, x, y)
  <2>1. hit.unit \in DOMAIN lay.units /\ AtLetter(TextOf(lay, hit.unit), hit.caret)
    BY <1>2, HitIs
  <2>2. HitTestTextPosition(lay, x, y) = Pos(hit.unit, hit.caret)
    BY <1>2 DEF HitTestTextPosition
  <2> HIDE DEF hit
  <2> QED
    BY <2>1, <2>2, PlaceIsPosition
<1> QED
  BY <1>1, <1>2

\* A range from one position to another that is not before it.
GoodRange(lay, range) ==
    /\ range = <<range[1], range[2]>>
    /\ GoodPosition(lay, range[1]) /\ GoodPosition(lay, range[2]) /\ ~Before(range[2], range[1])

\* A position between two words.
AtWord(lay, p) == WordEdge(TextOf(lay, p.unit), p.offset)

\* Two positions of a unit are a range.
LEMMA UnitRange ==
    ASSUME NEW lay, IsLayout(lay), NEW u \in DOMAIN lay.units, NEW from \in Nat, NEW to \in Nat, from <= to,
           AtLetter(TextOf(lay, u), from), AtLetter(TextOf(lay, u), to)
    PROVE  GoodRange(lay, <<Pos(u, from), Pos(u, to)>>)
<1>1. GoodPosition(lay, Pos(u, from)) /\ GoodPosition(lay, Pos(u, to))
  BY PlaceIsPosition
<1>2. u \in Nat
  BY UnitsAre
<1>3. ~Before(Pos(u, to), Pos(u, from))
  BY <1>2 DEF Before, Pos
<1> QED
  BY <1>1, <1>3 DEF GoodRange

\* No range at all, before there is any text.
LEMMA OriginIs ==
    ASSUME NEW lay
    PROVE  GoodPosition(lay, Origin) /\ GoodRange(lay, <<Origin, Origin>>)
  BY DEF GoodPosition, GoodRange, Before, Origin, Pos

\* A double click finds a word, from one of its ends to the other.
LEMMA WordAtIs ==
    ASSUME NEW lay, IsLayout(lay), NEW x \in Int, NEW y \in Int
    PROVE  /\ GoodRange(lay, WordAt(lay, x, y))
           /\ lay.units # <<>> => AtWord(lay, WordAt(lay, x, y)[1]) /\ AtWord(lay, WordAt(lay, x, y)[2])
<1>1. CASE lay.units = <<>>
  BY <1>1, OriginIs DEF WordAt
<1>2. CASE lay.units # <<>>
  <2>1. PICK u \in DOMAIN lay.units :
           /\ HitTestUnit(lay, x, y).unit = u /\ HitTestUnit(lay, x, y).text = TextOf(lay, u)
           /\ HitTestUnit(lay, x, y).character \in 0..Len(TextOf(lay, u))
    BY <1>2, HitIs
  <2> DEFINE text == TextOf(lay, u)
             word == WordBounds(text, HitTestUnit(lay, x, y).character)
  <2>2. WordAt(lay, x, y) = <<Pos(u, word[1]), Pos(u, word[2])>>
    BY <1>2, <2>1 DEF WordAt
  <2>3. IsText(text) /\ WholeLetters(text) /\ Len(text) \in Nat
    BY UnitsAre
  <2>4. PICK from \in 0..Len(text), to \in 0..Len(text) :
              /\ word = <<from, to>> /\ from <= to
              /\ WordEdge(text, from) /\ WordEdge(text, to) /\ AtLetter(text, from) /\ AtLetter(text, to)
    <3> HIDE DEF text
    <3> QED
      BY <2>1, <2>3, WordIs DEF text
  <2> HIDE DEF word
  <2>5. WordAt(lay, x, y) = <<Pos(u, from), Pos(u, to)>>
    BY <2>2, <2>4
  <2>6. from \in Nat /\ to \in Nat
    BY <2>3
  <2>7. GoodRange(lay, <<Pos(u, from), Pos(u, to)>>)
    BY <2>4, <2>6, UnitRange
  <2>8. AtWord(lay, Pos(u, from)) /\ AtWord(lay, Pos(u, to))
    BY <2>4 DEF AtWord, Pos
  <2> QED
    BY <2>5, <2>7, <2>8
<1> QED
  BY <1>1, <1>2

\* A triple click finds a whole text.
LEMMA UnitAtIs ==
    ASSUME NEW lay, IsLayout(lay), NEW x \in Int, NEW y \in Int
    PROVE  GoodRange(lay, UnitAt(lay, x, y))
<1>1. CASE lay.units = <<>>
  BY <1>1, OriginIs DEF UnitAt
<1>2. CASE lay.units # <<>>
  <2>1. PICK u \in DOMAIN lay.units : HitTestUnit(lay, x, y).unit = u
    BY <1>2, HitIs
  <2> DEFINE text == TextOf(lay, u)
  <2>2. UnitAt(lay, x, y) = <<Pos(u, 0), Pos(u, Len(text))>>
    BY <1>2, <2>1 DEF UnitAt
  <2>3. IsText(text) /\ Len(text) \in Nat
    BY UnitsAre
  <2>4. AtLetter(text, 0) /\ AtLetter(text, Len(text))
    <3> HIDE DEF text
    <3> QED
      BY <2>3, EndsAtLetter
  <2> QED
    BY <2>2, <2>3, <2>4, UnitRange
<1> QED
  BY <1>1, <1>2

\* The document ends at a place of its last text, if it has any.
LEMMA DocumentEndIs ==
    ASSUME NEW lay, IsLayout(lay)
    PROVE  GoodPosition(lay, DocumentEnd(lay))
<1>1. CASE lay.units = <<>>
  BY <1>1, OriginIs DEF DocumentEnd
<1>2. CASE lay.units # <<>>
  <2> DEFINE u == Len(lay.units)
             text == TextOf(lay, u)
  <2>1. u \in DOMAIN lay.units
    BY <1>2, UnitsAre
  <2>2. DocumentEnd(lay) = Pos(u, Len(text))
    BY <1>2 DEF DocumentEnd
  <2>3. IsText(text) /\ Len(text) \in Nat
    BY <2>1, UnitsAre
  <2>4. AtLetter(text, Len(text))
    <3> HIDE DEF text
    <3> QED
      BY <2>3, EndsAtLetter
  <2> HIDE DEF u
  <2> QED
    BY <2>1, <2>2, <2>4, PlaceIsPosition
<1> QED
  BY <1>1, <1>2

-----------------------------------------------------------------------------
(* Searching. *)

\* A match begins and ends between letters, since the needle is whole letters.
LEMMA MatchIsWhole ==
    ASSUME NEW text, IsText(text), WholeLetters(text), NEW needle, IsText(needle), WholeLetters(needle), needle # <<>>,
           NEW i \in Nat, NEW wholeWord, MatchesAt(text, i, needle, wholeWord)
    PROVE  /\ AtLetter(text, i) /\ AtLetter(text, i + Len(needle)) /\ i <= i + Len(needle) /\ i + Len(needle) \in Nat
<1> DEFINE n == Len(needle)
           m == Len(text)
<1>1. n \in Nat /\ m \in Nat /\ n # 0 /\ DOMAIN text = 1..m /\ DOMAIN needle = 1..n
  BY TextIs DEF IsText
<1>2. i + n <= m /\ SubSeq(text, i + 1, i + n) = needle
  BY DEF MatchesAt
<1>3. \A k \in 1..n : needle[k] = text[i + k]
  <2>1. text \in Seq(Range(text)) /\ Len(text) = m
    BY DEF IsText
  <2> HIDE DEF n, m
  <2>2. \A k \in 1..n : SubSeq(text, i + 1, i + n)[k] = text[i + k]
    BY <1>1, <1>2, <2>1
  <2> QED
    BY <1>2, <2>2
<1> HIDE DEF n, m
<1>4. AtLetter(text, i)
  <2>1. i \in 0..m
    BY <1>1, <1>2
  <2>2. ASSUME i \in 1..m - 1, text[i] = "F0"
        PROVE  FALSE
    <3>1. text[i + 1] = "9F"
      <4>1. i \in DOMAIN text
        BY <1>1, <2>2
      <4> QED
        BY <2>2, <4>1 DEF WholeLetters
    <3>2. needle[1] = "9F" /\ 1 \in DOMAIN needle
      BY <1>1, <1>3, <3>1
    <3>3. 0 \in DOMAIN needle
      BY <3>2 DEF WholeLetters
    <3> QED
      BY <1>1, <3>3
  <2> QED
    BY <2>1, <2>2 DEF AtLetter, m
<1>5. AtLetter(text, i + n)
  <2>1. i + n \in 0..m
    BY <1>1, <1>2
  <2>2. text[i + n] # "F0"
    <3>1. needle[n] = text[i + n] /\ n \in DOMAIN needle
      BY <1>1, <1>3
    <3>2. needle[n] = "F0" => n + 1 \in DOMAIN needle
      BY <3>1 DEF WholeLetters
    <3> QED
      BY <1>1, <3>1, <3>2
  <2> QED
    BY <2>1, <2>2 DEF AtLetter, m
<1> QED
  BY <1>1, <1>4, <1>5 DEF n

\* A match: some letters of one unit.
GoodMatch(lay, match) ==
    /\ GoodRange(lay, match) /\ match[1].unit \in DOMAIN lay.units
    /\ match[1].offset \in 0..Len(TextOf(lay, match[1].unit)) /\ match[2].offset \in 1..Len(TextOf(lay, match[1].unit))

\* The first or the last match of a window is in its unit.
LEMMA MatchInIs ==
    ASSUME NEW lay, IsLayout(lay), NEW u \in DOMAIN lay.units, NEW from \in Int, NEW to \in Int,
           NEW wholeWord, NEW forward, Needle # <<>>,
           MatchIn(TextOf(lay, u), Needle, wholeWord, forward, [unit |-> u, from |-> Max({0, from}), to |-> to]) # <<>>
    PROVE  GoodMatch(lay, MatchIn(TextOf(lay, u), Needle, wholeWord, forward, [unit |-> u, from |-> Max({0, from}), to |-> to]))
<1> DEFINE text == TextOf(lay, u)
           n == Len(Needle)
           low == Max({0, from})
           window == [unit |-> u, from |-> low, to |-> to]
           found == {i \in low..to : MatchesAt(text, i, Needle, wholeWord)}
           at(i) == <<Pos(u, i), Pos(u, i + n)>>
<1>1. MatchIn(text, Needle, wholeWord, forward, window)
        = IF found = {} THEN <<>> ELSE at(IF forward THEN Min(found) ELSE Max(found))
  BY DEF MatchIn
<1>2. low \in Nat
  BY GreaterOfTwo
<1>3. IsText(text) /\ WholeLetters(text) /\ Len(text) \in Nat /\ IsText(Needle) /\ WholeLetters(Needle) /\ n \in Nat
  BY UnitsAre, NeedleAssumption, TextIs
<1> HIDE DEF low, text
<1>4. found # {}
  BY <1>1 DEF low, text
<1>5. \A i \in found : i \in Nat /\ i <= i + n /\ i + n \in Nat /\ AtLetter(text, i) /\ AtLetter(text, i + n)
  <2>1. ASSUME NEW i \in found
        PROVE  i \in Nat /\ MatchesAt(text, i, Needle, wholeWord)
    BY <1>2
  <2> HIDE DEF found
  <2> QED
    BY <1>3, <2>1, MatchIsWhole DEF n
<1> HIDE DEF found
<1>6. found \in SUBSET (0..Len(text))
  BY <1>3, <1>5 DEF AtLetter
<1>7. PICK i \in found : i = IF forward THEN Min(found) ELSE Max(found)
  BY <1>3, <1>4, <1>6, EndsAreIn
<1>8. MatchIn(text, Needle, wholeWord, forward, window) = at(i)
  BY <1>1, <1>4, <1>7
<1>9. GoodMatch(lay, at(i))
  <2>1. n # 0
    BY <1>3 DEF IsText
  <2> HIDE DEF n
  <2>2. GoodRange(lay, at(i))
    BY <1>5, UnitRange DEF text
  <2>3. i \in Nat /\ i \in 0..Len(text) /\ i + n \in 1..Len(text)
    BY <1>3, <1>5, <2>1 DEF AtLetter
  <2> QED
    BY <2>2, <2>3 DEF GoodMatch, Pos, text
<1> QED
  BY <1>8, <1>9 DEF low, text

\* What is left of a number over another is less than that.
LEMMA RemainderIs ==
    ASSUME NEW m \in Int, NEW n \in Nat \ {0}
    PROVE  m % n \in 0..n - 1
  OBVIOUS

\* The units are gone round.
LEMMA AroundIs ==
    ASSUME NEW count \in Nat \ {0}, NEW unit \in Nat, NEW forward, NEW step \in Nat
    PROVE  UnitAround(count, unit, forward, step) \in 1..count
<1> DEFINE a == (unit - 1 + step) % count
           b == (unit - 1 + count - (step % count)) % count
<1>1. a \in 0..count - 1
  BY RemainderIs, unit - 1 + step \in Int
<1>2. b \in 0..count - 1
  <2>1. step % count \in 0..count - 1
    BY RemainderIs
  <2> DEFINE r == step % count
             c == unit - 1 + count - r
  <2>2. c \in Int
    <3> HIDE DEF r
    <3> QED
      BY <2>1 DEF r
  <2> HIDE DEF c
  <2>3. c % count \in 0..count - 1
    BY <2>2, RemainderIs
  <2> QED
    BY <2>3 DEF c
<1> HIDE DEF a, b
<1>3. UnitAround(count, unit, forward, step) = (IF forward THEN a ELSE b) + 1
  BY DEF UnitAround, a, b
<1> QED
  BY <1>1, <1>2, <1>3

\* What the search finds is a match.
LEMMA FoundIs ==
    ASSUME NEW lay, IsLayout(lay), NEW start, GoodPosition(lay, start), NEW wholeWord, NEW forward \in BOOLEAN,
           FindText(lay, Needle, start, wholeWord, forward) # <<>>
    PROVE  GoodMatch(lay, FindText(lay, Needle, start, wholeWord, forward))
<1> DEFINE count == Len(lay.units)
           unit(step) == UnitAround(count, start.unit, forward, step)
           match(step, u, text) ==
             MatchIn(text, Needle, wholeWord, forward, WindowIn(count, u, Len(text), start, Len(Needle), forward, step))
           there(step, u) == match(step, u, TextOf(lay, u))
           found == {step \in 0..count : there(step, unit(step)) # <<>>}
<1>1. FindText(lay, Needle, start, wholeWord, forward)
        = IF Needle = <<>> \/ lay.units = <<>> \/ found = {} THEN <<>> ELSE there(Min(found), unit(Min(found)))
  BY DEF FindText
<1>2. Needle # <<>> /\ lay.units # <<>> /\ found # {}
  BY <1>1
<1>3. count \in Nat \ {0} /\ DOMAIN lay.units = 1..count /\ Len(Needle) \in Nat
  BY <1>2, UnitsAre, NeedleAssumption, TextIs
<1>4. start.unit \in Nat /\ start.offset \in Nat
  BY PositionIs
<1> HIDE DEF there, count
<1>5. PICK step \in found : step = Min(found)
  <2>1. found \in SUBSET (0..count)
    OBVIOUS
  <2> HIDE DEF found
  <2> QED
    BY <1>2, <1>3, <2>1, EndsAreIn
<1>6. step \in 0..count /\ there(step, unit(step)) # <<>>
  OBVIOUS
<1> DEFINE u == unit(step)
<1>7. u \in DOMAIN lay.units
  BY <1>3, <1>4, <1>6, AroundIs
<1> HIDE DEF found, unit, u
<1>8. FindText(lay, Needle, start, wholeWord, forward) = there(step, u) /\ there(step, u) # <<>>
  BY <1>1, <1>2, <1>5, <1>6 DEF u
<1> DEFINE size == Len(TextOf(lay, u))
           n == Len(Needle)
           limit == size - n
           low == IF forward THEN IF step = 0 THEN start.offset ELSE 0
                  ELSE IF step = count THEN start.offset - n + 1 ELSE 0
           high == IF forward THEN IF step = count THEN Min({start.offset - 1, limit}) ELSE limit
                   ELSE IF step = 0 THEN Min({limit, start.offset - n}) ELSE limit
<1>9. WindowIn(count, u, size, start, n, forward, step) = [unit |-> u, from |-> Max({0, low}), to |-> high]
  BY DEF WindowIn
<1>10. size \in Nat
  BY <1>7, UnitsAre
<1> HIDE DEF size, n
<1>11. low \in Int /\ high \in Int
  <2>1. n \in Nat /\ limit \in Int /\ start.offset - 1 \in Int /\ start.offset - n \in Int
    BY <1>3, <1>4, <1>10 DEF n
  <2> HIDE DEF limit
  <2>2. Min({start.offset - 1, limit}) \in Int /\ Min({limit, start.offset - n}) \in Int
    BY <2>1, LesserOfTwo
  <2> QED
    BY <1>4, <2>1, <2>2
<1> HIDE DEF low, high
<1>12. there(step, u) = MatchIn(TextOf(lay, u), Needle, wholeWord, forward, [unit |-> u, from |-> Max({0, low}), to |-> high])
  BY <1>9 DEF there, size, n
<1> QED
  BY <1>2, <1>7, <1>8, <1>11, <1>12, MatchInIs

-----------------------------------------------------------------------------
(* Links. *)

\* The address of the layout's links, or none.
GoodLink(lay, url) ==
    url # NoUrl => \E u \in DOMAIN lay.units : \E l \in DOMAIN ViewOf(lay, u).links : ViewOf(lay, u).links[l].url = url

\* The link under a point is one of the layout's.
LEMMA LinkIs ==
    ASSUME NEW lay, IsLayout(lay), NEW x, NEW y
    PROVE  GoodLink(lay, HitTestLink(lay, x, y))
<1> DEFINE within(view, places) == {l \in DOMAIN view.links : InLink(view, places, view.links[l], x, y)}
           linksIn(view) == within(view, Places(view.text, view.width))
           there == {u \in DOMAIN lay.units : linksIn(ViewOf(lay, u)) # {}}
           first(view) == view.links[Min(linksIn(view))].url
<1>1. HitTestLink(lay, x, y) = IF there = {} THEN NoUrl ELSE first(ViewOf(lay, Min(there)))
  BY DEF HitTestLink
<1>2. CASE there = {}
  BY <1>1, <1>2 DEF GoodLink
<1>3. CASE there # {}
  <2>1. PICK u \in there : u = Min(there)
    <3>1. there \in SUBSET (0..Len(lay.units)) /\ Len(lay.units) \in Nat
      BY UnitsAre
    <3> HIDE DEF there
    <3> QED
      BY <1>3, <3>1, EndsAreIn
  <2> DEFINE view == ViewOf(lay, u)
             S == linksIn(view)
  <2>2. u \in DOMAIN lay.units /\ S # {} /\ S \subseteq DOMAIN view.links
    OBVIOUS
  <2>3. IsText(view.links)
    BY <2>2, UnitsAre DEF IsView
  <2> HIDE DEF there, linksIn
  <2>4. PICK l \in S : l = Min(S)
    <3>1. S \in SUBSET (0..Len(view.links)) /\ Len(view.links) \in Nat
      BY <2>2, <2>3, TextIs
    <3> HIDE DEF S
    <3> QED
      BY <2>2, <3>1, EndsAreIn
  <2>5. HitTestLink(lay, x, y) = view.links[l].url
    BY <1>1, <1>3, <2>1, <2>4
  <2>6. l \in DOMAIN view.links
    BY <2>2
  <2> HIDE DEF S
  <2> QED
    BY <2>2, <2>5, <2>6 DEF GoodLink
<1> QED
  BY <1>2, <1>3

-----------------------------------------------------------------------------
(* Scrolling. *)

\* A place in the document is the nearest place in the document to itself.
LEMMA ClampedIs ==
    ASSUME NEW lay, lay.total \in Int, NEW y \in Int
    PROVE  Clamped(lay, y) \in Nat /\ Clamped(lay, Clamped(lay, y)) = Clamped(lay, y)
<1> DEFINE t == lay.total - ViewHeight
           c == Clamped(lay, y)
<1>1. t \in Int
  BY PreviewAssumption
<1>2. ASSUME NEW z \in Int
      PROVE  Clamped(lay, z) = IF t <= z THEN (IF 0 >= t THEN 0 ELSE t) ELSE IF 0 >= z THEN 0 ELSE z
  <2> DEFINE m == Min({t, z})
  <2>1. Clamped(lay, z) = Max({0, m})
    BY DEF Clamped
  <2> HIDE DEF t
  <2>2. m = IF t <= z THEN t ELSE z
    BY <1>1, LesserOfTwo
  <2> HIDE DEF m
  <2>3. m \in Int
    BY <1>1, <2>2
  <2>4. Max({0, m}) = IF 0 >= m THEN 0 ELSE m
    BY <2>3, GreaterOfTwo
  <2> QED
    BY <2>1, <2>2, <2>4
<1> HIDE DEF t
<1>3. c = IF t <= y THEN (IF 0 >= t THEN 0 ELSE t) ELSE IF 0 >= y THEN 0 ELSE y
  BY <1>2
<1> HIDE DEF c
<1>4. c \in Nat
  BY <1>1, <1>3
<1>5. Clamped(lay, c) = IF t <= c THEN (IF 0 >= t THEN 0 ELSE t) ELSE IF 0 >= c THEN 0 ELSE c
  BY <1>2, <1>4
<1>6. Clamped(lay, c) = c
  BY <1>1, <1>3, <1>4, <1>5
<1> QED
  BY <1>4, <1>6 DEF c

\* Blocks that have lines and some height.
GoodBlocks(blocks) ==
    /\ IsList(blocks)
    /\ \A i \in 1..Len(blocks) :
          /\ blocks[i].start \in Int /\ blocks[i].end \in Int /\ blocks[i].start <= blocks[i].end
          /\ blocks[i].top \in Int /\ blocks[i].bottom \in Int /\ blocks[i].top < blocks[i].bottom

\* The blocks of a layout that scroll with the editor are such that there are heights between them.
LEMMA BlocksAre ==
    ASSUME NEW lay, IsLayout(lay)
    PROVE  GoodBlocks(SyncBlocks(lay))
<1> DEFINE blocks == SyncBlocks(lay)
           box(i) == lay.boxes[lay.sync[i]]
           n == Len(lay.sync)
<1>1. n \in Nat /\ DOMAIN lay.sync = 1..n
  BY TextIs DEF IsLayout
<1>2. \A i \in 1..n : IsSynced(box(i))
  BY <1>1 DEF IsLayout
<1> HIDE DEF n
<1>3. blocks = [i \in 1..n |-> [start |-> box(i).start, end |-> box(i).end, top |-> box(i).area.top, bottom |-> box(i).area.bottom]]
  BY <1>1 DEF SyncBlocks
<1> HIDE DEF blocks, box
<1>4. IsList(blocks)
  <2>1. blocks = [k \in 1..n |-> blocks[k]]
    BY <1>3
  <2> QED
    BY <1>1, <2>1, CountedIsList
<1>5. DOMAIN blocks = 1..n
  BY <1>3
<1>6. 1..Len(blocks) = 1..n
  BY <1>4, <1>5 DEF IsList
<1>7. ASSUME NEW i \in 1..n
      PROVE  /\ blocks[i].start \in Int /\ blocks[i].end \in Int /\ blocks[i].start <= blocks[i].end
             /\ blocks[i].top \in Int /\ blocks[i].bottom \in Int /\ blocks[i].top < blocks[i].bottom
  <2>1. /\ blocks[i].start = box(i).start /\ blocks[i].end = box(i).end
        /\ blocks[i].top = box(i).area.top /\ blocks[i].bottom = box(i).area.bottom
    BY <1>3, <1>7
  <2>2. IsSynced(box(i))
    BY <1>2, <1>7
  <2>3. /\ box(i).start \in Nat /\ box(i).end \in Nat /\ box(i).start <= box(i).end
        /\ box(i).area.top \in Int /\ box(i).area.bottom \in Int /\ box(i).area.top < box(i).area.bottom
    BY <2>2 DEF IsSynced, IsArea
  <2> QED
    BY <2>1, <2>3
<1>8. GoodBlocks(blocks)
  BY <1>4, <1>6, <1>7 DEF GoodBlocks
<1> QED
  BY <1>8 DEF blocks

\* Shares of a length are whole.
LEMMA ShareIs ==
    ASSUME NEW at \in Int, NEW part \in Int, NEW length \in Int, NEW of \in Nat \ {0}
    PROVE  at + (part * length) \div of \in Int
<1> DEFINE m == part * length
<1>1. m \in Int
  OBVIOUS
<1> HIDE DEF m
<1>2. m \div of \in Int
  BY <1>1
<1> QED
  BY <1>2 DEF m

\* The last of the blocks up to somewhere is one of them, and those after it are beyond.
LEMMA LastUpTo ==
    ASSUME NEW n \in Nat, NEW S \in SUBSET (1..n), S # {}
    PROVE  Max(S) \in 1..n /\ Max(S) \in S /\ \A i \in 1..n : i > Max(S) => i \notin S
<1>1. S \in SUBSET (0..n)
  OBVIOUS
<1> DEFINE m == Max(S)
<1>2. m \in S /\ \A x \in S : m >= x
  BY <1>1, EndsAreIn
<1> HIDE DEF m
<1>3. m \in 1..n
  BY <1>2
<1>4. \A i \in 1..n : i > m => i \notin S
  BY <1>2, <1>3
<1> QED
  BY <1>2, <1>3, <1>4 DEF m

\* Every line is at some height.
LEMMA HeightIs ==
    ASSUME NEW blocks, GoodBlocks(blocks), NEW line \in Int
    PROVE  GetScrollYForLine(blocks, line) \in Int
<1> DEFINE n == Len(blocks)
           S == {j \in DOMAIN blocks : blocks[j].start <= line}
           i == Max(S)
<1>1. n \in Nat /\ DOMAIN blocks = 1..n /\ IsList(blocks)
  BY DEF GoodBlocks, IsList
<1>2. CASE blocks = <<>> \/ line <= blocks[1].start
  BY <1>2 DEF GetScrollYForLine
<1>3. CASE ~(blocks = <<>> \/ line <= blocks[1].start)
  <2>1. 1 \in 1..n
    BY <1>1, <1>3, ItemsAreHeadings
  <2> HIDE DEF n
  <2>2. 1 \in S /\ S \in SUBSET (1..n)
    <3>1. blocks[1].start \in Int
      BY <2>1 DEF GoodBlocks, n
    <3> QED
      BY <1>1, <1>3, <2>1, <3>1
  <2>3. i \in 1..n /\ i \in S /\ \A k \in 1..n : k > i => k \notin S
    <3> HIDE DEF S
    <3> QED
      BY <1>1, <2>2, LastUpTo
  <2> DEFINE b == blocks[i]
             after == blocks[i + 1]
             first == b.top + ((line - b.start) * (b.bottom - b.top)) \div (b.end - b.start + 1)
             second == b.bottom + ((line - b.end) * (after.top - b.bottom)) \div (after.start - b.end)
  <2>4. GetScrollYForLine(blocks, line) = IF line <= b.end THEN first ELSE IF i < n THEN second ELSE b.bottom
    BY <1>3 DEF GetScrollYForLine, n
  <2> HIDE DEF i
  <2>5. b.start \in Int /\ b.end \in Int /\ b.start <= b.end /\ b.top \in Int /\ b.bottom \in Int
    BY <2>3 DEF GoodBlocks, n
  <2>6. first \in Int
    <3> HIDE DEF b
    <3>1. line - b.start \in Int /\ b.bottom - b.top \in Int /\ b.end - b.start + 1 \in Nat \ {0}
      BY <2>5
    <3> QED
      BY <2>5, <3>1, ShareIs
  <2>7. ASSUME line > b.end, i < n
        PROVE  second \in Int
    <3>1. i + 1 \in 1..n /\ i + 1 > i
      BY <1>1, <2>3, <2>7
    <3>2. i + 1 \notin S
      BY <2>3, <3>1
    <3>3. after.start \in Int /\ after.top \in Int
      BY <3>1 DEF GoodBlocks, n
    <3>4. after.start > line
      BY <1>1, <3>1, <3>2, <3>3
    <3> HIDE DEF b, after
    <3>5. line - b.end \in Int /\ after.top - b.bottom \in Int /\ after.start - b.end \in Nat \ {0}
      BY <2>5, <2>7, <3>3, <3>4
    <3> QED
      BY <2>5, <3>5, ShareIs
  <2> HIDE DEF b, first, second
  <2> QED
    BY <1>1, <2>3, <2>4, <2>5, <2>6, <2>7
<1> QED
  BY <1>2, <1>3

\* Every height is that of some line.
LEMMA LineIs ==
    ASSUME NEW blocks, GoodBlocks(blocks), NEW y \in Int
    PROVE  GetLineForScrollY(blocks, y) \in Int
<1> DEFINE n == Len(blocks)
           S == {j \in DOMAIN blocks : blocks[j].top <= y}
           i == Max(S)
<1>1. n \in Nat /\ DOMAIN blocks = 1..n /\ IsList(blocks)
  BY DEF GoodBlocks, IsList
<1>2. CASE blocks = <<>> \/ y <= 0
  <2>1. GetLineForScrollY(blocks, y) = 1
    BY <1>2, Zenon DEF GetLineForScrollY
  <2> QED
    BY <2>1
<1>3. CASE ~(blocks = <<>> \/ y <= 0)
  <2>1. 1 \in 1..n
    BY <1>1, <1>3, ItemsAreHeadings
  <2>4. blocks[1].top \in Int /\ blocks[1].start \in Int
    BY <2>1 DEF GoodBlocks
  <2>2. CASE y <= blocks[1].top
    BY <1>3, <2>4, <2>2 DEF GetLineForScrollY
  <2>3. CASE ~(y <= blocks[1].top)
    <3> HIDE DEF n
    <3>1. 1 \in S /\ S \in SUBSET (1..n)
      BY <1>1, <2>4, <2>1, <2>3
    <3>2. i \in 1..n /\ i \in S /\ \A k \in 1..n : k > i => k \notin S
      <4> HIDE DEF S
      <4> QED
        BY <1>1, <3>1, LastUpTo
    <3> DEFINE b == blocks[i]
               after == blocks[i + 1]
               first == b.start + ((y - b.top) * (b.end - b.start + 1)) \div (b.bottom - b.top)
               second == b.end + ((y - b.bottom) * (after.start - b.end)) \div (after.top - b.bottom)
    <3>3. GetLineForScrollY(blocks, y) = IF y <= b.bottom THEN Min({b.end, first}) ELSE IF i < n THEN second ELSE b.end
      BY <1>3, <2>3 DEF GetLineForScrollY, n
    <3> HIDE DEF i
    <3>4. b.start \in Int /\ b.end \in Int /\ b.top \in Int /\ b.bottom \in Int /\ b.top < b.bottom
      BY <3>2 DEF GoodBlocks, n
    <3>5. first \in Int
      <4> HIDE DEF b
      <4>1. y - b.top \in Int /\ b.end - b.start + 1 \in Int /\ b.bottom - b.top \in Nat \ {0}
        BY <3>4
      <4> QED
        BY <3>4, <4>1, ShareIs
    <3>6. Min({b.end, first}) \in Int
      <4> HIDE DEF b, first
      <4> QED
        BY <3>4, <3>5, LesserOfTwo
    <3>7. ASSUME y > b.bottom, i < n
          PROVE  second \in Int
      <4>1. i + 1 \in 1..n /\ i + 1 > i
        BY <1>1, <3>2, <3>7
      <4>2. i + 1 \notin S
        BY <3>2, <4>1
      <4>3. after.start \in Int /\ after.top \in Int
        BY <4>1 DEF GoodBlocks, n
      <4>4. after.top > y
        BY <1>1, <4>1, <4>2, <4>3
      <4> HIDE DEF b, after
      <4>5. y - b.bottom \in Int /\ after.start - b.end \in Int /\ after.top - b.bottom \in Nat \ {0}
        BY <3>4, <3>7, <4>3, <4>4
      <4> QED
        BY <3>4, <4>5, ShareIs
    <3> HIDE DEF b, first, second
    <3> QED
      BY <1>1, <3>2, <3>3, <3>4, <3>6, <3>7
  <2> QED
    BY <2>2, <2>3
<1> QED
  BY <1>2, <1>3

-----------------------------------------------------------------------------
(* Selections. *)

\* The selection and the state of the mouse, as a record.
IsSel(s) ==
    s = [anchor |-> s.anchor, focus |-> s.focus, range |-> s.range, mode |-> s.mode, down |-> s.down,
         dragging |-> s.dragging, recent |-> s.recent, url |-> s.url, task |-> s.task]

\* What of it is kept.
Has(s, anchor, focus, range, mode, url, task) ==
    /\ IsSel(s) /\ s.anchor = anchor /\ s.focus = focus /\ s.range = range /\ s.mode = mode
    /\ s.url = url /\ s.task = task

\* Each field can be set on its own.
LEMMA SelWith ==
    ASSUME NEW s, IsSel(s), NEW v
    PROVE  /\ Has([s EXCEPT !.anchor = v], v, s.focus, s.range, s.mode, s.url, s.task)
           /\ Has([s EXCEPT !.focus = v], s.anchor, v, s.range, s.mode, s.url, s.task)
           /\ Has([s EXCEPT !.range = v], s.anchor, s.focus, v, s.mode, s.url, s.task)
           /\ Has([s EXCEPT !.mode = v], s.anchor, s.focus, s.range, v, s.url, s.task)
           /\ Has([s EXCEPT !.down = v], s.anchor, s.focus, s.range, s.mode, s.url, s.task)
           /\ Has([s EXCEPT !.dragging = v], s.anchor, s.focus, s.range, s.mode, s.url, s.task)
           /\ Has([s EXCEPT !.recent = v], s.anchor, s.focus, s.range, s.mode, s.url, s.task)
           /\ Has([s EXCEPT !.url = v], s.anchor, s.focus, s.range, s.mode, v, s.task)
           /\ Has([s EXCEPT !.task = v], s.anchor, s.focus, s.range, s.mode, s.url, v)
<1>1. ASSUME NEW a, NEW f, NEW r, NEW m, NEW d, NEW g, NEW e, NEW u, NEW t, NEW w,
             w = [anchor |-> a, focus |-> f, range |-> r, mode |-> m, down |-> d, dragging |-> g, recent |-> e, url |-> u, task |-> t]
      PROVE  Has(w, a, f, r, m, u, t)
  BY <1>1 DEF Has, IsSel
<1>2. Has([s EXCEPT !.anchor = v], v, s.focus, s.range, s.mode, s.url, s.task)
  <2>1. [s EXCEPT !.anchor = v] =
          [anchor |-> v, focus |-> s.focus, range |-> s.range, mode |-> s.mode, down |-> s.down,
           dragging |-> s.dragging, recent |-> s.recent, url |-> s.url, task |-> s.task]
    BY DEF IsSel
  <2> QED
    BY <1>1, <2>1
<1>3. Has([s EXCEPT !.focus = v], s.anchor, v, s.range, s.mode, s.url, s.task)
  <2>1. [s EXCEPT !.focus = v] =
          [anchor |-> s.anchor, focus |-> v, range |-> s.range, mode |-> s.mode, down |-> s.down,
           dragging |-> s.dragging, recent |-> s.recent, url |-> s.url, task |-> s.task]
    BY DEF IsSel
  <2> QED
    BY <1>1, <2>1
<1>4. Has([s EXCEPT !.range = v], s.anchor, s.focus, v, s.mode, s.url, s.task)
  <2>1. [s EXCEPT !.range = v] =
          [anchor |-> s.anchor, focus |-> s.focus, range |-> v, mode |-> s.mode, down |-> s.down,
           dragging |-> s.dragging, recent |-> s.recent, url |-> s.url, task |-> s.task]
    BY DEF IsSel
  <2> QED
    BY <1>1, <2>1
<1>5. Has([s EXCEPT !.mode = v], s.anchor, s.focus, s.range, v, s.url, s.task)
  <2>1. [s EXCEPT !.mode = v] =
          [anchor |-> s.anchor, focus |-> s.focus, range |-> s.range, mode |-> v, down |-> s.down,
           dragging |-> s.dragging, recent |-> s.recent, url |-> s.url, task |-> s.task]
    BY DEF IsSel
  <2> QED
    BY <1>1, <2>1
<1>6. Has([s EXCEPT !.down = v], s.anchor, s.focus, s.range, s.mode, s.url, s.task)
  <2>1. [s EXCEPT !.down = v] =
          [anchor |-> s.anchor, focus |-> s.focus, range |-> s.range, mode |-> s.mode, down |-> v,
           dragging |-> s.dragging, recent |-> s.recent, url |-> s.url, task |-> s.task]
    BY DEF IsSel
  <2> QED
    BY <1>1, <2>1
<1>7. Has([s EXCEPT !.dragging = v], s.anchor, s.focus, s.range, s.mode, s.url, s.task)
  <2>1. [s EXCEPT !.dragging = v] =
          [anchor |-> s.anchor, focus |-> s.focus, range |-> s.range, mode |-> s.mode, down |-> s.down,
           dragging |-> v, recent |-> s.recent, url |-> s.url, task |-> s.task]
    BY DEF IsSel
  <2> QED
    BY <1>1, <2>1
<1>8. Has([s EXCEPT !.recent = v], s.anchor, s.focus, s.range, s.mode, s.url, s.task)
  <2>1. [s EXCEPT !.recent = v] =
          [anchor |-> s.anchor, focus |-> s.focus, range |-> s.range, mode |-> s.mode, down |-> s.down,
           dragging |-> s.dragging, recent |-> v, url |-> s.url, task |-> s.task]
    BY DEF IsSel
  <2> QED
    BY <1>1, <2>1
<1>9. Has([s EXCEPT !.url = v], s.anchor, s.focus, s.range, s.mode, v, s.task)
  <2>1. [s EXCEPT !.url = v] =
          [anchor |-> s.anchor, focus |-> s.focus, range |-> s.range, mode |-> s.mode, down |-> s.down,
           dragging |-> s.dragging, recent |-> s.recent, url |-> v, task |-> s.task]
    BY DEF IsSel
  <2> QED
    BY <1>1, <2>1
<1>10. Has([s EXCEPT !.task = v], s.anchor, s.focus, s.range, s.mode, s.url, v)
  <2>1. [s EXCEPT !.task = v] =
          [anchor |-> s.anchor, focus |-> s.focus, range |-> s.range, mode |-> s.mode, down |-> s.down,
           dragging |-> s.dragging, recent |-> s.recent, url |-> s.url, task |-> v]
    BY DEF IsSel
  <2> QED
    BY <1>1, <2>1
<1> QED
  BY Zenon, <1>2, <1>3, <1>4, <1>5, <1>6, <1>7, <1>8, <1>9, <1>10

\* Nothing pressed: the link and the task are let go.
LEMMA PressedNothing ==
    ASSUME NEW s, IsSel(s)
    PROVE  Has(NothingPressed(s), s.anchor, s.focus, s.range, s.mode, NoUrl, NoSource)
<1> DEFINE u == [s EXCEPT !.url = NoUrl]
           t == [u EXCEPT !.task = NoSource]
<1>1. NothingPressed(s) = t
  BY Zenon DEF NothingPressed
<1>2. Has(u, s.anchor, s.focus, s.range, s.mode, NoUrl, s.task)
  BY SelWith
<1> HIDE DEF u
<1>3. IsSel(u)
  BY <1>2 DEF Has
<1>4. Has(t, u.anchor, u.focus, u.range, u.mode, u.url, NoSource)
  BY <1>3, SelWith
<1> HIDE DEF t
<1> QED
  BY <1>1, <1>2, <1>4 DEF Has

\* The button is up: what is selected stays.
LEMMA EndedIs ==
    ASSUME NEW s, IsSel(s)
    PROVE  Has(MouseEnded(s), s.anchor, s.focus, s.range, s.mode, s.url, s.task)
<1> DEFINE u == [s EXCEPT !.down = FALSE]
           t == [u EXCEPT !.dragging = FALSE]
<1>1. MouseEnded(s) = t
  BY Zenon DEF MouseEnded
<1>2. Has(u, s.anchor, s.focus, s.range, s.mode, s.url, s.task)
  BY SelWith
<1> HIDE DEF u
<1>3. IsSel(u)
  BY <1>2 DEF Has
<1>4. Has(t, u.anchor, u.focus, u.range, u.mode, u.url, u.task)
  BY <1>3, SelWith
<1> HIDE DEF t
<1> QED
  BY <1>1, <1>2, <1>4 DEF Has

\* The ends of the selection are set.
LEMMA PlacedIs ==
    ASSUME NEW s, IsSel(s), NEW a, NEW f
    PROVE  Has([s EXCEPT !.anchor = a, !.focus = f], a, f, s.range, s.mode, s.url, s.task)
<1> DEFINE u == [s EXCEPT !.anchor = a]
           t == [u EXCEPT !.focus = f]
           w == [s EXCEPT !.anchor = a, !.focus = f]
<1>1. w = t
  BY Zenon
<1>2. Has(u, a, s.focus, s.range, s.mode, s.url, s.task)
  BY SelWith
<1> HIDE DEF u
<1>3. IsSel(u)
  BY <1>2 DEF Has
<1>4. Has(t, u.anchor, f, u.range, u.mode, u.url, u.task)
  BY <1>3, SelWith
<1> HIDE DEF t, w
<1>5. Has(w, a, f, s.range, s.mode, s.url, s.task)
  BY <1>1, <1>2, <1>4 DEF Has
<1> QED
  BY <1>5 DEF w

\* The range it goes on from is set, and then its ends.
LEMMA RangedIs ==
    ASSUME NEW s, IsSel(s), NEW r, NEW a, NEW f
    PROVE  Has([s EXCEPT !.range = r, !.anchor = a, !.focus = f], a, f, r, s.mode, s.url, s.task)
<1> DEFINE u == [s EXCEPT !.range = r]
           t == [u EXCEPT !.anchor = a, !.focus = f]
           w == [s EXCEPT !.range = r, !.anchor = a, !.focus = f]
<1>1. w = t
  BY Zenon
<1>2. Has(u, s.anchor, s.focus, r, s.mode, s.url, s.task)
  BY SelWith
<1> HIDE DEF u
<1>3. IsSel(u)
  BY <1>2 DEF Has
<1>4. Has(t, a, f, u.range, u.mode, u.url, u.task)
  BY <1>3, PlacedIs
<1> HIDE DEF t, w
<1>5. Has(w, a, f, r, s.mode, s.url, s.task)
  BY <1>1, <1>2, <1>4 DEF Has
<1> QED
  BY <1>5 DEF w

\* What a drag goes on from: a range of the layout, of whole words if it selects words.
GoodStart(lay, s) ==
    /\ GoodPosition(lay, s.range[1]) /\ GoodPosition(lay, s.range[2]) /\ ~Before(s.range[2], s.range[1])
    /\ s.mode = "Word" /\ s.range[1] # s.range[2] => AtWord(lay, s.range[1]) /\ AtWord(lay, s.range[2])

\* What is selected: between words if it is selected by words, and all of the word it began with.
GoodEnds(lay, s) ==
    /\ GoodPosition(lay, s.anchor) /\ GoodPosition(lay, s.focus)
    /\ s.mode = "Word" /\ s.range[1] # s.range[2] /\ s.anchor # s.focus =>
          /\ AtWord(lay, s.anchor) /\ AtWord(lay, s.focus)
          /\ ~Before(s.range[1], Earlier(s.anchor, s.focus))
          /\ ~Before(Later(s.anchor, s.focus), s.range[2])

\* A task of the layout, or none.
GoodTask(lay, task) == task # NoSource => \E b \in DOMAIN lay.boxes : lay.boxes[b].task = task

GoodSel(lay, s) == IsSel(s) /\ GoodStart(lay, s) /\ GoodEnds(lay, s) /\ GoodTask(lay, s.task) /\ GoodLink(lay, s.url)

\* Neither a link nor a task is gone.
LEMMA NothingIsLive ==
    ASSUME NEW lay
    PROVE  GoodTask(lay, NoSource) /\ GoodLink(lay, NoUrl)
  BY DEF GoodTask, GoodLink

\* What is selected depends on these four.
LEMMA SameIsGood ==
    ASSUME NEW lay, NEW s, NEW t, t.anchor = s.anchor, t.focus = s.focus, t.range = s.range, t.mode = s.mode
    PROVE  (GoodStart(lay, s) => GoodStart(lay, t)) /\ (GoodEnds(lay, s) => GoodEnds(lay, t))
  BY DEF GoodStart, GoodEnds

\* Where there are two positions there is a text.
LEMMA TwoPositions ==
    ASSUME NEW lay, IsLayout(lay), NEW p, NEW q, GoodPosition(lay, p), GoodPosition(lay, q), p # q
    PROVE  lay.units # <<>> /\ \A r : GoodPosition(lay, r) => r.unit \in DOMAIN lay.units
<1>1. DOMAIN lay.units # {}
  BY DEF GoodPosition
<1>2. Origin.unit = 1
  BY DEF Origin, Pos
<1>3. 1 \in DOMAIN lay.units
  BY <1>1, UnitsAre
<1>4. lay.units # <<>>
  BY <1>1
<1> QED
  BY <1>2, <1>3, <1>4 DEF GoodPosition

\* What is selected in a layout is selected in another with the same texts.
LEMMA SameEnds ==
    ASSUME NEW lay, IsLayout(lay), NEW other, SameTexts(lay, other), NEW s, GoodStart(lay, s), GoodEnds(lay, s)
    PROVE  GoodStart(other, s) /\ GoodEnds(other, s)
<1>1. \A p : GoodPosition(lay, p) => GoodPosition(other, p)
  BY DEF GoodPosition, SameTexts
<1>2. ASSUME NEW p, p.unit \in DOMAIN lay.units, AtWord(lay, p)
      PROVE  AtWord(other, p)
  BY <1>2 DEF AtWord, SameTexts
<1>3. ASSUME s.range[1] # s.range[2]
      PROVE  \A p \in {s.anchor, s.focus, s.range[1], s.range[2]} : AtWord(lay, p) => AtWord(other, p)
  <2>1. \A p : GoodPosition(lay, p) => p.unit \in DOMAIN lay.units
    BY <1>3, TwoPositions DEF GoodStart
  <2> QED
    BY <2>1, <1>2 DEF GoodStart, GoodEnds
<1>4. GoodStart(other, s)
  BY <1>1, <1>3 DEF GoodStart
<1>5. GoodEnds(other, s)
  BY <1>1, <1>3 DEF GoodEnds
<1> QED
  BY <1>4, <1>5

\* The earlier and the later of two positions.
LEMMA InOrder ==
    ASSUME NEW lay, IsLayout(lay), NEW a, NEW b, NEW c, NEW d,
           GoodPosition(lay, a), GoodPosition(lay, b), GoodPosition(lay, c), GoodPosition(lay, d),
           ~Before(b, a), ~Before(d, c)
    PROVE  /\ GoodPosition(lay, Later(d, b)) /\ Later(d, b) \in {d, b}
           /\ Before(c, a) => ~Before(a, Earlier(b, c)) /\ ~Before(Later(b, c), b)
           /\ ~Before(c, a) => ~Before(a, Earlier(a, Later(d, b))) /\ ~Before(Later(a, Later(d, b)), b)
<1>1. /\ a.unit \in Nat /\ a.offset \in Nat /\ b.unit \in Nat /\ b.offset \in Nat
      /\ c.unit \in Nat /\ c.offset \in Nat /\ d.unit \in Nat /\ d.offset \in Nat
  BY PositionIs
<1>2. GoodPosition(lay, Later(d, b)) /\ Later(d, b) \in {d, b}
  BY DEF Later
<1>3. ASSUME Before(c, a)
      PROVE  ~Before(a, Earlier(b, c)) /\ ~Before(Later(b, c), b)
  BY <1>1, <1>3 DEF Before, Earlier, Later
<1>4. ASSUME NEW e, e.unit \in Nat, e.offset \in Nat, ~Before(e, b)
      PROVE  ~Before(a, Earlier(a, e)) /\ ~Before(Later(a, e), b)
  BY <1>1, <1>4 DEF Before, Earlier, Later
<1>5. ~Before(Later(d, b), b)
  BY <1>1 DEF Before, Later
<1>6. Later(d, b).unit \in Nat /\ Later(d, b).offset \in Nat
  BY <1>1, <1>2
<1> QED
  BY <1>2, <1>3, <1>4, <1>5, <1>6

\* A drag goes on to somewhere: all of the range it began with stays selected.
LEMMA ExtendIs ==
    ASSUME NEW lay, IsLayout(lay), NEW s, IsSel(s), GoodStart(lay, s), NEW target, GoodRange(lay, target),
           s.mode = "Word" /\ lay.units # <<>> => AtWord(lay, target[1]) /\ AtWord(lay, target[2])
    PROVE  /\ IsSel(ExtendSelection(s, target)) /\ GoodStart(lay, ExtendSelection(s, target))
           /\ GoodEnds(lay, ExtendSelection(s, target))
           /\ ExtendSelection(s, target).url = s.url /\ ExtendSelection(s, target).task = s.task
<1> DEFINE t == ExtendSelection(s, target)
           back == Before(target[1], s.range[1])
           a == IF back THEN s.range[2] ELSE s.range[1]
           f == IF back THEN target[1] ELSE Later(target[2], s.range[2])
           one == [s EXCEPT !.anchor = s.range[2], !.focus = target[1]]
           two == [s EXCEPT !.anchor = s.range[1], !.focus = Later(target[2], s.range[2])]
<1>1. t = IF back THEN one ELSE two
  BY Zenon DEF ExtendSelection
<1>2. Has(one, s.range[2], target[1], s.range, s.mode, s.url, s.task)
  BY PlacedIs
<1>3. Has(two, s.range[1], Later(target[2], s.range[2]), s.range, s.mode, s.url, s.task)
  BY PlacedIs
<1> HIDE DEF one, two, back
<1>4. Has(t, a, f, s.range, s.mode, s.url, s.task)
  <2> HIDE DEF t
  <2> QED
    BY <1>1, <1>2, <1>3
<1> HIDE DEF t
<1> USE DEF back
<1>5. /\ GoodPosition(lay, s.range[1]) /\ GoodPosition(lay, s.range[2]) /\ ~Before(s.range[2], s.range[1])
      /\ GoodPosition(lay, target[1]) /\ GoodPosition(lay, target[2]) /\ ~Before(target[2], target[1])
  BY DEF GoodStart, GoodRange
<1>6. GoodPosition(lay, a) /\ GoodPosition(lay, f) /\ ~Before(s.range[1], Earlier(a, f)) /\ ~Before(Later(a, f), s.range[2])
  BY <1>5, InOrder
<1>7. a \in {s.range[1], s.range[2]} /\ f \in {target[1], target[2], s.range[2]}
  BY DEF Later
<1>8. ASSUME s.mode = "Word", s.range[1] # s.range[2]
      PROVE  AtWord(lay, a) /\ AtWord(lay, f)
  <2>1. lay.units # <<>>
    BY <1>5, <1>8, TwoPositions
  <2> HIDE DEF a, f
  <2> QED
    BY <1>7, <1>8, <2>1 DEF GoodStart
<1> HIDE DEF a, f
<1>9. IsSel(t) /\ t.anchor = a /\ t.focus = f /\ t.range = s.range /\ t.mode = s.mode /\ t.url = s.url /\ t.task = s.task
  BY <1>4 DEF Has
<1>10. GoodStart(lay, t)
  BY <1>9 DEF GoodStart
<1>11. GoodEnds(lay, t)
  BY <1>6, <1>8, <1>9 DEF GoodEnds
<1> QED
  BY <1>9, <1>10, <1>11 DEF t

\* A selection begins, at one place or from where the last one began.
LEMMA BeginIs ==
    ASSUME NEW lay, IsLayout(lay), GoodPosition(lay, sel.anchor), NEW s, IsSel(s), NEW target, GoodRange(lay, target),
           NEW mode, NEW extend \in BOOLEAN,
           mode = "Word" /\ lay.units # <<>> => AtWord(lay, target[1]) /\ AtWord(lay, target[2])
    PROVE  /\ IsSel(BeginSelection(s, target, mode, extend))
           /\ GoodStart(lay, BeginSelection(s, target, mode, extend)) /\ GoodEnds(lay, BeginSelection(s, target, mode, extend))
           /\ BeginSelection(s, target, mode, extend).url = s.url /\ BeginSelection(s, target, mode, extend).task = s.task
<1> DEFINE u == [s EXCEPT !.mode = mode]
           here == <<sel.anchor, sel.anchor>>
           r == [s EXCEPT !.mode = mode, !.range = here]
           t == [s EXCEPT !.mode = mode, !.range = target, !.anchor = target[1], !.focus = target[2]]
           both == BeginSelection(s, target, mode, extend)
<1>1. r = [u EXCEPT !.range = here]
  BY Zenon
<1>2. t = [u EXCEPT !.range = target, !.anchor = target[1], !.focus = target[2]]
  BY Zenon
<1>3. Has(u, s.anchor, s.focus, s.range, mode, s.url, s.task)
  BY SelWith
<1>4. both = IF extend THEN ExtendSelection(r, target) ELSE t
  BY Zenon DEF BeginSelection
<1> HIDE DEF u, r, t, here
<1>5. IsSel(u)
  BY <1>3 DEF Has
<1>6. CASE extend
  <2>1. Has(r, u.anchor, u.focus, here, u.mode, u.url, u.task)
    <3>1. Has([u EXCEPT !.range = here], u.anchor, u.focus, here, u.mode, u.url, u.task)
      BY <1>5, SelWith
    <3> QED
      BY <1>1, <3>1
  <2>2. here[1] = sel.anchor /\ here[2] = sel.anchor
    BY DEF here
  <2>3. IsSel(r) /\ r.range = here /\ r.mode = mode /\ r.url = s.url /\ r.task = s.task
    BY <1>3, <2>1 DEF Has
  <2>4. ~Before(sel.anchor, sel.anchor)
    BY PositionIs DEF Before
  <2>5. GoodStart(lay, r)
    BY <2>2, <2>3, <2>4 DEF GoodStart
  <2> HIDE DEF both
  <2>6. both = ExtendSelection(r, target)
    BY <1>4, <1>6
  <2>7. IsSel(both) /\ GoodStart(lay, both) /\ GoodEnds(lay, both) /\ both.url = s.url /\ both.task = s.task
    BY <2>3, <2>5, <2>6, ExtendIs
  <2> QED
    BY <2>7 DEF both
<1>7. CASE ~extend
  <2>1. Has(t, target[1], target[2], target, u.mode, u.url, u.task)
    <3>1. Has([u EXCEPT !.range = target, !.anchor = target[1], !.focus = target[2]], target[1], target[2], target, u.mode, u.url, u.task)
      BY <1>5, RangedIs
    <3> QED
      BY <1>2, <3>1
  <2>2. /\ IsSel(t) /\ t.anchor = target[1] /\ t.focus = target[2] /\ t.range = target
        /\ t.mode = mode /\ t.url = s.url /\ t.task = s.task
    BY <1>3, <2>1 DEF Has
  <2>3. GoodPosition(lay, target[1]) /\ GoodPosition(lay, target[2]) /\ ~Before(target[2], target[1])
    BY DEF GoodRange
  <2>4. ASSUME mode = "Word", target[1] # target[2]
        PROVE  AtWord(lay, target[1]) /\ AtWord(lay, target[2])
    BY <2>3, <2>4, TwoPositions
  <2>5. GoodStart(lay, t)
    BY <2>2, <2>3, <2>4 DEF GoodStart
  <2>6. ~Before(target[1], target[1]) /\ ~Before(target[2], target[2])
    <3>1. /\ target[1].unit \in Nat /\ target[1].offset \in Nat
          /\ target[2].unit \in Nat /\ target[2].offset \in Nat
      BY <2>3, PositionIs
    <3> QED
      BY <3>1 DEF Before
  <2>7. Earlier(target[1], target[2]) = target[1] /\ Later(target[1], target[2]) \in {target[1], target[2]}
    BY <2>3 DEF Earlier, Later
  <2>8. ~Before(Later(target[1], target[2]), target[2])
    BY <2>6 DEF Later
  <2>9. GoodEnds(lay, t)
    BY <2>2, <2>3, <2>4, <2>6, <2>7, <2>8 DEF GoodEnds
  <2> HIDE DEF both
  <2>10. both = t
    BY <1>4, <1>7
  <2>11. IsSel(both) /\ GoodStart(lay, both) /\ GoodEnds(lay, both) /\ both.url = s.url /\ both.task = s.task
    BY <2>2, <2>5, <2>9, <2>10
  <2> QED
    BY <2>11 DEF both
<1> QED
  BY <1>6, <1>7

\* Where the pointer is: a range of the layout, of whole words if it selects words.
LEMMA RangeAtIs ==
    ASSUME IsLayout(layout), NEW mode, NEW p, p.x \in Int, p.y \in Int
    PROVE  /\ GoodRange(layout, RangeAt(mode, p))
           /\ mode = "Word" /\ layout.units # <<>> => AtWord(layout, RangeAt(mode, p)[1]) /\ AtWord(layout, RangeAt(mode, p)[2])
<1>1. CASE mode = "Word"
  BY <1>1, WordAtIs, Zenon DEF RangeAt
<1>2. CASE mode = "Unit"
  <2>1. RangeAt(mode, p) = UnitAt(layout, p.x, p.y)
    BY <1>2, Zenon DEF RangeAt
  <2> QED
    BY <1>2, <2>1, UnitAtIs
<1>3. CASE mode # "Word" /\ mode # "Unit"
  <2> DEFINE q == HitTestTextPosition(layout, p.x, p.y)
  <2>1. RangeAt(mode, p) = <<q, q>>
    BY <1>3, Zenon DEF RangeAt
  <2>2. GoodPosition(layout, q)
    BY PointIsPosition
  <2> HIDE DEF q
  <2>3. ~Before(q, q)
    BY <2>2, PositionIs DEF Before
  <2>4. GoodRange(layout, <<q, q>>)
    BY <2>2, <2>3 DEF GoodRange
  <2> QED
    BY <1>3, <2>1, <2>4
<1> QED
  BY <1>1, <1>2, <1>3

\* The checkbox under the pointer is one of the layout.
LEMMA TaskAtIs ==
    ASSUME IsLayout(layout), NEW p
    PROVE  GoodTask(layout, TaskAt(p))
<1> DEFINE hit == {b \in DOMAIN layout.boxes :
                  /\ layout.boxes[b].task # NoSource
                  /\ InArea([left |-> layout.boxes[b].mark.left - Slop, top |-> layout.boxes[b].mark.top - Slop,
                             right |-> layout.boxes[b].mark.right + Slop, bottom |-> layout.boxes[b].mark.bottom + Slop], p.x, p.y)}
           box == HitTestTaskBox(layout, p.x, p.y)
<1>1. box = IF hit = {} THEN 0 ELSE Min(hit)
  BY DEF HitTestTaskBox
<1>2. TaskAt(p) = IF box = 0 THEN NoSource ELSE layout.boxes[box].task
  BY DEF TaskAt
<1>3. hit \in SUBSET DOMAIN layout.boxes
  OBVIOUS
<1> HIDE DEF hit, box
<1>4. DOMAIN layout.boxes = 1..Len(layout.boxes) /\ Len(layout.boxes) \in Nat
  BY TextIs DEF IsLayout
<1>5. CASE hit = {}
  BY <1>1, <1>2, <1>5, NothingIsLive
<1>6. CASE hit # {}
  <2>1. hit \in SUBSET (0..Len(layout.boxes))
    BY <1>3, <1>4
  <2>2. Min(hit) \in hit
    BY <1>4, <1>6, <2>1, EndsAreIn
  <2>3. box \in DOMAIN layout.boxes
    BY <1>1, <1>3, <1>6, <2>2
  <2>4. TaskAt(p) = layout.boxes[box].task
    BY <1>2, <1>4, <2>3
  <2> QED
    BY <2>3, <2>4 DEF GoodTask
<1> QED
  BY <1>5, <1>6

\* The pointer is somewhere.
LEMMA PointIs ==
    ASSUME IsLayout(layout), NEW p \in Points
    PROVE  p.x \in Int /\ p.y \in Int
<1> DEFINE mid(v) == Places(v.text, v.width)[Len(v.text) \div 2 + 1]
           first(v) == [x |-> v.x + mid(v).col * CharWidth + 6, y |-> v.y + mid(v).row * LineHeight + 1]
           last(v) == [x |-> v.area.right - 1, y |-> v.area.bottom - 1]
<1>1. \/ \E b \in DOMAIN layout.boxes : p = [x |-> layout.boxes[b].mark.left, y |-> layout.boxes[b].mark.top]
      \/ \E u \in DOMAIN layout.units : p \in {first(ViewOf(layout, u)), last(ViewOf(layout, u))}
  BY DEF Points
<1>2. ASSUME NEW b \in DOMAIN layout.boxes, p = [x |-> layout.boxes[b].mark.left, y |-> layout.boxes[b].mark.top]
      PROVE  p.x \in Int /\ p.y \in Int
  <2>1. IsArea(layout.boxes[b].mark)
    BY DEF IsLayout
  <2> QED
    BY <1>2, <2>1 DEF IsArea
<1>3. ASSUME NEW u \in DOMAIN layout.units, p \in {first(ViewOf(layout, u)), last(ViewOf(layout, u))}
      PROVE  p.x \in Int /\ p.y \in Int
  <2> DEFINE v == ViewOf(layout, u)
             k == Len(v.text) \div 2 + 1
  <2>1. IsView(v)
    BY DEF IsLayout
  <2>2. p \in {first(v), last(v)}
    BY <1>3
  <2> HIDE DEF v
  <2>3. Len(v.text) \in Nat
    BY <2>1, TextIs DEF IsView
  <2>4. k \in 1..Len(v.text) + 1
    <3> DEFINE n == Len(v.text)
    <3> HIDE DEF n
    <3>1. ASSUME n \in Nat PROVE n \div 2 + 1 \in 1..n + 1
      BY <3>1
    <3> QED
      BY <2>3, <3>1 DEF n
  <2>5. mid(v).row \in Nat /\ mid(v).col \in Nat
    <3> HIDE DEF k
    <3>1. Places(v.text, v.width)[k].row \in Nat /\ Places(v.text, v.width)[k].col \in Nat
      BY <2>1, <2>4 DEF IsView, ArePlaces
    <3> QED
      BY <3>1 DEF k
  <2>6. v.x \in Int /\ v.y \in Int /\ v.area.right \in Int /\ v.area.bottom \in Int
    BY <2>1 DEF IsView, IsArea
  <2> HIDE DEF mid
  <2> QED
    BY <2>2, <2>5, <2>6 DEF CharWidth, LineHeight
<1> QED
  BY <1>1, <1>2, <1>3

-----------------------------------------------------------------------------
(* Layouts. *)

\* Two boxes but for whether their task is done.
LEMMA CheckedIs ==
    ASSUME NEW box, BoxParts \subseteq DOMAIN box, NEW checked
    PROVE  LET t == [box EXCEPT !.checked = checked] IN
           /\ DOMAIN t = DOMAIN box
           /\ t.rich = box.rich /\ t.x = box.x /\ t.y = box.y /\ t.width = box.width /\ t.area = box.area /\ t.rows = box.rows
           /\ t.mark = box.mark /\ t.task = box.task /\ t.start = box.start /\ t.end = box.end
<1>1. {"rich", "x", "y", "width", "area", "rows", "mark", "task", "checked", "start", "end"} \subseteq DOMAIN box
  BY DEF BoxParts
<1>2. \A part \in {"rich", "x", "y", "width", "area", "rows", "mark", "task", "start", "end"} : part \in DOMAIN box
  BY <1>1
<1> DEFINE t == [box EXCEPT !.checked = checked]
<1>3. DOMAIN t = DOMAIN box
  OBVIOUS
<1>4. t.rich = box.rich /\ t.x = box.x /\ t.y = box.y
  BY <1>2
<1>5. t.width = box.width /\ t.area = box.area /\ t.rows = box.rows
  BY <1>2
<1>6. t.mark = box.mark /\ t.task = box.task
  BY <1>2
<1>7. t.start = box.start /\ t.end = box.end
  BY <1>2
<1> QED
  BY <1>3, <1>4, <1>5, <1>6, <1>7

\* The parts of a box that are drawn or pointed at.
SameBox(b, c) ==
    /\ DOMAIN b = DOMAIN c
    /\ b.rich = c.rich /\ b.x = c.x /\ b.y = c.y /\ b.width = c.width /\ b.area = c.area /\ b.rows = c.rows
    /\ b.mark = c.mark /\ b.task = c.task /\ b.start = c.start /\ b.end = c.end

\* A layout with the same boxes but for their marks is as good, with the same texts.
LEMMA SameLayout ==
    ASSUME NEW lay, IsLayout(lay), NEW t, LayoutParts \subseteq DOMAIN t, t.total = lay.total, t.anchors = lay.anchors,
           t.sync = lay.sync, t.units = lay.units, IsText(t.boxes), DOMAIN t.boxes = DOMAIN lay.boxes,
           \A b \in DOMAIN lay.boxes : SameBox(t.boxes[b], lay.boxes[b])
    PROVE  IsLayout(t) /\ DOMAIN t.units = DOMAIN lay.units /\ \A u \in DOMAIN lay.units : TextOf(t, u) = TextOf(lay, u)
<1>1. ASSUME NEW u \in DOMAIN lay.units
      PROVE  ViewOf(t, u) = ViewOf(lay, u) /\ t.units[u].box \in DOMAIN t.boxes /\ IsView(ViewOf(t, u))
  <2>1. lay.units[u].box \in DOMAIN lay.boxes /\ IsView(ViewOf(lay, u))
    BY DEF IsLayout
  <2>2. SameBox(t.boxes[lay.units[u].box], lay.boxes[lay.units[u].box])
    BY <2>1
  <2>3. ViewOf(t, u) = ViewOf(lay, u)
    BY <2>2, Zenon DEF ViewOf, SameBox
  <2> QED
    BY <2>1, <2>3
<1>2. ASSUME NEW b \in DOMAIN lay.boxes
      PROVE  BoxParts \subseteq DOMAIN t.boxes[b] /\ IsArea(t.boxes[b].mark)
  BY <1>2 DEF IsLayout, SameBox
<1>3. ASSUME NEW i \in DOMAIN lay.sync
      PROVE  lay.sync[i] \in DOMAIN t.boxes /\ IsSynced(t.boxes[lay.sync[i]])
  BY <1>3 DEF IsLayout, SameBox, IsSynced
<1>4. IsLayout(t)
  BY <1>1, <1>2, <1>3 DEF IsLayout
<1> QED
  BY <1>1, <1>4 DEF TextOf

\* A checkbox that is clicked changes nothing but itself.
LEMMA SetTaskIs ==
    ASSUME NEW lay, IsLayout(lay), NEW mark, NEW checked
    PROVE  LET t == SetTaskChecked(lay, mark, checked) IN
           /\ IsLayout(t) /\ t.total = lay.total /\ DOMAIN t.boxes = DOMAIN lay.boxes
           /\ \A b \in DOMAIN lay.boxes : t.boxes[b].task = lay.boxes[b].task
           /\ DOMAIN t.units = DOMAIN lay.units /\ \A u \in DOMAIN lay.units : TextOf(t, u) = TextOf(lay, u)
<1> DEFINE t == SetTaskChecked(lay, mark, checked)
           new(b) == IF lay.boxes[b].task = mark THEN [lay.boxes[b] EXCEPT !.checked = checked] ELSE lay.boxes[b]
           boxes == [b \in DOMAIN lay.boxes |-> new(b)]
           n == Len(lay.boxes)
<1>1. t = [lay EXCEPT !.boxes = boxes]
  BY Zenon DEF SetTaskChecked
<1>2. /\ "boxes" \in DOMAIN lay /\ "anchors" \in DOMAIN lay /\ "total" \in DOMAIN lay
      /\ "sync" \in DOMAIN lay /\ "units" \in DOMAIN lay
  BY DEF IsLayout, LayoutParts
<1>3. ASSUME NEW b \in DOMAIN lay.boxes
      PROVE  SameBox(new(b), lay.boxes[b])
  <2>1. BoxParts \subseteq DOMAIN lay.boxes[b]
    BY DEF IsLayout
  <2>2. SameBox([lay.boxes[b] EXCEPT !.checked = checked], lay.boxes[b])
    BY <2>1, CheckedIs, Zenon DEF SameBox
  <2>3. SameBox(lay.boxes[b], lay.boxes[b])
    BY DEF SameBox
  <2> QED
    BY <2>2, <2>3, Zenon
<1>4. n \in Nat /\ DOMAIN lay.boxes = 1..n
  BY TextIs DEF IsLayout
<1> HIDE DEF new, n, t
<1>5. DOMAIN boxes = DOMAIN lay.boxes /\ \A b \in DOMAIN lay.boxes : SameBox(boxes[b], lay.boxes[b])
  BY <1>3
<1>6. IsText(boxes)
  <2>1. boxes = [k \in 1..n |-> boxes[k]]
    BY <1>4
  <2> HIDE DEF boxes
  <2>2. boxes \in Seq({boxes[k] : k \in 1..n})
    BY <1>4, <2>1
  <2> QED
    BY <2>2, SeqOfItsOwn DEF IsText
<1> HIDE DEF boxes
<1>7. t.boxes = boxes /\ t.total = lay.total /\ t.anchors = lay.anchors
  BY <1>1, <1>2
<1>8. t.sync = lay.sync /\ t.units = lay.units /\ DOMAIN t = DOMAIN lay
  BY <1>1, <1>2
<1>9. LayoutParts \subseteq DOMAIN t
  BY <1>8 DEF IsLayout
<1>10. IsLayout(t) /\ DOMAIN t.units = DOMAIN lay.units /\ \A u \in DOMAIN lay.units : TextOf(t, u) = TextOf(lay, u)
  BY <1>5, <1>6, <1>7, <1>8, <1>9, SameLayout
<1>11. \A b \in DOMAIN lay.boxes : t.boxes[b].task = lay.boxes[b].task
  BY <1>5, <1>7 DEF SameBox
<1> QED
  BY <1>5, <1>7, <1>10, <1>11 DEF t

-----------------------------------------------------------------------------
(* The lines of the headings. *)

\* Among some numbers there is a first, a second, and so on.
LEMMA NthIs ==
    ASSUME NEW n \in Nat, NEW S \in SUBSET (1..n), NEW k \in 1..Cardinality(S)
    PROVE  \E i \in S : Cardinality({j \in S : j <= i}) = k
<1> DEFINE upTo(i) == {j \in S : j <= i}
           f(i) == Cardinality(upTo(i))
           T == {i \in S : f(i) >= k}
           i == Min(T)
<1>1. IsFiniteSet(S) /\ Cardinality(S) \in Nat
  <2>1. IsFiniteSet(1..n)
    BY FS_Interval
  <2>2. IsFiniteSet(S)
    BY <2>1, FS_Subset
  <2> QED
    BY <2>2, FS_CardinalityType
<1>2. \A x : IsFiniteSet(upTo(x)) /\ f(x) \in Nat
  <2> SUFFICES ASSUME NEW x PROVE IsFiniteSet(upTo(x)) /\ f(x) \in Nat
    OBVIOUS
  <2>1. upTo(x) \in SUBSET S
    OBVIOUS
  <2> HIDE DEF upTo
  <2> QED
    BY <1>1, <2>1, FS_Subset, FS_CardinalityType
<1>3. S # {}
  <2>1. Cardinality(S) # 0
    BY <1>1
  <2> QED
    BY <2>1, FS_EmptySet
<1>4. ASSUME NEW R \in SUBSET S, R # {}
      PROVE  /\ Max(R) \in R /\ \A x \in R : Max(R) >= x
             /\ Min(R) \in R /\ \A x \in R : Min(R) <= x
  <2>1. R \in SUBSET (0..n)
    OBVIOUS
  <2> QED
    BY <1>4, <2>1, EndsAreIn
<1>5. T # {}
  <2> DEFINE m == Max(S)
  <2>1. m \in S /\ \A x \in S : m >= x
    BY <1>3, <1>4
  <2> HIDE DEF m
  <2>2. upTo(m) = S
    BY <2>1
  <2>3. f(m) = Cardinality(S)
    BY <2>2
  <2> HIDE DEF f
  <2>4. f(m) >= k
    BY <1>1, <2>3
  <2> QED
    BY <2>1, <2>4
<1>6. i \in T /\ \A x \in T : i <= x
  <2>1. T \in SUBSET S
    OBVIOUS
  <2> HIDE DEF T
  <2> QED
    BY <1>4, <1>5, <2>1
<1> HIDE DEF i
<1>7. i \in S /\ i \in 1..n /\ f(i) \in Nat /\ f(i) >= k
  BY <1>2, <1>6
<1>8. ASSUME f(i) # k
      PROVE  FALSE
  <2> DEFINE R == upTo(i) \ {i}
             m == Max(R)
  <2>1. i \in upTo(i)
    BY <1>7
  <2>2. Cardinality(R) = f(i) - 1
    <3> HIDE DEF upTo
    <3> QED
      BY <1>2, <2>1, FS_RemoveElement
  <2>3. Cardinality(R) >= k /\ Cardinality(R) # 0
    <3> HIDE DEF f, R
    <3> QED
      BY <1>1, <1>7, <1>8, <2>2
  <2>4. R # {}
    <3> HIDE DEF R
    <3> QED
      BY <2>3, FS_EmptySet
  <2>5. R \in SUBSET S
    OBVIOUS
  <2>6. m \in R /\ \A x \in R : m >= x
    <3> HIDE DEF R
    <3> QED
      BY <1>4, <2>4, <2>5
  <2> HIDE DEF m
  <2>7. m \in S /\ m \in 1..n /\ m < i
    BY <1>7, <2>6
  <2>8. upTo(m) = R
    <3>1. ASSUME NEW j \in S
          PROVE  j <= m <=> (j <= i /\ j # i)
      <4>1. j \in 1..n
        OBVIOUS
      <4>2. j <= i /\ j # i => j <= m
        BY <1>7, <2>6, <2>7, <4>1
      <4>3. j <= m => j <= i /\ j # i
        BY <1>7, <2>7, <4>1
      <4> QED
        BY <4>2, <4>3
    <3> QED
      BY <3>1
  <2>9. f(m) >= k
    BY <2>3, <2>8
  <2>10. m \in T
    <3> HIDE DEF f
    <3> QED
      BY <2>7, <2>9
  <2> HIDE DEF T
  <2> QED
    BY <1>6, <1>7, <2>7, <2>10
<1> QED
  BY <1>7, <1>8

\* Every heading of a document is on a line.
LEMMA HeadingIsOnLine ==
    ASSUME NEW d, d.text \in Docs
    PROVE  \A k \in DOMAIN CollectHeadings(d) : CollectHeadings(d)[k].line \in Nat
<1> DEFINE tree == TreeOf(d)
           blocks == Trees[d.text]
           tops == {i \in DOMAIN tree : tree[i].parent = 1 /\ tree[i].type = "Heading"}
           nth(k) == CHOOSE i \in tops : Cardinality({j \in tops : j <= i}) = k
           heading(block) == [line |-> block.start, level |-> block.level, title |-> Title(ExtractPlainText(block.spans))]
           n == Min({MaxItems, Cardinality(tops)})
<1>1. tree = [i \in DOMAIN blocks |-> [blocks[i] EXCEPT !.checked = @ # (blocks[i].task \in d.flips)]]
  BY DEF TreeOf, Flipped
<1>2. \A i \in DOMAIN blocks : "start" \in DOMAIN blocks[i] /\ blocks[i].start \in Nat
  BY TreesAssumption
<1>3. DOMAIN blocks = 1..Len(blocks) /\ Len(blocks) \in Nat
  BY TreesAssumption, TextIs
<1> HIDE DEF blocks, tree
<1>4. DOMAIN tree = 1..Len(blocks)
  BY <1>1, <1>3
<1>5. ASSUME NEW i \in DOMAIN tree
      PROVE  tree[i].start \in Nat
  <2>1. i \in DOMAIN blocks
    BY <1>3, <1>4
  <2> DEFINE b == blocks[i]
             t == [b EXCEPT !.checked = @ # (b.task \in d.flips)]
  <2>2. tree[i] = t
    BY <1>1, <2>1
  <2>3. "start" \in DOMAIN b /\ b.start \in Nat
    BY <1>2, <2>1
  <2> HIDE DEF b
  <2>4. t.start = b.start
    BY <2>3
  <2> QED
    BY <2>2, <2>3, <2>4
<1>6. tops \in SUBSET (1..Len(blocks))
  BY <1>4
<1>7. Cardinality(tops) \in Nat
  <2> HIDE DEF tops
  <2> QED
    <3>1. IsFiniteSet(1..Len(blocks))
      BY <1>3, FS_Interval
    <3>2. IsFiniteSet(tops)
      BY <1>6, <3>1, FS_Subset
    <3> QED
      BY <3>2, FS_CardinalityType
<1>8. n \in Int /\ n <= Cardinality(tops)
  <2> HIDE DEF tops
  <2>1. MaxItems \in Int
    BY PreviewAssumption
  <2> QED
    BY <1>7, <2>1, LesserOfTwo
<1>9. CollectHeadings(d) = [k \in 1..n |-> heading(tree[nth(k)])]
  BY DEF CollectHeadings, HeadingsOf, tree
<1>10. ASSUME NEW k \in 1..n
       PROVE  nth(k) \in DOMAIN tree
  <2>1. k \in 1..Cardinality(tops)
    <3> HIDE DEF n, tops
    <3> QED
      BY <1>7, <1>8
  <2>2. \E i \in tops : Cardinality({j \in tops : j <= i}) = k
    <3> HIDE DEF tops
    <3> QED
      BY <1>3, <1>6, <2>1, NthIs
  <2>3. nth(k) \in tops
    <3> HIDE DEF tops
    <3> QED
      BY <2>2
  <2> HIDE DEF nth
  <2> QED
    BY <2>3
<1> HIDE DEF n, nth, tops
<1> QED
  BY <1>5, <1>9, <1>10

-----------------------------------------------------------------------------
(* What the view remembers. *)

\* Only tasks of the text are toggled in it.
FlipsInv == \A d \in {doc, shown} \cup Range(parsing) : d.flips \subseteq TasksOf(d.text)

\* A layout of the tree of a text, at some width, but for the tasks that were toggled since.
HasTextsOf(lay, d) == \A w \in Widths : SameTexts(lay, ComputeLayout(TreeOf(d), w))
HasTasksOf(lay, d) == \A b \in DOMAIN lay.boxes : lay.boxes[b].task \in TasksOf(d.text) \cup {NoSource}
LaysOut(lay, d) == IsLayout(lay) /\ HasTextsOf(lay, d) /\ HasTasksOf(lay, d)

LayoutInv == width \in Widths /\ LaysOut(layout, shown)

ScrollInv == scroll \in Nat /\ scroll = Clamped(layout, scroll)

LinesInv == \A k \in DOMAIN headings : headings[k].line \in Int

\* The selection is good in the layout, which is of the tree: so it stays good in any other layout of
\* the tree, and the lines of the outline, even of an older text, are somewhere in it.
LiveInv == FlipsInv /\ LayoutInv /\ ScrollInv /\ LinesInv /\ GoodSel(layout, sel)

\* A text is laid out at any width.
LEMMA LaidOut ==
    ASSUME NEW d, d.text \in Docs, d.flips \subseteq TasksOf(d.text), NEW w \in Widths
    PROVE  LaysOut(ComputeLayout(TreeOf(d), w), d)
<1>1. TreeOf(d) = Flipped(Trees[d.text], d.flips)
  BY DEF TreeOf
<1>2. d.flips \in SUBSET TasksOf(d.text)
  OBVIOUS
<1>3. IsLayout(ComputeLayout(TreeOf(d), w))
  BY <1>1, <1>2, LayoutsAssumption, Zenon
<1>4. HasTasksOf(ComputeLayout(TreeOf(d), w), d)
  BY <1>1, <1>2, LayoutsAssumption, Zenon DEF HasTasksOf
<1>5. HasTextsOf(ComputeLayout(TreeOf(d), w), d)
  BY <1>1, <1>2, LayoutsAssumption, Zenon DEF HasTextsOf
<1> QED
  BY <1>3, <1>4, <1>5 DEF LaysOut

\* A layout has the texts of itself.
LEMMA SameTextsIs ==
    ASSUME NEW lay
    PROVE  SameTexts(lay, lay)
  BY DEF SameTexts

\* Another layout of the same tree has the same texts.
LEMMA RelayoutIs ==
    ASSUME TextsInv, FlipsInv, LayoutInv, NEW w \in Widths, RelayoutTo(w), shown' = shown
    PROVE  LayoutInv' /\ SameTexts(layout, layout')
<1>1. width' = w /\ layout' = IF w = width THEN layout ELSE ComputeLayout(TreeOf(shown), w)
  BY DEF RelayoutTo
<1>2. \A lay : LaysOut(lay, shown') <=> LaysOut(lay, shown)
  OBVIOUS
<1>3. CASE layout' = layout
  BY <1>1, <1>2, <1>3, SameTextsIs DEF LayoutInv
<1>4. CASE layout' = ComputeLayout(TreeOf(shown), w)
  <2>1. shown.text \in Docs /\ shown.flips \subseteq TasksOf(shown.text)
    BY DEF TextsInv, FlipsInv
  <2>2. LaysOut(layout', shown)
    BY <1>4, <2>1, LaidOut
  <2>3. SameTexts(layout, layout')
    BY <1>4 DEF LayoutInv, LaysOut, HasTextsOf
  <2>4. LayoutInv'
    BY <1>1, <1>2, <2>2 DEF LayoutInv
  <2> QED
    BY <2>3, <2>4
<1> QED
  BY <1>1, <1>3, <1>4

\* The view scrolls to somewhere in the document.
LEMMA ScrollIs ==
    ASSUME IsLayout(layout'), NEW y \in Int, scroll' = Clamped(layout', y)
    PROVE  ScrollInv'
<1>1. layout'.total \in Int
  BY DEF IsLayout
<1> QED
  BY <1>1, ClampedIs DEF ScrollInv

\* ... to some line.
LEMMA ToLineIs ==
    ASSUME IsLayout(layout'), NEW line \in Int, scroll' = ScrollToLine(layout', line)
    PROVE  ScrollInv'
<1>1. GetScrollYForLine(SyncBlocks(layout'), line) \in Int
  BY BlocksAre, HeightIs
<1>2. scroll' = Clamped(layout', GetScrollYForLine(SyncBlocks(layout'), line))
  BY DEF ScrollToLine
<1> QED
  BY <1>1, <1>2, ScrollIs

\* The view stays where it is in a document that is as long.
LEMMA StillIs ==
    ASSUME ScrollInv, scroll' = scroll, layout'.total = layout.total
    PROVE  ScrollInv'
  BY DEF ScrollInv, Clamped

\* Nothing but what is selected changes.
LEMMA MouseKeeps ==
    ASSUME LiveInv, MouseOnly, GoodSel(layout, sel')
    PROVE  LiveInv'
<1>1. UNCHANGED <<doc, shown, parsing, layout, width, scroll, headings>>
  BY DEF MouseOnly, docVars, paneVars, outlineVars
<1>2. FlipsInv' /\ LayoutInv' /\ ScrollInv' /\ LinesInv'
  <2>1. FlipsInv'
    BY <1>1 DEF LiveInv, FlipsInv
  <2>2. LayoutInv'
    BY <1>1 DEF LiveInv, LayoutInv
  <2>3. ScrollInv' /\ LinesInv'
    BY <1>1 DEF LiveInv, ScrollInv, LinesInv
  <2> QED
    BY <2>1, <2>2, <2>3
<1> QED
  BY <1>1, <1>2 DEF LiveInv

\* What is pressed is let go: the rest of the selection is as good.
LEMMA PlainIs ==
    ASSUME NEW lay, NEW s, GoodSel(lay, s)
    PROVE  /\ GoodSel(lay, NothingPressed(s))
           /\ NothingPressed(s).url = NoUrl /\ NothingPressed(s).task = NoSource
<1> DEFINE t == NothingPressed(s)
<1>1. Has(t, s.anchor, s.focus, s.range, s.mode, NoUrl, NoSource)
  BY PressedNothing DEF GoodSel
<1> HIDE DEF t
<1>2. IsSel(t) /\ t.anchor = s.anchor /\ t.focus = s.focus /\ t.range = s.range /\ t.mode = s.mode /\ t.url = NoUrl /\ t.task = NoSource
  BY <1>1 DEF Has
<1>3. GoodStart(lay, t) /\ GoodEnds(lay, t)
  BY <1>2, SameIsGood DEF GoodSel
<1>4. GoodSel(lay, t)
  BY <1>2, <1>3, NothingIsLive DEF GoodSel
<1> QED
  BY <1>2, <1>4 DEF t

-----------------------------------------------------------------------------
(* The steps of the window keep what the view remembers. *)

\* No other text, no other task.
LEMMA FlipsStay ==
    ASSUME FlipsInv, UNCHANGED <<doc, shown, parsing>>
    PROVE  FlipsInv'
  BY DEF FlipsInv

\* The same layout of the same tree.
LEMMA LayoutStays ==
    ASSUME LayoutInv, UNCHANGED <<shown, layout, width>>
    PROVE  LayoutInv'
  BY DEF LayoutInv

\* The same place in the same layout.
LEMMA ScrollStays ==
    ASSUME ScrollInv, UNCHANGED <<layout, scroll>>
    PROVE  ScrollInv'
  BY DEF ScrollInv

\* The headings of a visible panel are those of a text.
LEMMA LinesAre ==
    ASSUME TextsInv', OutlineInv', LinesInv, showOutline' \/ headings' = headings
    PROVE  LinesInv'
<1>1. CASE showOutline'
  <2>1. headings' = CollectHeadings(shown')
    BY <1>1 DEF OutlineInv
  <2>2. shown'.text \in Docs
    BY DEF TextsInv
  <2>3. \A k \in DOMAIN CollectHeadings(shown') : CollectHeadings(shown')[k].line \in Nat
    BY <2>2, HeadingIsOnLine
  <2> QED
    BY <2>1, <2>3 DEF LinesInv
<1>2. CASE headings' = headings
  BY <1>2 DEF LinesInv
<1> QED
  BY <1>1, <1>2

\* What changes neither a text nor the view.
LEMMA ViewStays ==
    ASSUME LiveInv, FlipsInv', LinesInv', UNCHANGED <<shown, paneVars, sel, scroll>>
    PROVE  LiveInv'
<1>1. UNCHANGED <<layout, width, shown, sel, scroll>>
  BY DEF paneVars
<1>2. LayoutInv' /\ ScrollInv'
  BY <1>1, LayoutStays, ScrollStays DEF LiveInv
<1> QED
  BY <1>1, <1>2 DEF LiveInv

\* What only scrolls the view.
LEMMA ScrollKeeps ==
    ASSUME LiveInv, UNCHANGED <<doc, shown, parsing, layout, width, sel, headings>>, ScrollInv'
    PROVE  LiveInv'
<1>1. FlipsInv' /\ LayoutInv'
  BY FlipsStay, LayoutStays DEF LiveInv
<1>2. LinesInv'
  BY DEF LiveInv, LinesInv
<1> QED
  BY <1>1, <1>2 DEF LiveInv

\* The view goes to the line of a heading.
LEMMA NavigateKeeps ==
    ASSUME LiveInv, UNCHANGED <<doc, shown, parsing, layout, width, sel, headings>>, NEW line \in Int, NavigateToLine(line)
    PROVE  LiveInv'
<1>1. IsLayout(layout')
  BY DEF LiveInv, LayoutInv, LaysOut
<1>2. CASE line = 0
  BY <1>2, ScrollStays, ScrollKeeps DEF NavigateToLine, LiveInv
<1>3. CASE line # 0
  <2>1. scroll' = ScrollToLine(layout', line)
    BY <1>3 DEF NavigateToLine
  <2> QED
    BY <1>1, <2>1, ToLineIs, ScrollKeeps
<1> QED
  BY <1>2, <1>3

\* A text that is typed has no task that was toggled.
LEMMA TypeKeepsLive == ASSUME PreviewInv, LiveInv, NEW text, Type(text) PROVE LiveInv'
<1>1. doc' = [text |-> text, flips |-> {}] /\ UNCHANGED <<shown, parsing, paneVars, sel, scroll, headings>>
  BY DEF Type, outlineVars
<1>2. FlipsInv'
  BY <1>1 DEF LiveInv, FlipsInv
<1>3. LinesInv'
  BY <1>1 DEF LiveInv, LinesInv
<1> QED
  BY <1>1, <1>2, <1>3, ViewStays

\* The text on its way is the editor's.
LEMMA ReparseKeepsLive == ASSUME PreviewInv, LiveInv, HandleReparse PROVE LiveInv'
<1>1. parsing' = Append(parsing, doc) /\ UNCHANGED <<doc, shown, paneVars, sel, scroll, headings>>
  BY DEF HandleReparse, outlineVars
<1>2. parsing \in Seq(Range(parsing))
  BY DEF PreviewInv, TextsInv
<1>3. Range(parsing') \subseteq Range(parsing) \cup {doc}
  BY <1>1, <1>2 DEF Range
<1>4. FlipsInv'
  BY <1>1, <1>3 DEF LiveInv, FlipsInv
<1>5. LinesInv'
  BY <1>1 DEF LiveInv, LinesInv
<1> QED
  BY <1>1, <1>4, <1>5, ViewStays

\* The positions of the tree before mean nothing in this one, and are forgotten.
LEMMA ForgottenIs ==
    ASSUME NEW s, IsSel(s), NEW lay
    PROVE  GoodSel(lay, ForNewTree(s))
<1> DEFINE t == MouseEnded(s)
           u == [t EXCEPT !.anchor = Origin, !.focus = Origin, !.range = <<Origin, Origin>>]
<1>1. IsSel(t)
  BY EndedIs DEF Has
<1>2. u = [t EXCEPT !.range = <<Origin, Origin>>, !.anchor = Origin, !.focus = Origin]
  BY Zenon
<1> HIDE DEF t
<1>3. Has([t EXCEPT !.range = <<Origin, Origin>>, !.anchor = Origin, !.focus = Origin], Origin, Origin, <<Origin, Origin>>, t.mode, t.url, t.task)
  BY <1>1, RangedIs
<1>4. Has(u, Origin, Origin, <<Origin, Origin>>, t.mode, t.url, t.task)
  BY <1>2, <1>3
<1> HIDE DEF u
<1> DEFINE w == NothingPressed(u)
<1>5. Has(w, Origin, Origin, <<Origin, Origin>>, t.mode, NoUrl, NoSource)
  BY <1>4, PressedNothing DEF Has
<1>6. ForNewTree(s) = w
  BY DEF ForNewTree, w, u, t
<1> HIDE DEF w
<1>7. IsSel(w) /\ w.anchor = Origin /\ w.focus = Origin /\ w.range[1] = Origin /\ w.range[2] = Origin /\ w.url = NoUrl /\ w.task = NoSource
  BY <1>5 DEF Has
<1>8. GoodPosition(lay, Origin)
  BY OriginIs
<1>9. ~Before(Origin, Origin)
  BY DEF Before, Origin, Pos
<1>10. GoodStart(lay, w) /\ GoodEnds(lay, w)
  BY <1>7, <1>8, <1>9 DEF GoodStart, GoodEnds
<1> QED
  BY <1>6, <1>7, <1>10, NothingIsLive DEF GoodSel

\* A tree that arrives is laid out.
LEMMA TreeKeepsLive == ASSUME PreviewInv, PreviewInv', LiveInv, NEW k \in DOMAIN parsing, TreeArrives(k) PROVE LiveInv'
<1>1. /\ shown' = parsing[k] /\ parsing' = SubSeq(parsing, k + 1, Len(parsing)) /\ doc' = doc /\ width' = width
      /\ layout' = ComputeLayout(TreeOf(parsing[k]), width) /\ sel' = ForNewTree(sel) /\ scroll' = Clamped(layout', scroll)
      /\ showOutline' = showOutline
  BY DEF TreeArrives
<1>2. parsing \in Seq(Range(parsing)) /\ parsing[k] \in Range(parsing) /\ parsing[k].text \in Docs
  BY DEF PreviewInv, TextsInv, Range
<1>3. Range(parsing') \subseteq Range(parsing)
  <2>1. parsing' \in Seq(Range(parsing))
    BY <1>1, <1>2
  <2> QED
    BY <2>1 DEF Range
<1>4. FlipsInv'
  BY <1>1, <1>2, <1>3 DEF LiveInv, FlipsInv
<1>5. parsing[k].flips \subseteq TasksOf(parsing[k].text) /\ width \in Widths
  BY <1>2 DEF LiveInv, FlipsInv, LayoutInv
<1>6. LayoutInv'
  <2>1. LaysOut(layout', shown')
    BY <1>1, <1>2, <1>5, LaidOut
  <2> QED
    BY <1>1, <1>5, <2>1 DEF LayoutInv
<1>7. ScrollInv'
  <2>1. IsLayout(layout') /\ scroll \in Int
    BY <1>6 DEF LayoutInv, LaysOut, LiveInv, ScrollInv
  <2> QED
    BY <1>1, <2>1, ScrollIs
<1>8. LinesInv'
  <2>1. headings' = headings \/ showOutline'
    BY <1>1 DEF TreeArrives, PanelBecomes, Panel
  <2> QED
    BY <2>1, LinesAre DEF PreviewInv, LiveInv
<1>9. GoodSel(layout', sel')
  BY <1>1, ForgottenIs DEF LiveInv, GoodSel
<1> QED
  BY <1>4, <1>6, <1>7, <1>8, <1>9 DEF LiveInv

-----------------------------------------------------------------------------
(* ... and the steps of the mouse. *)

\* A selection with the same ends, and what is pressed in it.
LEMMA PartsAreGood ==
    ASSUME NEW lay, NEW s, NEW t, GoodStart(lay, s), GoodEnds(lay, s), NEW url, NEW task,
           Has(t, s.anchor, s.focus, s.range, s.mode, url, task), GoodTask(lay, task), GoodLink(lay, url)
    PROVE  GoodSel(lay, t)
<1>1. IsSel(t) /\ t.anchor = s.anchor /\ t.focus = s.focus /\ t.range = s.range /\ t.mode = s.mode /\ t.url = url /\ t.task = task
  BY DEF Has
<1>2. GoodStart(lay, t) /\ GoodEnds(lay, t)
  BY <1>1, SameIsGood
<1> QED
  BY <1>1, <1>2 DEF GoodSel

\* The button goes down on a place: a drag begins, or has its button.
LEMMA DownIs ==
    ASSUME NEW lay, NEW s, GoodSel(lay, s), NEW dragging
    PROVE  GoodSel(lay, [s EXCEPT !.down = TRUE, !.dragging = dragging])
<1> DEFINE t == [s EXCEPT !.down = TRUE]
           u == [t EXCEPT !.dragging = dragging]
<1>1. Has(t, s.anchor, s.focus, s.range, s.mode, s.url, s.task)
  BY SelWith DEF GoodSel
<1>2. GoodSel(lay, t)
  BY <1>1, PartsAreGood DEF GoodSel
<1>3. u = [s EXCEPT !.down = TRUE, !.dragging = dragging]
  BY Zenon
<1> HIDE DEF t
<1>4. Has(u, t.anchor, t.focus, t.range, t.mode, t.url, t.task)
  BY <1>2, SelWith DEF GoodSel
<1>5. GoodSel(lay, u)
  BY <1>2, <1>4, PartsAreGood DEF GoodSel
<1> QED
  BY <1>3, <1>5, Zenon

\* ... and the second press of a double click is remembered.
LEMMA TwiceDownIs ==
    ASSUME NEW lay, NEW s, GoodSel(lay, s)
    PROVE  GoodSel(lay, [s EXCEPT !.down = TRUE, !.dragging = TRUE, !.recent = TRUE])
<1> DEFINE t == [s EXCEPT !.down = TRUE, !.dragging = TRUE]
           u == [t EXCEPT !.recent = TRUE]
<1>1. GoodSel(lay, t)
  BY DownIs
<1>2. u = [s EXCEPT !.down = TRUE, !.dragging = TRUE, !.recent = TRUE]
  BY Zenon
<1> HIDE DEF t
<1>3. Has(u, t.anchor, t.focus, t.range, t.mode, t.url, t.task)
  BY <1>1, SelWith DEF GoodSel
<1>4. GoodSel(lay, u)
  BY <1>1, <1>3, PartsAreGood DEF GoodSel
<1> QED
  BY <1>2, <1>4, Zenon

\* What a press begins is good in the layout that was pressed.
LEMMA BegunIs ==
    ASSUME LiveInv, NEW s, IsSel(s), GoodTask(layout, s.task), GoodLink(layout, s.url),
           NEW p \in Points, NEW mode, NEW extend \in BOOLEAN
    PROVE  GoodSel(layout, BeginSelection(s, RangeAt(mode, p), mode, extend))
<1> DEFINE target == RangeAt(mode, p)
           t == BeginSelection(s, target, mode, extend)
<1>1. IsLayout(layout) /\ GoodPosition(layout, sel.anchor)
  BY DEF LiveInv, LayoutInv, LaysOut, GoodSel, GoodEnds
<1>2. p.x \in Int /\ p.y \in Int
  BY <1>1, PointIs
<1>3. /\ GoodRange(layout, target)
      /\ mode = "Word" /\ layout.units # <<>> => AtWord(layout, target[1]) /\ AtWord(layout, target[2])
  BY <1>1, <1>2, RangeAtIs
<1> HIDE DEF target
<1>4. IsSel(t) /\ GoodStart(layout, t) /\ GoodEnds(layout, t) /\ t.url = s.url /\ t.task = s.task
  BY <1>1, <1>3, BeginIs
<1> HIDE DEF t
<1>5. GoodSel(layout, t)
  BY <1>4 DEF GoodSel
<1> QED
  BY <1>5 DEF t, target

\* A box that is pressed is one of the layout.
LEMMA BoxPressed ==
    ASSUME LiveInv, NEW p
    PROVE  GoodSel(layout, [NothingPressed(sel) EXCEPT !.task = TaskAt(p)])
<1> DEFINE plain == NothingPressed(sel)
           t == [plain EXCEPT !.task = TaskAt(p)]
<1>1. GoodSel(layout, plain) /\ plain.url = NoUrl
  BY PlainIs DEF LiveInv
<1>2. GoodTask(layout, TaskAt(p))
  BY TaskAtIs DEF LiveInv, LayoutInv, LaysOut
<1> HIDE DEF plain
<1>3. Has(t, plain.anchor, plain.focus, plain.range, plain.mode, plain.url, TaskAt(p))
  BY <1>1, SelWith DEF GoodSel
<1>4. GoodSel(layout, t)
  BY <1>1, <1>2, <1>3, PartsAreGood DEF GoodSel
<1> QED
  BY <1>4 DEF t, plain

\* A press on a box, on a link, or on a text.
LEMMA PressKeepsLive ==
    ASSUME LiveInv, NEW p \in Points, NEW shift \in BOOLEAN, NEW soon, Press(p, shift, soon)
    PROVE  LiveInv'
<1> DEFINE triple == sel.recent /\ soon
           mode == IF triple THEN "Unit" ELSE "Character"
           plain == NothingPressed(sel)
           onLink == [plain EXCEPT !.url = HitTestLink(layout, p.x, p.y)]
           begun == BeginSelection(onLink, RangeAt(mode, p), mode, shift)
           dragging == triple \/ shift
<1>1. MouseOnly /\ sel' = IF TaskAt(p) # NoSource THEN [plain EXCEPT !.task = TaskAt(p)]
                          ELSE [begun EXCEPT !.down = TRUE, !.dragging = dragging]
  BY Zenon DEF Press
<1>2. GoodSel(layout, [plain EXCEPT !.task = TaskAt(p)])
  BY BoxPressed
<1>3. GoodSel(layout, plain) /\ plain.task = NoSource
  BY PlainIs DEF LiveInv
<1>4. GoodLink(layout, HitTestLink(layout, p.x, p.y))
  BY LinkIs DEF LiveInv, LayoutInv, LaysOut
<1> HIDE DEF plain
<1> DEFINE url == HitTestLink(layout, p.x, p.y)
<1> HIDE DEF url
<1>a. Has(onLink, plain.anchor, plain.focus, plain.range, plain.mode, url, plain.task)
  <2>1. IsSel(plain) /\ onLink = [plain EXCEPT !.url = url]
    BY <1>3 DEF GoodSel, url
  <2> HIDE DEF onLink
  <2>2. Has([plain EXCEPT !.url = url], plain.anchor, plain.focus, plain.range, plain.mode, url, plain.task)
    BY <2>1, SelWith
  <2> QED
    BY <2>1, <2>2
<1> HIDE DEF onLink
<1>5. IsSel(onLink) /\ onLink.url = url /\ onLink.task = NoSource
  BY <1>3, <1>a DEF Has
<1>6. GoodTask(layout, onLink.task) /\ GoodLink(layout, onLink.url)
  BY <1>4, <1>5, NothingIsLive DEF url
<1> HIDE DEF mode
<1>7. GoodSel(layout, begun)
  BY <1>5, <1>6, BegunIs
<1> HIDE DEF begun, dragging
<1>8. GoodSel(layout, [begun EXCEPT !.down = TRUE, !.dragging = dragging])
  BY <1>7, DownIs
<1>9. GoodSel(layout, sel')
  BY <1>1, <1>2, <1>8
<1> QED
  BY <1>1, <1>9, MouseKeeps

\* The second press of a double click selects a word.
LEMMA DoublePressKeepsLive == ASSUME LiveInv, NEW p \in Points, DoublePress(p) PROVE LiveInv'
<1> DEFINE plain == NothingPressed(sel)
           begun == BeginSelection(plain, RangeAt("Word", p), "Word", FALSE)
<1>1. MouseOnly /\ sel' = IF TaskAt(p) # NoSource THEN [plain EXCEPT !.task = TaskAt(p)]
                          ELSE [begun EXCEPT !.down = TRUE, !.dragging = TRUE, !.recent = TRUE]
  BY Zenon DEF DoublePress
<1>2. GoodSel(layout, [plain EXCEPT !.task = TaskAt(p)])
  BY BoxPressed
<1>3. GoodSel(layout, plain)
  BY PlainIs DEF LiveInv
<1> HIDE DEF plain
<1>4. GoodSel(layout, begun)
  BY <1>3, BegunIs DEF GoodSel
<1> HIDE DEF begun
<1>5. GoodSel(layout, sel')
  BY <1>1, <1>2, <1>4, TwiceDownIs
<1> QED
  BY <1>1, <1>5, MouseKeeps

\* A drag goes on from the range it began with.
LEMMA MoveKeepsLive == ASSUME LiveInv, NEW p \in Points, Move(p) PROVE LiveInv'
<1> DEFINE t == [sel EXCEPT !.dragging = TRUE]
           u == [t EXCEPT !.url = NoUrl]
           s == IF sel.dragging THEN sel ELSE u
           target == RangeAt(sel.mode, p)
           e == ExtendSelection(s, target)
<1>1. u = [sel EXCEPT !.dragging = TRUE, !.url = NoUrl]
  BY Zenon
<1>2. MouseOnly /\ sel' = e
  BY <1>1, Zenon DEF Move
<1>3. GoodSel(layout, sel)
  BY DEF LiveInv
<1>4. Has(t, sel.anchor, sel.focus, sel.range, sel.mode, sel.url, sel.task)
  BY <1>3, SelWith DEF GoodSel
<1>5. GoodSel(layout, t) /\ t.mode = sel.mode
  BY <1>3, <1>4, PartsAreGood DEF GoodSel, Has
<1> HIDE DEF t
<1>6. Has(u, t.anchor, t.focus, t.range, t.mode, NoUrl, t.task)
  BY <1>5, SelWith DEF GoodSel
<1>7. GoodSel(layout, u) /\ u.mode = sel.mode
  BY <1>5, <1>6, PartsAreGood, NothingIsLive DEF GoodSel, Has
<1> HIDE DEF u
<1>8. GoodSel(layout, s) /\ s.mode = sel.mode
  BY <1>3, <1>7
<1> HIDE DEF s
<1>9. IsLayout(layout)
  BY DEF LiveInv, LayoutInv, LaysOut
<1>10. p.x \in Int /\ p.y \in Int
  BY <1>9, PointIs
<1>11. /\ GoodRange(layout, target)
       /\ sel.mode = "Word" /\ layout.units # <<>> => AtWord(layout, target[1]) /\ AtWord(layout, target[2])
  BY <1>9, <1>10, RangeAtIs
<1> HIDE DEF target
<1>12. IsSel(e) /\ GoodStart(layout, e) /\ GoodEnds(layout, e) /\ e.url = s.url /\ e.task = s.task
  BY <1>8, <1>9, <1>11, ExtendIs DEF GoodSel
<1> HIDE DEF e
<1>13. GoodSel(layout, sel')
  BY <1>2, <1>8, <1>12 DEF GoodSel
<1> QED
  BY <1>2, <1>13, MouseKeeps

\* What is pressed is let go, and the button with it.
LEMMA ReleasedIs ==
    ASSUME NEW lay, NEW s, GoodSel(lay, s)
    PROVE  /\ GoodSel(lay, NothingPressed(MouseEnded(s)))
           /\ NothingPressed(MouseEnded(s)).url = NoUrl /\ NothingPressed(MouseEnded(s)).task = NoSource
<1>1. GoodSel(lay, MouseEnded(s))
  BY EndedIs, PartsAreGood DEF GoodSel
<1> QED
  BY <1>1, PlainIs

\* A selection with nothing pressed in it is as good in any layout of the same texts.
LEMMA SameSel ==
    ASSUME NEW lay, IsLayout(lay), NEW other, SameTexts(lay, other), NEW s, GoodSel(lay, s), s.url = NoUrl, s.task = NoSource
    PROVE  GoodSel(other, s)
<1>1. GoodStart(other, s) /\ GoodEnds(other, s)
  BY SameEnds DEF GoodSel
<1> QED
  BY <1>1, NothingIsLive DEF GoodSel

\* Only a task of the text is toggled in it: its box is in the layout, and the layout is of the text.
LEMMA FlipIs ==
    ASSUME PreviewInv, LiveInv, Current, NEW b \in DOMAIN layout.boxes, layout.boxes[b].task # NoSource,
           NEW mark, mark = layout.boxes[b].task, NEW flipped,
           flipped = IF mark \in doc.flips THEN doc.flips \ {mark} ELSE doc.flips \cup {mark},
           doc' = [doc EXCEPT !.flips = flipped], UNCHANGED <<shown, parsing>>
    PROVE  FlipsInv'
<1>1. doc = shown
  BY CurrentIsShown DEF PreviewInv
<1>2. mark \in TasksOf(doc.text)
  BY <1>1 DEF LiveInv, LayoutInv, LaysOut, HasTasksOf
<1>3. doc.flips \subseteq TasksOf(doc.text)
  BY DEF LiveInv, FlipsInv
<1>4. doc'.text = doc.text /\ doc'.flips = flipped
  BY DEF PreviewInv, TextsInv
<1>5. doc'.flips \subseteq TasksOf(doc'.text)
  BY <1>2, <1>3, <1>4
<1> QED
  BY <1>5 DEF LiveInv, FlipsInv

\* The box of a task changes, and no text with it.
LEMMA ToggledIs ==
    ASSUME LayoutInv, NEW mark, NEW checked, layout' = SetTaskChecked(layout, mark, checked), UNCHANGED <<shown, width>>
    PROVE  LayoutInv' /\ SameTexts(layout, layout') /\ layout'.total = layout.total
<1> DEFINE t == SetTaskChecked(layout, mark, checked)
<1>1. IsLayout(layout) /\ HasTextsOf(layout, shown) /\ HasTasksOf(layout, shown)
  BY DEF LayoutInv, LaysOut
<1>2. /\ IsLayout(t) /\ t.total = layout.total /\ DOMAIN t.boxes = DOMAIN layout.boxes
      /\ \A b \in DOMAIN layout.boxes : t.boxes[b].task = layout.boxes[b].task
      /\ DOMAIN t.units = DOMAIN layout.units /\ \A u \in DOMAIN layout.units : TextOf(t, u) = TextOf(layout, u)
  BY <1>1, SetTaskIs
<1>3. layout' = t
  OBVIOUS
<1> HIDE DEF t
<1>4. HasTextsOf(t, shown)
  BY <1>1, <1>2 DEF HasTextsOf, SameTexts
<1>5. HasTasksOf(t, shown)
  BY <1>1, <1>2 DEF HasTasksOf
<1>6. LaysOut(layout', shown')
  BY <1>2, <1>3, <1>4, <1>5 DEF LaysOut
<1>7. SameTexts(layout, layout')
  BY <1>2, <1>3 DEF SameTexts
<1> QED
  BY <1>2, <1>3, <1>6, <1>7 DEF LayoutInv

\* A release opens a link or toggles a task, of the layout that was pressed.
LEMMA ReleaseKeepsLive == ASSUME PreviewInv, LiveInv, NEW p, Release(p) PROVE LiveInv'
<1> DEFINE plain == NothingPressed(MouseEnded(sel))
           mark == sel.task
           onTask == mark # NoSource /\ TaskAt(p) = mark
<1>1. /\ sel' = plain /\ UNCHANGED <<parsing, shown, width, headings>>
      /\ (onTask /\ ToggleTask(mark)) \/ UNCHANGED <<doc, layout>>
      /\ (~onTask /\ OpenLink(sel.url)) \/ scroll' = scroll
  BY DEF Release, outlineVars
<1>2. GoodSel(layout, plain) /\ plain.url = NoUrl /\ plain.task = NoSource
  BY ReleasedIs DEF LiveInv
<1>3. IsLayout(layout) /\ GoodTask(layout, mark)
  BY DEF LiveInv, LayoutInv, LaysOut, GoodSel
<1>4. LinesInv'
  BY <1>1 DEF LiveInv, LinesInv
<1> HIDE DEF plain
<1>5. CASE UNCHANGED <<doc, layout>>
  <2>1. FlipsInv' /\ LayoutInv'
    BY <1>1, <1>5, FlipsStay, LayoutStays DEF LiveInv
  <2>2. ScrollInv'
    <3>1. CASE scroll' = scroll
      BY <1>5, <3>1, ScrollStays DEF LiveInv
    <3>2. CASE scroll' = Clamped(layout, GetAnchorY(layout, sel.url) - 12) /\ GetAnchorY(layout, sel.url) # NoSource
      <4>1. GetAnchorY(layout, sel.url) \in Int
        BY <1>3, <3>2 DEF GetAnchorY, IsLayout, Range
      <4> QED
        BY <1>3, <1>5, <3>2, <4>1, ScrollIs
    <3> QED
      BY <1>1, <3>1, <3>2 DEF OpenLink
  <2>3. GoodSel(layout', sel')
    BY <1>1, <1>2, <1>5
  <2> QED
    BY <1>4, <2>1, <2>2, <2>3 DEF LiveInv
<1>6. CASE onTask /\ ToggleTask(mark) /\ Current
  <2>1. PICK b \in DOMAIN layout.boxes : layout.boxes[b].task = mark
    BY <1>3, <1>6 DEF GoodTask
  <2>2. PICK flipped, checked :
          /\ flipped = IF mark \in doc.flips THEN doc.flips \ {mark} ELSE doc.flips \cup {mark}
          /\ doc' = [doc EXCEPT !.flips = flipped] /\ layout' = SetTaskChecked(layout, mark, checked)
    BY <1>6, Zenon DEF ToggleTask
  <2>3. FlipsInv'
    BY <1>1, <1>6, <2>1, <2>2, FlipIs
  <2>4. LayoutInv' /\ SameTexts(layout, layout') /\ layout'.total = layout.total
    BY <1>1, <2>2, ToggledIs DEF LiveInv
  <2>5. ScrollInv'
    BY <1>1, <1>6, <2>4, StillIs DEF LiveInv
  <2>6. GoodSel(layout', sel')
    BY <1>1, <1>2, <1>3, <2>4, SameSel
  <2> QED
    BY <1>4, <2>3, <2>4, <2>5, <2>6 DEF LiveInv
<1>7. CASE onTask /\ ToggleTask(mark) /\ ~Current
  BY <1>5, <1>7 DEF ToggleTask
<1> QED
  BY <1>1, <1>5, <1>6, <1>7

\* The end of the capture ends the drag.
LEMMA LostKeepsLive == ASSUME LiveInv, CaptureLost PROVE LiveInv'
<1>1. GoodSel(layout, MouseEnded(sel))
  BY EndedIs, PartsAreGood DEF GoodSel, LiveInv
<1> QED
  BY <1>1, MouseKeeps DEF CaptureLost

\* A selection that is no drag's, between two places.
LEMMA BetweenIs ==
    ASSUME NEW lay, NEW s, GoodSel(lay, s), NEW a, NEW f, GoodPosition(lay, a), GoodPosition(lay, f)
    PROVE  GoodSel(lay, [s EXCEPT !.range = <<Origin, Origin>>, !.anchor = a, !.focus = f])
<1> DEFINE t == [s EXCEPT !.range = <<Origin, Origin>>, !.anchor = a, !.focus = f]
<1>1. Has(t, a, f, <<Origin, Origin>>, s.mode, s.url, s.task)
  BY RangedIs DEF GoodSel
<1> HIDE DEF t
<1>2. IsSel(t) /\ t.anchor = a /\ t.focus = f /\ t.range[1] = Origin /\ t.range[2] = Origin /\ t.url = s.url /\ t.task = s.task
  BY <1>1 DEF Has
<1>3. GoodPosition(lay, Origin) /\ ~Before(Origin, Origin)
  BY OriginIs DEF Before, Origin, Pos
<1>4. GoodStart(lay, t) /\ GoodEnds(lay, t)
  BY <1>2, <1>3 DEF GoodStart, GoodEnds
<1>5. GoodSel(lay, t)
  BY <1>2, <1>4 DEF GoodSel
<1> QED
  BY <1>5 DEF t

\* From the first text to the end of the last.
LEMMA AllKeepsLive == ASSUME LiveInv, SelectAll PROVE LiveInv'
<1>1. GoodPosition(layout, Origin) /\ GoodPosition(layout, DocumentEnd(layout))
  BY OriginIs, DocumentEndIs DEF LiveInv, LayoutInv, LaysOut
<1>2. GoodSel(layout, sel')
  BY <1>1, BetweenIs DEF SelectAll, LiveInv
<1> QED
  BY <1>2, MouseKeeps DEF SelectAll

\* The selection shrinks to its focus.
LEMMA ClearKeepsLive == ASSUME LiveInv, ClearSelection PROVE LiveInv'
<1> DEFINE f == sel.focus
           t == [sel EXCEPT !.anchor = f]
<1>1. GoodSel(layout, sel)
  BY DEF LiveInv
<1>2. Has(t, f, sel.focus, sel.range, sel.mode, sel.url, sel.task)
  BY <1>1, SelWith DEF GoodSel
<1>3. sel' = t /\ MouseOnly
  BY DEF ClearSelection
<1> HIDE DEF t
<1>4. /\ IsSel(t) /\ t.anchor = sel.focus /\ t.focus = sel.focus /\ t.range = sel.range /\ t.mode = sel.mode
      /\ t.url = sel.url /\ t.task = sel.task
  BY <1>2 DEF Has
<1>5. GoodStart(layout, t) /\ GoodEnds(layout, t)
  BY <1>1, <1>4 DEF GoodSel, GoodStart, GoodEnds
<1>6. GoodSel(layout, t)
  BY <1>1, <1>4, <1>5 DEF GoodSel
<1> QED
  BY <1>3, <1>6, MouseKeeps

-----------------------------------------------------------------------------
(* ... and the width, the editor, the search and the outline. *)

\* The narrowest of the widths.
LEMMA NarrowestIs == Min(Widths) \in Widths
<1>1. Widths \in SUBSET Nat /\ Widths # {}
  BY PreviewAssumption
<1>2. \E w \in Widths : \A v \in Widths : w <= v
  BY <1>1, LeastNatural
<1> QED
  BY <1>2 DEF Min

\* Another width, with nothing pressed.
LEMMA RelayoutKeeps ==
    ASSUME PreviewInv, LiveInv, NEW w \in Widths, RelayoutTo(w), UNCHANGED <<docVars, headings>>,
           NEW s, GoodSel(layout, s), s.url = NoUrl, s.task = NoSource, sel' = s, ScrollInv'
    PROVE  LiveInv'
<1>1. FlipsInv' /\ LinesInv'
  BY FlipsStay DEF LiveInv, LinesInv, docVars
<1>2. LayoutInv' /\ SameTexts(layout, layout')
  BY RelayoutIs DEF PreviewInv, LiveInv, docVars
<1>3. IsLayout(layout)
  BY DEF LiveInv, LayoutInv, LaysOut
<1>4. GoodSel(layout', s)
  BY <1>2, <1>3, SameSel
<1>5. GoodSel(layout', sel')
  BY <1>4
<1> QED
  BY <1>1, <1>2, <1>5 DEF LiveInv

\* The layout of the other width, to scroll in.
LEMMA RelayoutIsLayout ==
    ASSUME PreviewInv, LiveInv, NEW w \in Widths, RelayoutTo(w), shown' = shown
    PROVE  IsLayout(layout')
  BY RelayoutIs DEF PreviewInv, LiveInv, LayoutInv, LaysOut

\* The tree is laid out again, with the scroll position in it.
LEMMA ResizeKeepsLive == ASSUME PreviewInv, LiveInv, NEW w \in Widths, Resize(w) PROVE LiveInv'
<1>1. RelayoutTo(w) /\ UNCHANGED <<docVars, headings>> /\ sel' = NothingPressed(sel) /\ scroll' = Clamped(layout', scroll)
  BY DEF Resize, outlineVars
<1>2. GoodSel(layout, NothingPressed(sel)) /\ NothingPressed(sel).url = NoUrl /\ NothingPressed(sel).task = NoSource
  BY PlainIs DEF LiveInv
<1>3. ScrollInv'
  <2>1. IsLayout(layout') /\ scroll \in Int
    BY <1>1, RelayoutIsLayout DEF LiveInv, ScrollInv, docVars
  <2> QED
    BY <1>1, <2>1, ScrollIs
<1> QED
  BY <1>1, <1>2, <1>3, RelayoutKeeps

\* A hidden editor takes its room from the preview, which stays at its line.
LEMMA EditorShown ==
    ASSUME PreviewInv, LiveInv, NEW s, GoodSel(layout, s), ShowEditorForPreviewEdit(s), UNCHANGED <<docVars, headings>>
    PROVE  LiveInv'
<1>1. CASE previewOnly
  <2>1. /\ RelayoutTo(Min(Widths)) /\ sel' = NothingPressed(s)
        /\ scroll' = ScrollToLine(layout', GetLineForScrollY(SyncBlocks(layout), scroll))
    BY <1>1 DEF ShowEditorForPreviewEdit
  <2>2. GoodSel(layout, NothingPressed(s)) /\ NothingPressed(s).url = NoUrl /\ NothingPressed(s).task = NoSource
    BY PlainIs
  <2>3. ScrollInv'
    <3>1. IsLayout(layout) /\ IsLayout(layout') /\ scroll \in Int
      BY <2>1, NarrowestIs, RelayoutIsLayout DEF LiveInv, ScrollInv, LayoutInv, LaysOut, docVars
    <3>2. GetLineForScrollY(SyncBlocks(layout), scroll) \in Int
      BY <3>1, BlocksAre, LineIs
    <3> QED
      BY <2>1, <3>1, <3>2, ToLineIs
  <2> QED
    BY <2>1, <2>2, <2>3, NarrowestIs, RelayoutKeeps
<1>2. CASE ~previewOnly
  <2>1. width' = width /\ layout' = layout /\ sel' = s /\ scroll' = scroll
    BY <1>2 DEF ShowEditorForPreviewEdit, RelayoutTo
  <2>2. FlipsInv' /\ LayoutInv' /\ ScrollInv' /\ LinesInv'
    BY <2>1, FlipsStay, LayoutStays, ScrollStays DEF LiveInv, LinesInv, docVars
  <2>3. GoodSel(layout', sel')
    BY <2>1
  <2> QED
    BY <2>2, <2>3 DEF LiveInv
<1> QED
  BY <1>1, <1>2

\* A Ctrl+click and "Editar aqui" show the editor.
LEMMA EditKeepsLive == ASSUME PreviewInv, LiveInv, NEW p, PressCtrl(p) \/ EditHere(p) PROVE LiveInv'
<1>1. UNCHANGED <<docVars, headings>>
  BY DEF PressCtrl, EditHere, outlineVars
<1>2. ShowEditorForPreviewEdit(NothingPressed(sel)) \/ ShowEditorForPreviewEdit(sel)
  BY DEF PressCtrl, EditHere, EditAt
<1>3. GoodSel(layout, sel) /\ GoodSel(layout, NothingPressed(sel))
  BY PlainIs DEF LiveInv
<1> QED
  BY <1>1, <1>2, <1>3, EditorShown

\* What is found is selected, and is in the view.
LEMMA FindKeepsLive ==
    ASSUME LiveInv, NEW wholeWord \in BOOLEAN, NEW forward \in BOOLEAN, FindNext(wholeWord, forward)
    PROVE  LiveInv'
<1> DEFINE start == IF forward THEN Later(sel.anchor, sel.focus) ELSE Earlier(sel.anchor, sel.focus)
           match == FindText(layout, Needle, start, wholeWord, forward)
<1>1. SelectMatch(match) /\ UNCHANGED <<doc, shown, parsing, layout, width, headings>>
  BY DEF FindNext, docVars, paneVars, outlineVars
<1>2. IsLayout(layout) /\ GoodSel(layout, sel)
  BY DEF LiveInv, LayoutInv, LaysOut
<1>3. GoodPosition(layout, start)
  BY <1>2 DEF GoodSel, GoodEnds, Later, Earlier
<1>4. match # <<>>
  BY <1>1 DEF SelectMatch
<1> HIDE DEF start
<1>5. GoodMatch(layout, match)
  BY <1>2, <1>3, <1>4, FoundIs
<1> HIDE DEF match
<1> DEFINE u == match[1].unit
           view == ViewOf(layout, u)
           places == Places(view.text, view.width)
           rows == RowsOf(view, places, match)
<1>6. /\ GoodPosition(layout, match[1]) /\ GoodPosition(layout, match[2]) /\ u \in DOMAIN layout.units
      /\ match[1].offset \in 0..Len(TextOf(layout, u)) /\ match[2].offset \in 1..Len(TextOf(layout, u))
  BY <1>5 DEF GoodMatch, GoodRange
<1>7. sel' = [sel EXCEPT !.range = <<Origin, Origin>>, !.anchor = match[1], !.focus = match[2]]
  BY <1>1 DEF SelectMatch
<1>8. GoodSel(layout', sel')
  <2>1. GoodSel(layout, [sel EXCEPT !.range = <<Origin, Origin>>, !.anchor = match[1], !.focus = match[2]])
    BY <1>2, <1>6, BetweenIs
  <2> QED
    BY <1>1, <1>7, <2>1
<1>9. rows.top \in Int /\ rows.bottom \in Int
  <2>1. IsView(view) /\ view.text = TextOf(layout, u)
    BY <1>2, <1>6, UnitsAre
  <2>2. Len(view.text) \in Nat /\ match[1].offset + 1 \in 1..Len(view.text) + 1 /\ match[2].offset \in 1..Len(view.text) + 1
    BY <1>2, <1>6, <2>1, UnitsAre
  <2>3. view.y \in Int /\ ArePlaces(places, view.text)
    BY <2>1 DEF IsView
  <2> HIDE DEF view, u, places
  <2>4. places[match[1].offset + 1].row \in Nat /\ places[match[2].offset].row \in Nat
    BY <2>2, <2>3 DEF ArePlaces
  <2> QED
    BY <2>3, <2>4 DEF RowsOf, LineHeight
<1>10. scroll' = Revealed(rows)
  BY <1>1 DEF SelectMatch, RangeRows
<1> HIDE DEF rows, view, places, u
<1>11. ScrollInv'
  <2>1. CASE scroll' = scroll
    BY <1>1, <2>1, ScrollStays DEF LiveInv
  <2>2. CASE scroll' = Clamped(layout, rows.top - ViewHeight \div 3)
    <3>1. rows.top - ViewHeight \div 3 \in Int
      BY <1>9, PreviewAssumption
    <3>2. IsLayout(layout') /\ scroll' = Clamped(layout', rows.top - ViewHeight \div 3)
      BY <1>1, <1>2, <2>2
    <3> QED
      BY <3>1, <3>2, ScrollIs
  <2> QED
    BY <1>10, <2>1, <2>2 DEF Revealed
<1>12. FlipsInv' /\ LayoutInv' /\ LinesInv'
  BY <1>1, FlipsStay, LayoutStays DEF LiveInv, LinesInv
<1> QED
  BY <1>8, <1>11, <1>12 DEF LiveInv

\* A heading of the panel is on a line.
LEMMA HeadingLineIs ==
    ASSUME LinesInv, OutlineInv, NEW index
    PROVE  NavigateLine(index) \in Int
<1>1. CASE index \in 0..Len(headings) - 1
  <2>1. index + 1 \in DOMAIN headings
    BY <1>1 DEF OutlineInv, IsList
  <2> QED
    BY <1>1, <2>1 DEF NavigateLine, LinesInv
<1>2. CASE index \notin 0..Len(headings) - 1
  BY <1>2 DEF NavigateLine
<1> QED
  BY <1>1, <1>2

\* A heading that is clicked, or that a key selects, or that is taken from the menu, is gone to.
LEMMA GoneTo ==
    ASSUME PreviewInv, LiveInv, NEW item, HandlePosted \/ KeyToItem(item) \/ ShowOutlinePopup
    PROVE  LiveInv'
<1>1. UNCHANGED <<doc, shown, parsing, layout, width, sel, headings>>
  BY DEF HandlePosted, KeyToItem, ShowOutlinePopup, SelectItem, docVars, paneVars, outlineVars
<1>2. \A index : NavigateLine(index) \in Int
  BY HeadingLineIs DEF PreviewInv, LiveInv
<1>3. CASE HandlePosted \/ KeyToItem(item)
  BY <1>1, <1>2, <1>3, NavigateKeeps DEF HandlePosted, KeyToItem
<1>4. CASE ShowOutlinePopup
  <2>1. PICK k \in DOMAIN CollectHeadings(doc) : NavigateToLine(CollectHeadings(doc)[k].line)
    BY <1>4 DEF ShowOutlinePopup, Range
  <2>2. CollectHeadings(doc)[k].line \in Int
    BY HeadingIsOnLine DEF PreviewInv, TextsInv
  <2> QED
    BY <1>1, <2>1, <2>2, NavigateKeeps
<1> QED
  BY <1>3, <1>4

\* The view and the texts are left alone, and the panel is empty or of a text.
LEMMA PanelKeepsLive ==
    ASSUME PreviewInv', LiveInv, UNCHANGED <<docVars, paneVars, sel, scroll>>, showOutline' \/ headings' = headings
    PROVE  LiveInv'
<1>1. FlipsInv'
  BY FlipsStay DEF LiveInv, docVars
<1>2. LinesInv'
  BY LinesAre DEF PreviewInv, LiveInv
<1> QED
  BY <1>1, <1>2, ViewStays DEF docVars

\* The caret, the clipboard and the items of the panel leave the view alone.
LEMMA OthersKeepLive ==
    ASSUME PreviewInv', LiveInv, NEW line, NEW item,
           \/ CopySelection \/ CopyMarkdown \/ MoveCaret(line) \/ UpdateUi
           \/ ClickItem(item) \/ CollapseItem(item) \/ SetOutlineVisible \/ UNCHANGED vars
    PROVE  LiveInv'
<1>1. UNCHANGED <<docVars, paneVars, sel, scroll>>
  BY DEF CopySelection, CopyMarkdown, MoveCaret, UpdateUi, ClickItem, CollapseItem, SetOutlineVisible, PanelOnly, vars
<1>2. showOutline' \/ headings' = headings
  <2>1. CASE UpdateUi \/ SetOutlineVisible
    <3>1. CASE UpdateUi /\ ~showOutline
      <4>1. headings' = (IF showOutline THEN HighlightLine(Panel, CaretLine(doc, edit)) ELSE Panel).headings
        BY <3>1 DEF UpdateUi, PanelBecomes
      <4> QED
        BY <3>1, <4>1, Zenon DEF Panel
    <3>2. CASE SetOutlineVisible /\ showOutline
      <4>1. headings' = (IF showOutline THEN Panel
                         ELSE HighlightLine(SetHeadings(Panel, CollectHeadings(shown)), CaretLine(doc, edit))).headings
        BY <3>2 DEF SetOutlineVisible, PanelBecomes
      <4> QED
        BY <3>2, <4>1, Zenon DEF Panel
    <3>3. UpdateUi => (showOutline' <=> showOutline)
      BY DEF UpdateUi
    <3>4. SetOutlineVisible => (showOutline' <=> ~showOutline)
      BY Zenon DEF SetOutlineVisible
    <3> QED
      BY <2>1, <3>1, <3>2, <3>3, <3>4
  <2>2. CASE CopySelection \/ CopyMarkdown \/ MoveCaret(line) \/ ClickItem(item) \/ CollapseItem(item) \/ UNCHANGED vars
    BY <2>2 DEF CopySelection, CopyMarkdown, MoveCaret, ClickItem, CollapseItem, SelectItem, vars, outlineVars
  <2> QED
    BY <2>1, <2>2
<1> QED
  BY <1>1, <1>2, PanelKeepsLive

\* The window opens at the top of its text, with nothing selected.
LEMMA InitLive == Init /\ PreviewInv => LiveInv
<1> SUFFICES ASSUME Init, PreviewInv
             PROVE  LiveInv
  OBVIOUS
<1>1. PICK d \in Docs : doc = [text |-> d, flips |-> {}]
  BY DEF Init
<1>2. /\ parsing = <<>> /\ shown = doc /\ width \in Widths /\ layout = ComputeLayout(TreeOf(shown), width)
      /\ sel = NoSelection /\ scroll = 0
  BY DEF Init
<1>3. FlipsInv
  BY <1>1, <1>2 DEF FlipsInv, Range
<1>4. LayoutInv
  <2>1. shown.text \in Docs /\ shown.flips \subseteq TasksOf(shown.text)
    BY <1>1, <1>2
  <2> QED
    BY <1>2, <2>1, LaidOut DEF LayoutInv
<1>5. ScrollInv
  <2>1. layout.total \in Int /\ ViewHeight \in Nat
    BY <1>4, PreviewAssumption DEF LayoutInv, LaysOut, IsLayout
  <2> DEFINE m == layout.total - ViewHeight
             n == Min({m, 0})
  <2>2. m \in Int
    BY <2>1
  <2> HIDE DEF m
  <2>3. n \in Int /\ n <= 0
    BY <2>2, LesserOfTwo
  <2> HIDE DEF n
  <2>4. Max({0, n}) = 0
    BY <2>3, GreaterOfTwo
  <2>5. Clamped(layout, 0) = 0
    BY <2>4 DEF Clamped, n, m
  <2> QED
    BY <1>2, <2>5 DEF ScrollInv
<1>6. LinesInv
  <2>1. CASE showOutline
    <3>1. headings = CollectHeadings(shown) /\ shown.text \in Docs
      BY <2>1 DEF PreviewInv, OutlineInv, TextsInv
    <3> QED
      BY <3>1, HeadingIsOnLine DEF LinesInv
  <2>2. CASE ~showOutline
    <3>1. PanelIs(NewPanel)
      BY <2>2 DEF Init
    <3>2. headings = <<>>
      BY <3>1 DEF PanelIs, NewPanel
    <3> QED
      BY <3>2 DEF LinesInv
  <2> QED
    BY <2>1, <2>2
<1>7. GoodSel(layout, sel)
  <2>1. /\ IsSel(sel) /\ sel.anchor = Origin /\ sel.focus = Origin /\ sel.range[1] = Origin /\ sel.range[2] = Origin
        /\ sel.url = NoUrl /\ sel.task = NoSource
    BY <1>2 DEF NoSelection, IsSel
  <2>2. GoodPosition(layout, Origin) /\ ~Before(Origin, Origin)
    BY OriginIs DEF Before, Origin, Pos
  <2>3. GoodStart(layout, sel) /\ GoodEnds(layout, sel)
    BY <2>1, <2>2 DEF GoodStart, GoodEnds
  <2> QED
    BY <2>1, <2>3, NothingIsLive DEF GoodSel
<1> QED
  BY <1>3, <1>4, <1>5, <1>6, <1>7 DEF LiveInv

\* Every step keeps what the view remembers in the layout it shows.
LEMMA NextLive == PreviewInv /\ PreviewInv' /\ LiveInv /\ [Next]_<<vars, pdfVars>> => LiveInv'
<1> SUFFICES ASSUME PreviewInv, PreviewInv', LiveInv, [Next]_<<vars, pdfVars>>
             PROVE  LiveInv'
  OBVIOUS
<1>1. ASSUME NEW text \in Played, Type(text)
      PROVE  LiveInv'
  BY <1>1, TypeKeepsLive
<1>2. CASE HandleReparse
  BY <1>2, ReparseKeepsLive
<1>3. ASSUME NEW k \in DOMAIN parsing, TreeArrives(k)
      PROVE  LiveInv'
  BY <1>3, TreeKeepsLive
<1>4. ASSUME NEW w \in Widths, Resize(w)
      PROVE  LiveInv'
  BY <1>4, ResizeKeepsLive
<1>5. ASSUME NEW p \in Points, NEW shift \in BOOLEAN, NEW soon, Press(p, shift, soon)
      PROVE  LiveInv'
  BY <1>5, PressKeepsLive
<1>6. ASSUME NEW p \in Points, PressCtrl(p) \/ EditHere(p)
      PROVE  LiveInv'
  BY <1>6, EditKeepsLive
<1>7. ASSUME NEW p \in Points, DoublePress(p) \/ Move(p)
      PROVE  LiveInv'
  BY <1>7, DoublePressKeepsLive, MoveKeepsLive
<1>8. ASSUME NEW p \in Points, Release(p)
      PROVE  LiveInv'
  BY <1>8, ReleaseKeepsLive
<1>9. CASE CaptureLost \/ SelectAll \/ ClearSelection
  BY <1>9, LostKeepsLive, AllKeepsLive, ClearKeepsLive
<1>10. ASSUME NEW wholeWord \in BOOLEAN, NEW forward \in BOOLEAN, FindNext(wholeWord, forward)
       PROVE  LiveInv'
  BY <1>10, FindKeepsLive
<1>11. ASSUME NEW item, HandlePosted \/ KeyToItem(item) \/ ShowOutlinePopup
       PROVE  LiveInv'
  BY <1>11, GoneTo
<1>12. ASSUME NEW line, NEW item,
              \/ CopySelection \/ CopyMarkdown \/ MoveCaret(line) \/ UpdateUi
              \/ ClickItem(item) \/ CollapseItem(item) \/ SetOutlineVisible \/ UNCHANGED vars
       PROVE  LiveInv'
  BY <1>12, OthersKeepLive
<1> QED
  BY <1>1, <1>2, <1>3, <1>4, <1>5, <1>6, <1>7, <1>8, <1>9, <1>10, <1>11, <1>12 DEF Next, ExportPdf, Writing

\* What is good in a layout is live in it.
LEMMA LiveIs == LiveInv => RefsAreLive /\ WordsStayWhole
<1> SUFFICES ASSUME LiveInv
             PROVE  RefsAreLive /\ WordsStayWhole
  OBVIOUS
<1>1. /\ GoodStart(layout, sel) /\ GoodEnds(layout, sel) /\ GoodTask(layout, sel.task) /\ GoodLink(layout, sel.url)
      /\ scroll = Clamped(layout, scroll)
  BY DEF LiveInv, GoodSel, ScrollInv
<1>2. \A p : GoodPosition(layout, p) => IsPosition(p)
  BY DEF GoodPosition, AtLetter, IsPosition
<1>3. \A p : AtWord(layout, p) <=> IsWordEdge(p)
  BY DEF AtWord, WordEdge, IsWordEdge
<1>4. RefsAreLive
  <2>1. \A p \in {sel.anchor, sel.focus, sel.range[1], sel.range[2]} : IsPosition(p)
    BY <1>1, <1>2 DEF GoodStart, GoodEnds
  <2> QED
    BY <1>1, <2>1 DEF RefsAreLive, GoodTask, GoodLink
<1>5. WordsStayWhole
  BY <1>1, <1>3 DEF WordsStayWhole, GoodEnds, HasSelection
<1> QED
  BY <1>4, <1>5

\* The selection, the range a drag goes on from, the box and the link that are pressed, and the
\* scroll position are in the layout that is shown, whatever tree arrived and whatever was
\* resized in between: ForNewTree forgets them, NothingPressed lets go, Clamped keeps the
\* document in the view, and a layout of another width has the same texts.
THEOREM RefsStayLive == Spec => []RefsAreLive
<1>1. Init => PreviewInv /\ LiveInv
  BY InitPreview, InitLive
<1>2. (PreviewInv /\ LiveInv) /\ [Next]_<<vars, pdfVars>> => (PreviewInv /\ LiveInv)'
  BY NextPreview, NextLive
<1> QED
  BY <1>1, <1>2, LiveIs, PTL DEF Spec

\* A selection that a double click began is of whole words and keeps the one it began with:
\* both ends of ExtendSelection are ends of the word under the pointer or of the first word,
\* in the order in which the pointer passed them, and another layout has the same words.
THEOREM WordsAreWhole == Spec => []WordsStayWhole
<1>1. Init => PreviewInv /\ LiveInv
  BY InitPreview, InitLive
<1>2. (PreviewInv /\ LiveInv) /\ [Next]_<<vars, pdfVars>> => (PreviewInv /\ LiveInv)'
  BY NextPreview, NextLive
<1> QED
  BY <1>1, <1>2, LiveIs, PTL DEF Spec
=============================================================================
