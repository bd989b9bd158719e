------------------------------ MODULE MCPreview ------------------------------
(* Documents for the preview: as md4c calls back for the Markdown beside each. *)
EXTENDS Preview, PdfFlow

Skip(bytes) == <<[op |-> "skip", bytes |-> bytes]>>
Lf == Skip(<<"lf">>)
Text(bytes) == <<[op |-> "text", kind |-> "normal", bytes |-> bytes]>>
CodeText(bytes) == <<[op |-> "text", kind |-> "code", bytes |-> bytes]>>
Entity == <<[op |-> "text", kind |-> "entity", bytes |-> <<"&amp;">>]>>
Html(bytes) == <<[op |-> "text", kind |-> "html", bytes |-> bytes]>>
SoftBreak == <<[op |-> "static", kind |-> "softbr", bytes |-> <<"lf">>]>>
HardBreak == <<[op |-> "static", kind |-> "br", bytes |-> <<"lf">>]>>
Break == Lf \o SoftBreak

Enter(kind) == [op |-> "enter", kind |-> kind, level |-> 0, number |-> 1, info |-> "", mark |-> 0, checked |-> FALSE]
Leave == <<[op |-> "leave"]>>
Block(kind, inside) == <<Enter(kind)>> \o inside \o Leave
Heading(level, inside) == <<[Enter("H") EXCEPT !.level = level]>> \o inside \o Leave
\* The bytes before the text of a heading are read with the heading open.
H(level, text) == Heading(level, Skip([i \in 1..level |-> "#"] \o <<" ">>) \o Text(text)) \o Lf
Code(info, inside) == <<[Enter("CODE") EXCEPT !.info = info]>> \o inside \o Leave
Fence(info, inside) ==
    Code(info, Skip(<<"tick", "tick", "tick">> \o (IF info = "" THEN <<>> ELSE <<info>>) \o <<"lf">>) \o inside)
    \o Skip(<<"tick", "tick", "tick", "lf">>)
Task(checked, inside) ==
    <<[Enter("LI") EXCEPT !.mark = 3, !.checked = checked]>>
    \o Skip(<<"-", " ", "[", IF checked THEN "x" ELSE " ", "]", " ">>) \o inside \o Lf \o Leave
Item(inside) == Block("LI", Skip(<<"-", " ">>) \o inside)

Span(kind, url, inside) == <<[op |-> "span", kind |-> kind, url |-> url]>> \o inside \o <<[op |-> "unspan"]>>
Marked(kind, mark, inside) == Skip(mark) \o Span(kind, NoUrl, inside) \o Skip(mark)
Strong(inside) == Marked("STRONG", <<"*", "*">>, inside)
Em(inside) == Marked("EM", <<"*">>, inside)
Link(url, inside) == Skip(<<"[">>) \o Span("A", url, inside) \o Skip(<<"]", "(">> \o url \o <<")">>)
Image(url, inside) == Skip(<<"!", "[">>) \o Span("IMG", url, inside) \o Skip(<<"]", "(">> \o url \o <<")">>)
Doc(inside) == Block("DOC", inside)
P(inside) == Block("P", inside) \o Lf

Smile == <<":", ShortcodeName, ":">>

\* "# a\n## b\na **b**a&amp;b [ab](#a)\n"
Inline == Doc(H(1, <<"a">>) \o H(2, <<"b">>) \o P(Text(<<"a", " ">>) \o Strong(Text(<<"b">>)) \o Text(<<"a">>) \o Entity
              \o Text(<<"b", " ">>) \o Link(<<"#", "a">>, Text(<<"a", "b">>))))
\* "a :smile: b:smile::smile: *a*\nb\n": a shortcode, a soft break
Shortcodes == Doc(P(Text(<<"a", " ">> \o Smile \o <<" ", "b">> \o Smile \o Smile \o <<" ">>) \o Em(Text(<<"a">>)) \o Break \o Text(<<"b">>)))
\* "## a\n\n---\n## a\n# éa\n": two headings of a slug, one after a rule
Headings == Doc(H(2, <<"a">>) \o Lf \o Block("HR", Skip(<<"-", "-", "-", "lf">>)) \o H(2, <<"a">>) \o H(1, <<"C3", "A9", "a">>))
\* "> a\n> b\n\ntext in a quote, then a fence of code
Quote == Doc(Block("QUOTE", Skip(<<">", " ">>) \o Block("P", Text(<<"a", "C3", "A9">>) \o Lf \o Skip(<<">", " ">>) \o SoftBreak \o Text(<<"b">>) \o Lf))
             \o Lf \o Fence("", CodeText(<<"a", "lf">>) \o CodeText(<<"b", "lf">>)))
\* "- a\n  - b\n  - c\n- a\n\n  b\n": nested, and loose
Lists == Doc(Block("UL", Item(Text(<<"a">>) \o Lf \o Skip(<<" ", " ">>) \o Block("UL", Item(Text(<<"b">>) \o Lf) \o Skip(<<" ", " ">>) \o Item(Text(<<"c">>) \o Lf)))
                         \o Item(Block("P", Text(<<"a">>) \o Lf) \o Lf \o Skip(<<" ", " ">>) \o Block("P", Text(<<"b">>) \o Lf))))
\* "# a\n# b\n- [ ] a\n- [x] b\n"
Tasks == Doc(H(1, <<"a">>) \o H(1, <<"b">>) \o Block("UL", Task(FALSE, Text(<<"a">>)) \o Task(TRUE, Text(<<"b">>))))
\* Raw HTML, an image of a document's own, a mermaid diagram
Generated == Doc(Block("HTML", Html(<<"<", "p", ">", " ", "a", " ", "<", "br", ">", "<!--", "b", "-->", " ">>) \o Lf)
                 \o P(Image(<<"1">>, Text(<<"b">>))) \o Fence("mermaid", CodeText(<<"c", "lf">>)) \o P(Text(<<"a">>) \o Lf \o HardBreak \o Text(<<"F0", "9F", "98", "80", "b">>)))
Word(n) == [i \in 1..n |-> "a"]
Cell(kind, inside) == Block(kind, Skip(<<"|">>) \o inside)
Row(kind, texts) == Block("TR", FlattenSeq([i \in DOMAIN texts |-> Cell(kind, Text(texts[i]))]) \o Skip(<<"|", "lf">>))
Table(head, body) ==
    Block("TABLE", Block("THEAD", Row("TH", head) \o Skip(<<"|", "-", "|", "lf">>)) \o Block("TBODY", FlattenSeq([r \in DOMAIN body |-> Row("TD", body[r])])))
Tables == Doc(Table(<<<<"a">>, <<"b">>, <<"c">>>>, <<<<Word(2), Word(9), Word(12)>>>>))
LongTable == Doc(Table(<<<<"a">>, Word(5) \o <<" ">> \o Word(5)>>, <<<<Word(3), Word(4)>>, <<<<"b">>>>>>))

\* A heading over code of many lines; a heading and a table with a header and ever higher rows.
LongCode == Doc(H(1, <<"a">>) \o Fence("", FlattenSeq([i \in 1..5 |-> CodeText(<<"a", "lf">>)])) \o H(3, <<"b">>))
HighTable == Doc(H(3, <<"a">>) \o Table(<<<<"b">>>>, [r \in 1..3 |-> <<Word(9 * r)>>]))

AllDocs == {Inline, Shortcodes, Headings, Quote, Lists, Tasks, Generated, Tables, LongTable, LongCode, HighTable}
UsedDocs == {Inline, Tasks}
Searched == <<"a", "b">>
RuleDocs == {Headings}

-----------------------------------------------------------------------------
(* Printing: on pages so small that a few blocks need several. *)

PapersOf(document, tree, rooms) ==
    {[asks |-> RenderBlocks(tree, IF room = 2000 THEN 1200 ELSE 4000, room), room |-> room, doc |-> document] : room \in rooms}
\* Text alone is printed on narrow pages of one line too, and a heading where it does not fit with what it keeps.
RoomsFor(document) ==
    {7000, 8000, 9000, 10500, 12000} \cup (CASE document \in {Shortcodes, Lists} -> {2000} [] document = Tasks -> {6500} [] OTHER -> {})
PrintedPapers == UNION {PapersOf(d, Parse(d), RoomsFor(d)) : d \in AllDocs}

Printable(text) == SelectSeq(text, LAMBDA c : c \notin {" ", "lf", "ls"})
PrintableOf(tree) == FlattenSeq([i \in DOMAIN tree |-> Printable(TextOfBlock(tree[i]))])

\* Everything the blocks say is printed, once and in the order of the document: no letter is lost
\* where a line is broken, in a cell, or with what follows the first paragraph of an item.
FlowTellsAll ==
    next = 1 => FlattenSeq([k \in DOMAIN paper.asks |-> Printable(paper.asks[k].text)])
                = PrintableOf(Parse(paper.doc))
=============================================================================
