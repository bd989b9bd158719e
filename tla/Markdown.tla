------------------------------ MODULE Markdown ------------------------------
(***************************************************************************)
(* The Markdown adapter: what Md4cAdapter::Parse makes of the callbacks of *)
(* the md4c parser.  A document is the list of what md4c does with it: the *)
(* bytes it reads without a callback ("skip"), the blocks and spans it     *)
(* enters and leaves, and its texts, from the source ("text") or from a    *)
(* constant of the parser ("static").  A byte is a token; "C3" and the     *)
(* byte after it are one letter.                                           *)
(***************************************************************************)
EXTENDS Integers, Sequences, FiniteSetsExt, SequencesExt

NoSource == -1
NoUrl == <<>>
White == {" ", "lf"}

\* md4c reads every byte of the source once, in order.
BytesOf(step) == IF step.op \in {"skip", "text"} THEN step.bytes ELSE <<>>
Source(doc) == FoldLeft(LAMBDA src, step : src \o BytesOf(step), <<>>, doc)

OffsetToLine(src, offset) == 1 + Cardinality({i \in 1..offset : src[i] = "lf"})

FindNextNonWhitespace(src, from) ==
    Min({i \in from..Len(src) : i = Len(src) \/ src[i + 1] \notin White})

-----------------------------------------------------------------------------
(* The tree under construction: blocks in document order, each with its spans in pre-order.  *)
(* A parent is an index, 0 at the top; a run says which bytes of a text are bytes of the     *)
(* source.                                                                                   *)

NewSpan(type, parent, url) == [type |-> type, parent |-> parent, url |-> url, text |-> <<>>, runs |-> <<>>]

Top(p) == Last(p.stack)
Spans(p) == p.blocks[Top(p)].spans
WithSpans(p, spans) == [p EXCEPT !.blocks[Top(p)].spans = spans]
OpenSpan(p) == IF p.open = <<>> THEN 0 ELSE Last(p.open)

AddSpanToCurrent(p, span) ==
    IF p.stack = <<>> THEN p ELSE WithSpans(p, Append(Spans(p), [span EXCEPT !.parent = OpenSpan(p)]))

\* A text that follows the last run in the span and in the source makes that run longer.
AppendToSpan(span, text, src) ==
    LET at == Len(span.text)
        run == [at |-> at, len |-> Len(text), src |-> src]
        last == Last(span.runs)
        joins == span.runs # <<>> /\ last.at + last.len = at /\ last.src + last.len = src
    IN  [span EXCEPT
            !.text = @ \o text,
            !.runs = IF src = NoSource THEN @
                     ELSE IF joins THEN [@ EXCEPT ![Len(@)].len = @ + Len(text)]
                     ELSE Append(@, run)]

AppendToList(spans, parent, text, type, src) ==
    LET children == {i \in DOMAIN spans : spans[i].parent = parent}
        last == IF children = {} THEN 0 ELSE Max(children)
        goesOn == last # 0 /\ spans[last].type = type /\ \A i \in DOMAIN spans : spans[i].parent # last
    IN  IF goesOn THEN [spans EXCEPT ![last] = AppendToSpan(@, text, src)]
        ELSE Append(spans, AppendToSpan(NewSpan(type, parent, NoUrl), text, src))

AppendText(p, text, src) ==
    IF text = <<>> \/ p.stack = <<>> THEN p
    ELSE IF OpenSpan(p) # 0 /\ Spans(p)[OpenSpan(p)].type = "Code"
    THEN WithSpans(p, [Spans(p) EXCEPT ![OpenSpan(p)] = AppendToSpan(@, text, src)])
    ELSE LET code == OpenSpan(p) = 0 /\ p.blocks[Top(p)].type = "CodeBlock"
         IN  WithSpans(p, AppendToList(Spans(p), OpenSpan(p), text, IF code THEN "Code" ELSE "Text", src))

-----------------------------------------------------------------------------
(* Raw HTML: its text is shown, <br> and <img> are honoured, other tags and comments dropped. *)

Decoded(bytes) == [i \in DOMAIN bytes |-> IF bytes[i] = "&amp;" THEN "&" ELSE bytes[i]]
Collapsed(bytes) == [i \in DOMAIN bytes |-> IF bytes[i] = "lf" THEN " " ELSE bytes[i]]

HandleHtmlTag(p, tag) ==
    LET alt == SubSeq(tag, 3, Len(tag) - 1)
        image == AddSpanToCurrent(p, NewSpan("Image", 0, <<"img">>))
    IN  IF tag[2] = "br" THEN AddSpanToCurrent(p, NewSpan("LineBreak", 0, NoUrl))
        ELSE IF tag[2] # "img" \/ p.stack = <<>> THEN p
        ELSE IF alt = <<>> THEN image
        ELSE WithSpans(image, Append(Spans(image), [NewSpan("Text", Len(Spans(image)), NoUrl) EXCEPT !.text = Decoded(alt)]))

HandleHtmlToken(p, token) ==
    IF p.comment THEN [p EXCEPT !.comment = token # "-->"]
    ELSE IF p.tag # <<>>
    THEN IF token = ">" THEN HandleHtmlTag([p EXCEPT !.tag = <<>>], Append(p.tag, token))
         ELSE [p EXCEPT !.tag = Append(@, token)]
    ELSE IF token = "<!--" THEN [p EXCEPT !.comment = TRUE]
    ELSE IF token = "<" THEN [p EXCEPT !.tag = <<token>>]
    ELSE AppendText(p, Collapsed(Decoded(<<token>>)), NoSource)

HandleHtml(p, html) == FoldLeft(HandleHtmlToken, p, html)

-----------------------------------------------------------------------------
(* The callbacks. *)

BlockType(kind) ==
    CASE kind = "DOC" -> "Document"   [] kind = "QUOTE" -> "Blockquote"  [] kind \in {"UL", "OL"} -> "List"
      [] kind = "LI" -> "ListItem"    [] kind = "HR" -> "ThematicBreak"  [] kind = "H" -> "Heading"
      [] kind = "CODE" -> "CodeBlock" [] kind = "TABLE" -> "Table"       [] kind = "THEAD" -> "TableHead"
      [] kind = "TBODY" -> "TableBody" [] kind = "TR" -> "TableRow"      [] kind \in {"TH", "TD"} -> "TableCell"
      [] OTHER -> "Paragraph"

\* The line of a block is an estimate: that of the first byte after the last text.
OnEnterBlock(p, step) ==
    LET pos == FindNextNonWhitespace(p.src, p.lastOffset)
        line == OffsetToLine(p.src, pos)
        block == [type |-> BlockType(step.kind), parent |-> IF p.stack = <<>> THEN 0 ELSE Top(p),
                  level |-> step.level, ordered |-> step.kind = "OL", number |-> step.number, info |-> step.info,
                  task |-> IF step.mark = 0 THEN NoSource ELSE p.at + step.mark, checked |-> step.checked,
                  header |-> step.kind = "TH", raw |-> step.kind = "HTML",
                  start |-> IF step.kind = "DOC" THEN 1 ELSE line, end |-> line, spans |-> <<>>]
    IN  [p EXCEPT !.lastOffset = pos, !.blocks = Append(@, block), !.stack = Append(@, Len(p.blocks) + 1),
                  !.comment = FALSE, !.tag = <<>>]

OnLeaveBlock(p) ==
    LET last == Max({p.blocks[Top(p)].start, p.blocks[Top(p)].end, p.currentLine})
        ended == [p EXCEPT !.blocks[Top(p)].end = last, !.stack = Front(@)]
    IN  IF ended.stack = <<>> THEN ended
        ELSE [ended EXCEPT !.blocks[Top(ended)].end = Max({@, last})]

SpanType(kind) ==
    CASE kind = "EM" -> "Emphasis" [] kind = "STRONG" -> "Strong" [] kind = "A" -> "Link" [] kind = "IMG" -> "Image"
      [] kind = "CODE" -> "Code"   [] kind = "DEL" -> "Strikethrough" [] OTHER -> "Text"

OnEnterSpan(p, step) ==
    LET added == AddSpanToCurrent(p, NewSpan(SpanType(step.kind), 0, step.url))
    IN  IF p.stack = <<>> THEN p ELSE [added EXCEPT !.open = Append(@, Len(Spans(added)))]

OnLeaveSpan(p) == IF p.open = <<>> THEN p ELSE [p EXCEPT !.open = Front(@)]

\* Only a text of the source moves the line.
Moved(p, step) ==
    IF step.op = "static" THEN p
    ELSE LET n == Len(step.bytes)
             line == OffsetToLine(p.src, p.at + (IF n > 0 THEN n - 1 ELSE 0))
             moved == [p EXCEPT !.lastOffset = p.at + n, !.currentLine = line]
         IN  IF p.stack = <<>> THEN moved
             ELSE [moved EXCEPT !.blocks[Top(p)].end = Max({@, line})]

OnText(p, step) ==
    LET q == Moved(p, step)
    IN  CASE step.kind = "br" -> AddSpanToCurrent(q, NewSpan("LineBreak", 0, NoUrl))
          [] step.kind = "softbr" -> AppendText(q, <<" ">>, NoSource)
          [] step.kind = "entity" -> AppendText(q, Decoded(step.bytes), NoSource)
          [] step.kind = "html" -> HandleHtml(q, step.bytes)
          [] OTHER -> AppendText(q, step.bytes, IF step.op = "static" THEN NoSource ELSE p.at)

-----------------------------------------------------------------------------
(* After md4c: the emoji shortcodes and the blanks that stripped tags leave. *)

Emoji == <<"F0", "9F", "98", "80">>
ShortcodeName == "smile"
ShortcodeChars == {"a", "b", "c", "d", "1", "2", "-", "_", ShortcodeName}

\* The colons that open a known shortcode; a closing colon may open the next one.
FindEmojiShortcodes(text) ==
    FoldLeft(LAMBDA found, i :
        IF /\ text[i] = ":" /\ i + 2 \in DOMAIN text /\ text[i + 1] = ShortcodeName /\ text[i + 2] = ":"
           /\ \A m \in found : m + 2 < i
        THEN found \cup {i} ELSE found, {}, [i \in DOMAIN text |-> i])

\* The parts of the runs inside [from, to), for a copy of that text that begins at position at.
RunsWithin(span, from, to, at) ==
    LET cut(r) == LET begin == Max({from, r.at}) end == Min({to, r.at + r.len})
                  IN  [at |-> at + begin - from, len |-> end - begin, src |-> r.src + begin - r.at]
        cuts == [i \in DOMAIN span.runs |-> cut(span.runs[i])]
    IN  SelectSeq(cuts, LAMBDA r : r.len > 0)

ReplaceShortcodesInSpan(span) ==
    LET found == SetToSortSeq(FindEmojiShortcodes(span.text), <)
        copy(made, from, to) == [made EXCEPT !.text = @ \o SubSeq(span.text, from + 1, to),
                                             !.runs = @ \o RunsWithin(span, from, to, Len(made.text))]
        done == FoldLeft(LAMBDA d, i :
                    [made |-> LET m == copy(d.made, d.copied, i - 1) IN [m EXCEPT !.text = @ \o Emoji],
                     copied |-> i + 2],
                    [made |-> [span EXCEPT !.text = <<>>, !.runs = <<>>], copied |-> 0], found)
    IN  IF found = <<>> THEN span ELSE copy(done.made, done.copied, Len(span.text))

ReplaceShortcodesInSpans(spans) ==
    [i \in DOMAIN spans |-> IF spans[i].type = "Text" THEN ReplaceShortcodesInSpan(spans[i]) ELSE spans[i]]

IsBlankText(span) == span.type = "Text" /\ span.parent = 0 /\ \A i \in DOMAIN span.text : span.text[i] = " "
Letters(text) == {i \in DOMAIN text : text[i] # " "}

\* Only the outermost texts at the two ends lose their spaces, and go when they have nothing else.
TrimFront(spans) ==
    LET n == Max({k \in 0..Len(spans) : \A i \in 1..k : IsBlankText(spans[i])})
        left == [i \in 1..Len(spans) - n |->
                    [spans[i + n] EXCEPT !.parent = IF @ = 0 THEN 0 ELSE @ - n]]
    IN  IF left # <<>> /\ left[1].type = "Text"
        THEN [left EXCEPT ![1].text = SubSeq(@, Min(Letters(@)), Len(@))] ELSE left

TrimBack(spans) ==
    LET n == Max({k \in 0..Len(spans) : \A i \in Len(spans) - k + 1..Len(spans) : IsBlankText(spans[i])})
        left == SubSeq(spans, 1, Len(spans) - n)
    IN  IF left # <<>> /\ Last(left).type = "Text" /\ Last(left).parent = 0
        THEN [left EXCEPT ![Len(left)].text = SubSeq(@, 1, Max(Letters(@)))] ELSE left

FinalizeBlock(block) ==
    LET spans == IF block.type = "CodeBlock" THEN block.spans ELSE ReplaceShortcodesInSpans(block.spans)
    IN  [block EXCEPT !.spans = IF block.raw THEN TrimBack(TrimFront(spans)) ELSE spans]

\* md4c calls back inside the document block.
Handle(p, step) ==
    LET q == CASE step.op = "enter" -> OnEnterBlock(p, step)
               [] step.op = "leave" -> OnLeaveBlock(p)
               [] step.op = "span" -> OnEnterSpan(p, step)
               [] step.op = "unspan" -> OnLeaveSpan(p)
               [] step.op \in {"text", "static"} -> OnText(p, step)
               [] OTHER -> p
    IN  IF p.stack = <<>> /\ step.op # "enter" THEN p ELSE [q EXCEPT !.at = @ + Len(BytesOf(step))]

\* The tree of a document: its blocks in document order.
Finalized(p) == [i \in DOMAIN p.blocks |-> FinalizeBlock(p.blocks[i])]
Parse(doc) ==
    Finalized(FoldLeft(Handle, [src |-> Source(doc), at |-> 0, blocks |-> <<>>, stack |-> <<>>, open |-> <<>>,
                                currentLine |-> 1, lastOffset |-> 0, comment |-> FALSE, tag |-> <<>>], doc))

Children(tree, parent) == SelectSeq([i \in DOMAIN tree |-> i], LAMBDA i : tree[i].parent = parent)

-----------------------------------------------------------------------------
(* Titles and anchors. *)

\* The visible text of some spans; the pre-order of the spans is the order of their texts.
ExtractPlainText(spans) ==
    FoldLeft(LAMBDA out, s : IF s.type = "LineBreak" THEN Append(out, " ") ELSE out \o s.text, <<>>, spans)

Capitals == [c \in {"A", "B"} |-> IF c = "A" THEN "a" ELSE "b"]
Hyphen(slug) == IF slug # <<>> /\ Last(slug) # "-" THEN Append(slug, "-") ELSE slug

\* Lower case, one hyphen for blanks and dashes between words; punctuation and emoji go.
Slugify(text) ==
    LET push(slug, c) ==
            CASE c \in DOMAIN Capitals -> Append(slug, Capitals[c])
              [] c \in {" ", "-", "_"} -> Hyphen(slug)
              [] c = "89" -> Append(slug, "A9")
              [] c \in {"a", "b", "c", "d", "1", "2", "C3", "A9", ShortcodeName} -> Append(slug, c)
              [] OTHER -> slug
        slug == FoldLeft(push, <<>>, text)
    IN  IF slug # <<>> /\ Last(slug) = "-" THEN Front(slug) ELSE slug

-----------------------------------------------------------------------------
\* The lines where the blocks really begin: that of the byte where md4c is when it enters one
\* that is not white.  (Leading marks of the block are read after it is entered.)
TrueLines(doc) ==
    LET src == Source(doc)
        at(k) == Len(Source(SubSeq(doc, 1, k - 1)))
        entered == SelectSeq([k \in DOMAIN doc |-> k], LAMBDA k : doc[k].op = "enter")
    IN  [i \in DOMAIN entered |-> OffsetToLine(src, FindNextNonWhitespace(src, at(entered[i])))]
=============================================================================
