--------------------------- MODULE DocumentFormat ---------------------------
(***************************************************************************)
(* The round trip of a document: ReadDocument recognises the encoding and  *)
(* the line ending of the bytes on disk and gives the editor UTF-8;        *)
(* WriteCurrentDocument and WriteDocumentAtomic turn the editor's text     *)
(* back into bytes.  Bytes, UTF-16 units and code points are numbers.      *)
(***************************************************************************)
EXTENDS Integers, SequencesExt

CONSTANTS
    Files,      \* the byte sequences a document may have on disk
    Typed,      \* what the user may type: UTF-8, a character or a line break
    NoDocument  \* nothing was opened yet, or nothing to remember

VARIABLES
    file,       \* the bytes on disk
    doc,        \* the open document: its text, encoding and line ending
    phase,      \* "unread", "open" (as read or saved), "edited"
    answer,     \* how the last save went: "none", "saved", "substituted", "cancelled"
    original    \* the bytes when the document was opened, while it has no edit (history variable)

vars == <<file, doc, phase, answer, original>>

LF == 10
CR == 13
Question == 63
Replacement == 65533

-----------------------------------------------------------------------------
(* Line endings. *)

\* Cuts a sequence, from its head on, into pieces: the next one has the length that length gives
\* for what is left.
Pieces(s, length) ==
    LET cut[t \in Seq(Int)] ==
            IF t = <<>> THEN <<>>
            ELSE <<SubSeq(t, 1, length[t])>> \o cut[SubSeq(t, length[t] + 1, Len(t))]
    IN  cut[s]

\* A carriage return takes the line feed after it along.
BreakLength == [s \in Seq(Int) |-> IF Len(s) > 1 /\ s[1] = CR /\ s[2] = LF THEN 2 ELSE 1]
Signs(s) == Pieces(s, BreakLength)
IsBreak(sign) == sign[1] \in {CR, LF}

Eol == [CRLF |-> <<CR, LF>>, LF |-> <<LF>>, CR |-> <<CR>>]

\* The first break decides.
DetectLineEnding(s) ==
    LET breaks == {k \in DOMAIN Signs(s) : IsBreak(Signs(s)[k])}
    IN  IF breaks = {} THEN "CRLF" ELSE CHOOSE kind \in DOMAIN Eol : Eol[kind] = Signs(s)[Min(breaks)]

\* Every break, of whatever kind, becomes the target's.
Normalized(signs, target) == [k \in DOMAIN signs |-> IF IsBreak(signs[k]) THEN Eol[target] ELSE signs[k]]
NormalizeLineEndings(s, target) == FlattenSeq(Normalized(Signs(s), target))

-----------------------------------------------------------------------------
(* UTF-8. *)

\* How many bytes the lead byte announces; 0 when it cannot lead.
Announced(c) ==
    IF c < 128 THEN 1
    ELSE IF c \in 192..223 THEN 2
    ELSE IF c \in 224..239 THEN 3
    ELSE IF c \in 240..247 THEN 4 ELSE 0

\* The bits of the bytes of a character.
CodePoint(c) ==
    IF Len(c) = 1 THEN c[1]
    ELSE IF Len(c) = 2 THEN 64 * (c[1] % 32) + (c[2] % 64)
    ELSE IF Len(c) = 3 THEN 64 * (64 * (c[1] % 16) + (c[2] % 64)) + (c[3] % 64)
    ELSE 64 * (64 * (64 * (c[1] % 8) + (c[2] % 64)) + (c[3] % 64)) + (c[4] % 64)

\* One character, well formed: no overlong form, surrogate or value beyond Unicode's 17 planes.
IsCharacter(c) ==
    /\ Len(c) = Announced(c[1])
    /\ \A k \in 2 .. Len(c) : c[k] \in 128..191
    /\ CodePoint(c) >= <<0, 128, 2048, 65536>>[Len(c)] /\ CodePoint(c) \div 65536 <= 16
    /\ CodePoint(c) \notin 55296..57343

\* The length of the character at the head of s, or 1 when what is there is not well formed.
CharLength ==
    [s \in Seq(Int) |->
        LET n == Announced(s[1])
        IN  IF n \in 1 .. Len(s) /\ IsCharacter(SubSeq(s, 1, n)) THEN n ELSE 1]

Characters(s) == Pieces(s, CharLength)

IsValidUtf8(s) == \A k \in DOMAIN Characters(s) : IsCharacter(Characters(s)[k])

\* MultiByteToWideChar(CP_UTF8), as code points: what is not well formed is replaced.
DecodeUtf8(s) ==
    LET chars == Characters(s)
    IN  [k \in DOMAIN chars |-> IF IsCharacter(chars[k]) THEN CodePoint(chars[k]) ELSE Replacement]

Trail(n) == 128 + (n % 64)

BytesOf(cp) ==
    IF cp < 128 THEN <<cp>>
    ELSE IF cp < 2048 THEN <<192 + (cp \div 64), Trail(cp)>>
    ELSE IF cp < 65536 THEN <<224 + (cp \div 4096), Trail(cp \div 64), Trail(cp)>>
    ELSE <<240 + ((cp \div 4096) \div 64), Trail(cp \div 4096), Trail(cp \div 64), Trail(cp)>>

\* WideCharToMultiByte(CP_UTF8), from code points.
EncodeUtf8(cps) == FlattenSeq([i \in DOMAIN cps |-> BytesOf(cps[i])])

-----------------------------------------------------------------------------
(* UTF-16 and Windows-1252. *)

\* Mutant: the high byte first whatever the order.
UnitBytesBigEndian(unit, encoding) == <<unit \div 256, unit % 256>>

\* The two bytes of a unit in the order of the encoding.
UnitBytes(unit, encoding) ==
    IF encoding = "Utf16LE" THEN <<unit % 256, unit \div 256>> ELSE <<unit \div 256, unit % 256>>

\* The whole units of a payload; a last odd byte is dropped.
Units(payload, encoding) ==
    [k \in 1 .. Len(payload) \div 2 |->
        LET a == payload[2 * k - 1]  b == payload[2 * k]
        IN  IF encoding = "Utf16LE" THEN a + 256 * b ELSE 256 * a + b]

High(u) == u \in 55296..56319
Low(u) == u \in 56320..57343

\* A surrogate without its other half does not make a character.
PairLength == [s \in Seq(Int) |-> IF Len(s) > 1 /\ High(s[1]) /\ Low(s[2]) THEN 2 ELSE 1]
Pairs(units) == Pieces(units, PairLength)
IsWhole(c) == Len(c) = 2 \/ ~(High(c[1]) \/ Low(c[1]))

CodePoint16(c) ==
    IF Len(c) = 2 THEN 65536 + 1024 * (c[1] - 55296) + (c[2] - 56320)
    ELSE IF IsWhole(c) THEN c[1] ELSE Replacement

DecodeUtf16(units) == [k \in DOMAIN Pairs(units) |-> CodePoint16(Pairs(units)[k])]

UnitsOf(cp) ==
    IF cp < 65536 THEN <<cp>>
    ELSE <<55296 + ((cp - 65536) \div 1024), 56320 + ((cp - 65536) % 1024)>>

EncodeUtf16(cps) == FlattenSeq([i \in DOMAIN cps |-> UnitsOf(cps[i])])

\* Code page 1252 from 128 to 159; the five unused bytes map to themselves.
Windows1252 ==
    <<8364, 129, 8218, 402, 8222, 8230, 8224, 8225, 710, 8240, 352, 8249, 338, 141, 381, 143,
      144, 8216, 8217, 8220, 8221, 8226, 8211, 8212, 732, 8482, 353, 8250, 339, 157, 382, 376>>

FromAnsi(b) == IF b \in 128..159 THEN Windows1252[b - 127] ELSE b
AnsiToUtf8(s) == EncodeUtf8([i \in DOMAIN s |-> FromAnsi(s[i])])
HasAnsi(cp) == \E b \in 0..255 : FromAnsi(b) = cp

\* What has no byte becomes a question mark (or a character that looks alike: left out).
ToAnsi(cp) == IF HasAnsi(cp) THEN CHOOSE b \in 0..255 : FromAnsi(b) = cp ELSE Question
UnicodeToAnsi(cps) == [i \in DOMAIN cps |-> ToAnsi(cps[i])]

CanEncodeLosslessly(text, encoding) ==
    encoding = "Ansi" => \A i \in DOMAIN DecodeUtf8(text) : HasAnsi(DecodeUtf8(text)[i])

-----------------------------------------------------------------------------
(* Reading and writing. *)

ASSUME FormatAssumption ==
    /\ Files \subseteq Seq(0..255) /\ NoDocument \notin Files
    /\ \A t \in Typed : t \in Seq(0..255) /\ IsValidUtf8(t)

Bom == [Utf8Bom |-> <<239, 187, 191>>, Utf16LE |-> <<255, 254>>, Utf16BE |-> <<254, 255>>]

\* The encoding the first bytes announce, or "Utf8".
Announces(bytes) ==
    IF \E e \in DOMAIN Bom : IsPrefix(Bom[e], bytes)
    THEN CHOOSE e \in DOMAIN Bom : IsPrefix(Bom[e], bytes)
    ELSE "Utf8"

BomOf(encoding) == IF encoding \in DOMAIN Bom THEN Bom[encoding] ELSE <<>>

\* The encoding, the text and the line ending; an empty file has the defaults.
ReadDocument(bytes) ==
    LET announced == Announces(bytes)
        payload == SubSeq(bytes, Len(BomOf(announced)) + 1, Len(bytes))
        encoding == IF announced = "Utf8" /\ ~IsValidUtf8(payload) THEN "Ansi" ELSE announced
        text == IF encoding = "Ansi" THEN AnsiToUtf8(payload)
                ELSE IF encoding \in {"Utf8", "Utf8Bom"} THEN payload
                ELSE EncodeUtf8(DecodeUtf16(Units(payload, encoding)))
    IN  [text |-> text, encoding |-> encoding, eol |-> DetectLineEnding(text)]

\* Mutant: a UTF-8 document loses its mark.
EncodeWithoutBom(text, encoding, eol) ==
    LET normalized == NormalizeLineEndings(text, eol)
        units == EncodeUtf16(DecodeUtf8(normalized))
        payload == IF encoding \in {"Utf8", "Utf8Bom"} THEN normalized
                   ELSE IF encoding = "Ansi" THEN UnicodeToAnsi(DecodeUtf8(normalized))
                   ELSE FlattenSeq([i \in DOMAIN units |-> UnitBytes(units[i], encoding)])
    IN  IF encoding = "Utf8Bom" THEN payload ELSE BomOf(encoding) \o payload

\* encodedBytes of WriteDocumentAtomic.
Encode(text, encoding, eol) ==
    LET normalized == NormalizeLineEndings(text, eol)
        units == EncodeUtf16(DecodeUtf8(normalized))
        payload == IF encoding \in {"Utf8", "Utf8Bom"} THEN normalized
                   ELSE IF encoding = "Ansi" THEN UnicodeToAnsi(DecodeUtf8(normalized))
                   ELSE FlattenSeq([i \in DOMAIN units |-> UnitBytes(units[i], encoding)])
    IN  BomOf(encoding) \o payload

-----------------------------------------------------------------------------
Init ==
    /\ file \in Files
    /\ doc = NoDocument
    /\ phase = "unread"
    /\ answer = "none"
    /\ original = NoDocument

Open ==
    /\ phase = "unread"
    /\ doc' = ReadDocument(file)
    /\ phase' = "open"
    /\ original' = file
    /\ UNCHANGED <<file, answer>>

\* One edit: something typed at the start or the end, or everything replaced by it.  A
\* character and not a part of one: the editor works on UTF-8.
Edit ==
    /\ phase = "open"
    /\ answer = "none"
    /\ \E t \in Typed : \E text \in {t \o doc.text, doc.text \o t, t} : doc' = [doc EXCEPT !.text = text]
    /\ phase' = "edited"
    /\ original' = NoDocument
    /\ UNCHANGED <<file, answer>>

WriteAs(encoding, outcome) ==
    /\ file' = Encode(doc.text, encoding, doc.eol)
    /\ doc' = [doc EXCEPT !.encoding = encoding]
    /\ phase' = "open"
    /\ answer' = outcome

\* WriteCurrentDocument: when the encoding lacks a character the user decides.
Save ==
    /\ phase \in {"open", "edited"}
    /\ IF CanEncodeLosslessly(doc.text, doc.encoding)
       THEN WriteAs(doc.encoding, "saved")
       ELSE \/ WriteAs("Utf8", "saved")
            \/ WriteAs(doc.encoding, "substituted")
            \/ answer' = "cancelled" /\ UNCHANGED <<file, doc, phase>>
    /\ UNCHANGED original

Next == Open \/ Edit \/ Save

Spec == Init /\ [][Next]_vars

-----------------------------------------------------------------------------
\* All breaks of a text are of one kind.
Uniform(s) == \E kind \in DOMAIN Eol : NormalizeLineEndings(s, kind) = s

\* UTF-16 made of whole units whose surrogates come in pairs.
WellFormed16(bytes, encoding) ==
    encoding \in {"Utf16LE", "Utf16BE"} =>
        /\ Len(bytes) % 2 = 0
        /\ \A k \in DOMAIN Pairs(Units(bytes, encoding)) : IsWhole(Pairs(Units(bytes, encoding))[k])

Saved == phase = "open" /\ answer = "saved"

\* Saving a document nobody edited gives back the bytes that were read ("round-trip byte a
\* byte"), when its breaks are of one kind and its UTF-16 is well formed.
RoundTrip ==
    Saved /\ original # NoDocument /\ Uniform(doc.text) /\ WellFormed16(original, doc.encoding)
        => file = original

\* The same promise without its two conditions: what the design document says.
RoundTripByteForByte == Saved /\ original # NoDocument => file = original

\* Only an ANSI document, or a text that starts with a byte order mark, can be taken for
\* another encoding when it is read again.
Ambiguous == \/ doc.encoding = "Ansi" /\ ReadDocument(file).encoding # "Ansi"
             \/ doc.encoding = "Utf8" /\ Announces(file) # "Utf8"

\* What opening the saved file would give.
Reread == ReadDocument(file)

\* What was saved is what the next reader finds: the text with its breaks normalised, the
\* encoding, and the line ending if there is one.
SavedTextComesBack ==
    Saved /\ ~Ambiguous =>
        /\ Reread.text = NormalizeLineEndings(doc.text, doc.eol)
        /\ Reread.encoding = doc.encoding
        /\ (\E i \in DOMAIN doc.text : doc.text[i] \in {CR, LF}) => Reread.eol = doc.eol
=============================================================================
