------------------------------ MODULE JsonText ------------------------------
(***************************************************************************)
(* JSON as text: the parser (shared/json/json_parser.hpp), the streaming   *)
(* writer (json_writter.hpp) and the serializer of JsonObject              *)
(* (json_object.hpp).                                                      *)
(*                                                                         *)
(* A text is a sequence of pieces [t, v]: brackets, comma, colon, white    *)
(* space, a literal, a number (its characters), or a string (its           *)
(* characters and escapes).  An "open" string lacks its closing quote and  *)
(* so ends the text.  A character is a byte value; an escape keeps the     *)
(* UTF-16 unit it spells, since the parser has to join surrogate pairs     *)
(* and encode UTF-8.                                                       *)
(***************************************************************************)
EXTENDS Integers, Sequences, FiniteSets, SequencesExt

CONSTANTS TextKeys,    \* key strings, as byte sequences
          TextBytes,   \* bytes that programs put into strings they write
          RawControls, \* the serializer is given control bytes without a named escape
          Units,       \* UTF-16 units that texts spell
          DepthMax,    \* maxDepth of ParseImpl
          WriterDepth, \* MAX_DEPTH of JsonWriter
          MaxDigits,   \* the widest integer from_chars takes
          Magnitudes,  \* the powers of ten a double can have
          MaxText, MaxSpaces, MaxNum, MaxStr, MaxWritten    \* bounds on the inputs

VARIABLES mode, text, w, open

textVars == <<mode, text, w, open>>

Piece(t, v) == [t |-> t, v |-> v]
Sym(t) == Piece(t, <<>>)
Tree(tag, bytes) == [tag |-> tag, bytes |-> bytes, kids |-> <<>>]
Node(tag, kids)  == [tag |-> tag, bytes |-> <<>>, kids |-> kids]
Member(key, val) == [key |-> key, val |-> val]
Element(val)     == Member(<<>>, val)

Char(c)  == [k |-> "c", c |-> c]     \* the byte itself
Named(c) == [k |-> "n", c |-> c]     \* \n, \" ...: the byte it stands for
Unit(c)  == [k |-> "u", c |-> c]     \* \uXXXX
Plain(bytes) == [i \in DOMAIN bytes |-> Char(bytes[i])]
Bytes(v) == [i \in DOMAIN v |-> v[i].c]
BadEscape == [k |-> "bad", c |-> 0]  \* an unknown letter, or a malformed \u

-----------------------------------------------------------------------------
\* Strings.

\* A code point as UTF-8
EncodeUTF8(cp) ==
    IF cp < 128 THEN <<cp>>
    ELSE IF cp < 2048 THEN <<192 + cp \div 64, 128 + (cp % 64)>>
    ELSE IF cp < 65536 THEN <<224 + cp \div 4096, 128 + ((cp \div 64) % 64), 128 + (cp % 64)>>
    ELSE <<240 + cp \div 262144, 128 + ((cp \div 4096) % 64), 128 + ((cp \div 64) % 64), 128 + (cp % 64)>>

HighSurrogate(c) == c \in 55296 .. 56319
LowSurrogate(c)  == c \in 56320 .. 57343

Failed == [ok |-> FALSE, n |-> 0, bytes |-> <<>>]
Decoded(n, bytes) == [ok |-> TRUE, n |-> n, bytes |-> bytes]

\* One escape at v[i]: how many items it takes and the bytes it stands for
DecodeEscape(v, i) ==
    LET a == v[i] IN
    CASE a.k = "bad" -> Failed
      [] a.k = "n"   -> Decoded(1, <<a.c>>)
      [] a.k = "u" /\ HighSurrogate(a.c) ->
            IF i < Len(v) /\ v[i + 1].k = "u" /\ LowSurrogate(v[i + 1].c)
            THEN Decoded(2, EncodeUTF8(65536 + (a.c - 55296) * 1024 + (v[i + 1].c - 56320))) ELSE Failed
      [] a.k = "u" /\ LowSurrogate(a.c) -> Failed
      [] OTHER -> Decoded(1, EncodeUTF8(a.c))

Control(a) == a.k = "c" /\ a.c < 32

\* Where ScanString stops: the first control byte or escape, or the end
ScanStop(v) == {i \in DOMAIN v : (Control(v[i]) \/ v[i].k # "c") /\ \A j \in 1 .. i - 1 : v[j].k = "c" /\ v[j].c >= 32}

\* The slow path: copy bytes, decode escapes, refuse control bytes
RECURSIVE ParseStringEscaped(_, _, _)
ParseStringEscaped(v, i, out) ==
    IF i > Len(v) THEN Decoded(0, out)
    ELSE IF Control(v[i]) THEN Failed
    ELSE IF v[i].k = "c" THEN ParseStringEscaped(v, i + 1, Append(out, v[i].c))
    ELSE LET d == DecodeEscape(v, i) IN IF d.ok THEN ParseStringEscaped(v, i + d.n, out \o d.bytes) ELSE Failed

\* A string without escapes is taken as it stands and must be closed; one with
\* escapes is decoded, and its loop also ends at the end of the text.
ParseString(p) ==
    LET stop == ScanStop(p.v) IN
    IF \E i \in stop : Control(p.v[i]) THEN Failed
    ELSE IF stop # {} THEN ParseStringEscaped(p.v, 1, <<>>)
    ELSE IF p.t = "open" THEN Failed
    ELSE Decoded(0, Bytes(p.v))

-----------------------------------------------------------------------------
\* Numbers, over the characters that matter to them; One stands for any digit
\* but 0.

Minus == 45
Plus  == 43
Dot   == 46
Exp   == 101
Zero  == 48
One   == 49

At(v, i, c) == i <= Len(v) /\ v[i].c = c
DigitAt(v, i) == At(v, i, Zero) \/ At(v, i, One)

RECURSIVE AfterDigits(_, _)
AfterDigits(v, i) == IF DigitAt(v, i) THEN AfterDigits(v, i + 1) ELSE i

\* SkipDigits: the position after at least one digit, 0 without one
SkipDigits(v, i) == IF DigitAt(v, i) THEN AfterDigits(v, i) ELSE 0

ExponentStart(v, i) == IF At(v, i, Plus) \/ At(v, i, Minus) THEN i + 1 ELSE i

\* ScanNumber from position i: the position after the number, 0 when malformed
ScanNumber(v, i) ==
    LET whole == SkipDigits(v, i)
        frac  == IF whole # 0 /\ At(v, whole, Dot) THEN SkipDigits(v, whole + 1) ELSE whole
    IN IF frac # 0 /\ At(v, frac, Exp) THEN SkipDigits(v, ExponentStart(v, frac + 1)) ELSE frac

\* std::from_chars on what was scanned: refused with result_out_of_range when
\* the first digit that counts, or all of them, lie outside what the type holds.
FirstOf(v, c) == IF \E i \in DOMAIN v : v[i].c = c THEN CHOOSE i \in DOMAIN v : v[i].c = c /\ \A j \in 1 .. i - 1 : v[j].c # c
                 ELSE Len(v) + 1
ReadInt(v) == FoldLeft(LAMBDA n, a : IF a.c \in {Zero, One} THEN 10 * n + a.c - Zero ELSE n, 0, v)
Exponent(v) == LET e == SubSeq(v, FirstOf(v, Exp), Len(v)) IN IF At(e, 2, Minus) THEN 0 - ReadInt(e) ELSE ReadInt(e)

OutOfRange(v, isFloat) ==
    LET mantissa == SubSeq(v, 1, FirstOf(v, Exp) - 1)
        lead  == FirstOf(mantissa, One)
        point == FirstOf(mantissa, Dot)
        order == point - lead - IF lead < point THEN 1 ELSE 0
    IN lead <= Len(mantissa) /\ IF isFloat THEN order + Exponent(v) \notin Magnitudes ELSE order >= MaxDigits

\* ParseNumber: the tag the text gets; what the scan leaves over is read as
\* the next character of the container, which no number character can be.
ParseNumberFault(v) ==
    LET neg == At(v, 1, Minus)
        isFloat == \E i \in DOMAIN v : v[i].c \in {Dot, Exp}
    IN IF ScanNumber(v, IF neg THEN 2 ELSE 1) # Len(v) + 1 \/ (~isFloat /\ OutOfRange(v, FALSE)) THEN "NONE"
       ELSE IF isFloat THEN "DOUBLE" ELSE IF neg THEN "INT64" ELSE "UINT64"
ParseNumber(v) ==
    LET neg == At(v, 1, Minus)
        isFloat == \E i \in DOMAIN v : v[i].c \in {Dot, Exp}
    IN IF ScanNumber(v, IF neg THEN 2 ELSE 1) # Len(v) + 1 \/ OutOfRange(v, isFloat) THEN "NONE"
       ELSE IF isFloat THEN "DOUBLE" ELSE IF neg THEN "INT64" ELSE "UINT64"

-----------------------------------------------------------------------------
\* Values.  A result is the position after the value and its tree; position
\* 0 is failure (err_ set: every caller returns at once).

No == [pos |-> 0, tree |-> Tree("EMPTY", <<>>)]
Yes(pos, tree) == [pos |-> pos, tree |-> tree]

RECURSIVE SkipWS(_, _)
SkipWS(s, i) == IF i <= Len(s) /\ s[i].t = "ws" THEN SkipWS(s, i + 1) ELSE i

\* Peek, after SkipWS
Peek(s, i) == IF SkipWS(s, i) <= Len(s) THEN s[SkipWS(s, i)].t ELSE "end"

RECURSIVE ParseValue(_, _, _), ParseMembers(_, _, _, _), ParseElements(_, _, _, _)

KeyAt(s, i) == IF Peek(s, i) \in {"str", "open"} THEN ParseString(s[SkipWS(s, i)]) ELSE Failed

\* What both loops do behind a value: close the container, go on behind a
\* comma, or fail.
AfterValue(s, val, tag, key, depth, kids) ==
    LET all  == Append(kids, Member(key, val.tree))
        next == SkipWS(s, val.pos) + 1
        c    == Peek(s, val.pos)
    IN CASE val.pos = 0 -> No
         [] val.pos # 0 /\ c = (IF tag = "OBJECT" THEN "}" ELSE "]") -> Yes(next, Node(tag, all))
         [] val.pos # 0 /\ c = "," -> IF tag = "OBJECT" THEN ParseMembers(s, next, depth, all)
                                      ELSE ParseElements(s, next, depth, all)
         [] OTHER -> No

\* From the colon behind a key on
ParseMember(s, i, depth, kids, key) ==
    IF Peek(s, i) # ":" THEN No
    ELSE AfterValue(s, ParseValue(s, SkipWS(s, i) + 1, depth), "OBJECT", key, depth, kids)

\* A second member of the same name is taken
NewKeyFault(s, i, depth, kids, key) ==
    IF ~key.ok THEN No ELSE ParseMember(s, i, depth, kids, key.bytes)

\* A key the object already has is refused: GetOrCreate then allocated no node.
NewKey(s, i, depth, kids, key) ==
    IF ~key.ok \/ \E k \in DOMAIN kids : kids[k].key = key.bytes THEN No
    ELSE ParseMember(s, i, depth, kids, key.bytes)

\* The loop of ParseObject from a key on
ParseMembers(s, i, depth, kids) == NewKey(s, SkipWS(s, i) + 1, depth, kids, KeyAt(s, i))

\* The loop of ParseArray from an element on
ParseElements(s, i, depth, kids) ==
    AfterValue(s, ParseValue(s, i, depth), "ARRAY", <<>>, depth, kids)

ParseObject(s, i, depth) ==
    IF depth + 1 > DepthMax THEN No
    ELSE IF Peek(s, i) = "}" THEN Yes(SkipWS(s, i) + 1, Node("OBJECT", <<>>))
    ELSE ParseMembers(s, i, depth + 1, <<>>)

ParseArray(s, i, depth) ==
    IF depth + 1 > DepthMax THEN No
    ELSE IF Peek(s, i) = "]" THEN Yes(SkipWS(s, i) + 1, Node("ARRAY", <<>>))
    ELSE ParseElements(s, i, depth + 1, <<>>)

StringValue(at, str) == IF str.ok THEN Yes(at + 1, Tree("STR", str.bytes)) ELSE No
NumberValue(at, v, tag) == IF tag = "NONE" THEN No ELSE Yes(at + 1, Tree(tag, Bytes(v)))

ParseValue(s, i, depth) ==
    LET at == SkipWS(s, i)
        c  == Peek(s, i)
    IN CASE c \in {"str", "open"} -> StringValue(at, ParseString(s[at]))
         [] c = "{"   -> ParseObject(s, at + 1, depth)
         [] c = "["   -> ParseArray(s, at + 1, depth)
         [] c = "lit" -> Yes(at + 1, Tree("LIT", Bytes(s[at].v)))
         [] c = "num" -> NumberValue(at, s[at].v, ParseNumber(s[at].v))
         [] OTHER     -> No

\* ParseImpl: a root object or array, and nothing after it
AllRead(s, r) == IF r.pos # 0 /\ SkipWS(s, r.pos) = Len(s) + 1 THEN r ELSE No

ParseImpl(s) ==
    CASE Peek(s, 1) = "{" -> AllRead(s, ParseObject(s, SkipWS(s, 1) + 1, 0))
      [] Peek(s, 1) = "[" -> AllRead(s, ParseArray(s, SkipWS(s, 1) + 1, 0))
      [] OTHER -> No

-----------------------------------------------------------------------------
\* Serializing a tree (JsonObject::Write).

NamedEscapes == {34, 92, 10, 13, 9, 8, 12}

\* Escaped of JsonObject: the seven named escapes, everything else as it is
ObjectEscaped(bytes) == [i \in DOMAIN bytes |-> IF bytes[i] \in NamedEscapes THEN Named(bytes[i]) ELSE Char(bytes[i])]

\* Escaped of JsonWriter: also \u00XX for the other control bytes
WriterEscaped(bytes) ==
    [i \in DOMAIN bytes |-> CASE bytes[i] \in NamedEscapes -> Named(bytes[i])
                              [] bytes[i] \notin NamedEscapes /\ bytes[i] < 32 -> Unit(bytes[i])
                              [] OTHER -> Char(bytes[i])]

\* Items with a comma between them
Joined(items) == FoldLeft(LAMBDA out, x : IF out = <<>> THEN x ELSE Append(out, Sym(",")) \o x, <<>>, items)

RECURSIVE Serialize(_)
Serialize(t) ==
    CASE t.tag = "OBJECT" -> <<Sym("{")>> \o
            Joined([i \in DOMAIN t.kids |->
                <<Piece("str", ObjectEscaped(t.kids[i].key)), Sym(":")>> \o Serialize(t.kids[i].val)])
            \o <<Sym("}")>>
      [] t.tag = "ARRAY" -> <<Sym("[")>> \o Joined([i \in DOMAIN t.kids |-> Serialize(t.kids[i].val)]) \o <<Sym("]")>>
      [] t.tag = "STR"   -> <<Piece("str", ObjectEscaped(t.bytes))>>
      [] t.tag = "LIT"   -> <<Piece("lit", Plain(t.bytes))>>
      [] OTHER           -> <<Piece("num", Plain(t.bytes))>>

-----------------------------------------------------------------------------
\* JsonWriter.  commas and closes are the bit masks, as the sets of set bits.

NewWriter == [out |-> <<Sym("{")>>, commas |-> {}, closes |-> {}, over |-> 0, depth |-> 1]

Raw(x, s) == [x EXCEPT !.out = @ \o s]

Comma(x) == [(IF x.depth \in x.commas THEN Raw(x, <<Sym(",")>>) ELSE x) EXCEPT !.commas = @ \cup {x.depth}]

KeyText(key) == IF key = <<>> THEN <<>> ELSE <<Piece("str", WriterEscaped(key[1])), Sym(":")>>

OpenContainerFault(x, key, arr) ==
    [Raw(Comma(x), KeyText(key) \o <<Sym(IF arr THEN "[" ELSE "{")>>) EXCEPT
        !.closes = IF arr THEN @ \cup {x.depth} ELSE @ \ {x.depth}, !.depth = @ + 1]

\* Obj and Arr, with or without a key: past the cap nothing is written
OpenContainer(x, key, arr) ==
    IF x.over > 0 \/ x.depth >= WriterDepth THEN [x EXCEPT !.over = @ + 1]
    ELSE [Raw(Comma(x), KeyText(key) \o <<Sym(IF arr THEN "[" ELSE "{")>>) EXCEPT
             !.closes = IF arr THEN @ \cup {x.depth} ELSE @ \ {x.depth},
             !.depth = @ + 1, !.commas = @ \ {x.depth + 1}]

\* Close: first the opens past the cap, then real containers, never below the root
Close(x) ==
    IF x.over > 0 THEN [x EXCEPT !.over = @ - 1]
    ELSE IF x.depth = 0 THEN x
    ELSE [Raw(x, <<Sym(IF x.depth - 1 \in x.closes THEN "]" ELSE "}")>>) EXCEPT !.depth = @ - 1]

\* Write(key, v) and Push(v)
WriteValue(x, key, piece) == Raw(Comma(x), Append(KeyText(key), piece))

RECURSIVE Finished(_)
Finished(x) == IF x.depth = 0 THEN x.out ELSE Finished(Close(x))

-----------------------------------------------------------------------------
\* Inputs.  The calls a program makes on a writer keep its contract: keys in
\* objects, each once; none in arrays; no value while past the depth cap.
\* open is what was meant: the containers open so far, innermost last.

Frame(kind, key) == [kind |-> kind, key |-> key, kids |-> <<>>]

Kids(frames, key, t) ==
    LET n == Len(frames) IN
    [frames EXCEPT ![n].kids = Append(@, IF frames[n].kind = "OBJECT" THEN Member(key[1], t) ELSE Element(t))]

Top == open[Len(open)]

KeyChoices == IF Top.kind = "ARRAY" THEN {<<>>}
              ELSE {<<k>> : k \in {k \in TextKeys : \A i \in DOMAIN Top.kids : Top.kids[i].key # k}}

CallOpen == \E key \in KeyChoices, arr \in BOOLEAN :
    /\ w' = OpenContainer(w, key, arr)
    /\ open' = IF w.over > 0 \/ w.depth >= WriterDepth THEN open
               ELSE Append(open, Frame(IF arr THEN "ARRAY" ELSE "OBJECT", key))

Popped(frames) ==
    LET f == frames[Len(frames)] IN Kids(Front(frames), f.key, Node(f.kind, f.kids))

CallEnd ==
    /\ w.over > 0 \/ w.depth > 1
    /\ w' = Close(w)
    /\ open' = IF w.over > 0 THEN open ELSE Popped(open)

CallWrite == \E key \in KeyChoices, b \in TextBytes :
    /\ w.over = 0
    /\ w' = WriteValue(w, key, Piece("str", WriterEscaped(<<b>>)))
    /\ open' = Kids(open, key, Tree("STR", <<b>>))

RECURSIVE Meant(_)
Meant(frames) == IF Len(frames) = 1 THEN Node("OBJECT", frames[1].kids) ELSE Meant(Popped(frames))

CallWriter ==
    /\ mode = "writer" /\ Len(w.out) + w.over <= MaxWritten
    /\ CallOpen \/ CallEnd \/ CallWrite
    /\ UNCHANGED <<mode, text>>

\* The documents texts are drawn from: nested containers over a few scalars
Scalars == {Tree("UINT64", <<Zero>>), Tree("STR", <<120>>)}
Flat == UNION {{Node("ARRAY", <<>>), Node("ARRAY", <<Element(s)>>), Node("OBJECT", <<>>)}
          \cup {Node("OBJECT", <<Member(k, s)>>) : k \in TextKeys} : s \in Scalars}
Pairs == {Node("ARRAY", <<Element(s), Element(t)>>) : s, t \in Scalars}
    \cup {Node("OBJECT", <<Member(k, s), Member(l, t)>>) : k, l \in TextKeys, s, t \in Scalars}
Nested == {Node("ARRAY", <<Element(d)>>) : d \in Flat} \cup {Node("OBJECT", <<Member(k, d)>>) : k \in TextKeys, d \in Flat}
Deeper == {Node("ARRAY", <<Element(Node("ARRAY", <<Element(d)>>))>>) : d \in Nested}
Documents == Flat \cup Pairs \cup Nested \cup Deeper

Pieces == {Sym(t) : t \in {"{", "}", "[", "]", ",", ":", "ws"}} \cup {Piece("num", Plain(<<Zero>>)), Piece("open", Plain(<<120>>)),
           Piece("open", <<Named(10)>>), Piece("str", Plain(<<120>>))} \cup {Piece("str", Plain(k)) : k \in TextKeys}

RECURSIVE Depth(_)
Depth(t) == IF t.tag \notin {"ARRAY", "OBJECT"} THEN 0
            ELSE 1 + FoldLeft(LAMBDA m, k : IF Depth(k.val) > m THEN Depth(k.val) ELSE m, 0, t.kids)

\* Among them, the ones ParseImpl is to accept: each key once, not too deep
Acceptable(d) ==
    /\ Depth(d) <= DepthMax
    /\ d.tag = "OBJECT" => IsInjective([i \in DOMAIN d.kids |-> d.kids[i].key])
Texts == {Serialize(d) : d \in {e \in Documents : Acceptable(e)}}
AllTexts == {Serialize(d) : d \in Documents}
Stripped(s) == SelectSeq(s, LAMBDA p : p.t # "ws")
Live(s) == \E x \in AllTexts : IsPrefix(Stripped(s), x)

\* A text is typed piece by piece; one that no document starts with is not continued.
TypeText ==
    /\ mode = "text" /\ Len(text) < MaxText /\ Live(text)
    /\ \A i \in DOMAIN text : text[i].t # "open"
    /\ \E p \in Pieces : text' = Append(text, p) /\ Len(text') - Len(Stripped(text')) <= MaxSpaces
    /\ UNCHANGED <<mode, w, open>>

TypeNumber ==
    /\ mode = "number" /\ Len(text) < MaxNum
    /\ \E c \in {Minus, Zero, One, Dot, Exp, Plus} : text' = Append(text, Char(c))
    /\ UNCHANGED <<mode, w, open>>

TypeString ==
    /\ mode = "string" /\ Len(text) < MaxStr
    /\ \E a \in {Char(120), Char(1), Named(10), BadEscape} \cup {Unit(u) : u \in Units} : text' = Append(text, a)
    /\ UNCHANGED <<mode, w, open>>

\* The strings a document to be serialized may hold
TypeBytes ==
    /\ mode = "tree" /\ Len(text) < MaxStr
    /\ \E b \in TextBytes : (b >= 32 \/ b \in NamedEscapes \/ RawControls) /\ text' = Append(text, b)
    /\ UNCHANGED <<mode, w, open>>

TextInit ==
    /\ mode \in {"text", "number", "string", "writer", "tree"}
    /\ text = <<>> /\ w = NewWriter /\ open = <<Frame("OBJECT", <<>>)>>

TextNext == CallWriter \/ TypeText \/ TypeNumber \/ TypeString \/ TypeBytes

TextSpec == TextInit /\ [][TextNext]_textVars

-----------------------------------------------------------------------------
\* Properties.

\* The grammar of a number, a leading zero included: [-] d+ [. d+] [e [+-] d+]
IsNumber(v) ==
    \E sign \in {<<>>, <<Minus>>}, whole, frac, exp \in 0 .. Len(v), esign \in {<<>>, <<Plus>>, <<Minus>>} :
        LET ds(n) == [i \in 1 .. n |-> Zero] IN
        /\ whole > 0
        /\ \E f \in {<<>>, <<Dot>> \o ds(frac)}, e \in {<<>>, <<Exp>> \o esign \o ds(exp)} :
              /\ [i \in DOMAIN v |-> IF v[i].c = One THEN Zero ELSE v[i].c] = sign \o ds(whole) \o f \o e
              /\ f # <<>> => frac > 0
              /\ e # <<>> => exp > 0

\* Its value, digits * 10^k, is one the type has: small enough for an integer,
\* and for a double 0 or of a magnitude it can have.
Representable(v) ==
    LET mantissa == SelectSeq(v, LAMBDA a : a.c \in {Zero, One, Dot, Exp})
        written  == SubSeq(mantissa, 1, FirstOf(mantissa, Exp) - 1)
        digits == ReadInt(written)
        k == Exponent(v) - IF FirstOf(written, Dot) > Len(written) THEN 0 ELSE Len(written) - FirstOf(written, Dot)
    IN IF \E i \in DOMAIN v : v[i].c \in {Dot, Exp}
       THEN digits = 0 \/ \E n \in 0 .. Len(v) - 1 : 10 ^ n <= digits /\ digits < 10 ^ (n + 1) /\ n + k \in Magnitudes
       ELSE digits < 10 ^ MaxDigits

\* The code points a string spells, where every surrogate is half of a pair
RECURSIVE CodePoints(_)
CodePoints(v) ==
    IF v = <<>> THEN <<>>
    ELSE IF Head(v).k = "u" /\ HighSurrogate(Head(v).c)
         THEN <<65536 + (Head(v).c - 55296) * 1024 + v[2].c - 56320>> \o CodePoints(SubSeq(v, 3, Len(v)))
         ELSE <<Head(v).c>> \o CodePoints(Tail(v))

PairsUp(v) == \A i \in DOMAIN v : v[i].k = "u" =>
    /\ HighSurrogate(v[i].c) => i < Len(v) /\ v[i + 1].k = "u" /\ LowSurrogate(v[i + 1].c)
    /\ LowSurrogate(v[i].c) => i > 1 /\ v[i - 1].k = "u" /\ HighSurrogate(v[i - 1].c)

\* UTF-8 read back: the lead byte says how many continuation bytes follow
RECURSIVE ReadUTF8(_)
ReadUTF8(b) ==
    IF b = <<>> THEN <<>>
    ELSE LET n == IF b[1] < 128 THEN 1 ELSE IF b[1] < 224 THEN 2 ELSE IF b[1] < 240 THEN 3 ELSE 4
             lead == IF n = 1 THEN b[1] ELSE b[1] % (2 ^ (7 - n))
         IN <<FoldLeft(LAMBDA cp, c : cp * 64 + (c % 64), lead, SubSeq(b, 2, n))>> \o ReadUTF8(SubSeq(b, n + 1, Len(b)))

ShortestUTF8(cp, n) == n = IF cp < 128 THEN 1 ELSE IF cp < 2048 THEN 2 ELSE IF cp < 65536 THEN 3 ELSE 4

\* ParseImpl accepts exactly the texts of documents within the depth limit,
\* with any white space between pieces, and returns the document: duplicate
\* keys, missing or extra separators, trailing content and cut-off strings
\* are refused (also the cut-off escaped string that ParseStringEscaped itself
\* lets through); a string decodes to the UTF-8, of the shortest form, of the
\* code points it spells; a number is accepted when the grammar has it and its
\* value fits: an integer that is too wide and a float that a double would
\* round to infinity or to 0 are refused.
ParserExact ==
    CASE mode = "text"   -> \E r \in {ParseImpl(text)} :
                               IF Stripped(text) \in Texts THEN r.pos # 0 /\ Serialize(r.tree) = Stripped(text) ELSE r.pos = 0
      [] mode = "number" -> (ParseNumber(text) # "NONE") <=>
                               IsNumber(text) /\ Representable(text)
      [] mode = "string" -> \E r \in {ParseString(Piece("str", text))} :
                               /\ r.ok <=> PairsUp(text) /\ \A i \in DOMAIN text : ~Control(text[i]) /\ text[i].k # "bad"
                               /\ r.ok => /\ ReadUTF8(r.bytes) = CodePoints(text)
                                          /\ Len(text) = 1 => ShortestUTF8(text[1].c, Len(r.bytes))
      [] OTHER -> TRUE

\* What the streaming writer leaves on the wire when it goes out of scope, at
\* any moment and at any depth (past the cap included), is a text the library's
\* own parser reads back as exactly what was written.
WriterReadsBack ==
    mode = "writer" => \E r \in {ParseImpl(Finished(w))} : r.pos # 0 /\ r.tree = Meant(open)

\* A document's own text (Serialize) is read back as the same document.
SerializerReadsBack ==
    mode = "tree" =>
        LET t == Node("OBJECT", <<Member(text, Node("ARRAY", <<Element(Tree("STR", text)), Element(Tree("LIT", <<110>>))>>))>>)
        IN \E r \in {ParseImpl(Serialize(t))} : r.pos # 0 /\ r.tree = t

\* Both producers of JSON text agree with the parser: the streaming writer
\* always, the serializer on strings without bare control bytes.
TextReadsBack == WriterReadsBack /\ SerializerReadsBack
=============================================================================
