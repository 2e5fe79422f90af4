----------------------------- MODULE HttpUpstream -----------------------------
(***************************************************************************)
(* The HTTP client endpoint (src/include/wfx/endpoint/http.hpp): requests  *)
(* on one keep-alive connection and the incremental parser of their        *)
(* responses.                                                              *)
(*                                                                         *)
(* A response is a sequence of tokens: lines, each delivered as a head and *)
(* an end, and body bytes.  Parse consumes whatever a read brought unless  *)
(* it completes, so that the read buffer needs no variable of its own.     *)
(* The upstream is external.                                               *)
(***************************************************************************)
EXTENDS Naturals, Sequences, SequencesExt

CONSTANTS MaxBody,       \* limits.maxBodyBytes
          MaxHeaders,    \* limits.maxHeaderCount
          MaxInfo,       \* MAX_INFORMATIONAL_RESPONSES
          MaxRequests    \* bound: requests made

VARIABLES exchange,   \* external: the response being sent and what it means
          uwire,      \* tokens of it not yet read
          parse,      \* ParseState and the output object
          uslot,      \* "idle", "busy" or "closed"
          asked,      \* requests made
          outcome     \* how the last request ended

upstreamVars == <<exchange, uwire, parse, uslot, asked, outcome>>

------------------------------------------------------------------------------
(***************************************************************************)
(* Responses (external): tokens and meaning                                *)
(***************************************************************************)

TextLine(l) == <<[k |-> "head", l |-> l], [k |-> "end", l |-> l]>>
Bytes(n)    == [i \in 1..n |-> [k |-> "byte", l |-> [t |-> "bad"]]]
Status(c, minor0) == TextLine([t |-> "status", code |-> c, minor0 |-> minor0])
Length(n)   == TextLine([t |-> "cl", n |-> n])
Encoding    == TextLine([t |-> "te"])
CloseLine   == TextLine([t |-> "close"])
Field       == TextLine([t |-> "field"])
Blank       == TextLine([t |-> "blank"])
Size(n)     == TextLine([t |-> "size", n |-> n])
Garbage     == TextLine([t |-> "bad"])

Good(method, tokens, body, close) ==
    [method |-> method, tokens |-> tokens, ok |-> TRUE, body |-> body, close |-> close]
Refused(tokens) == [method |-> "GET", tokens |-> tokens, ok |-> FALSE, body |-> 0, close |-> TRUE]

Exchanges ==
    {Good("GET", Status(200, FALSE) \o Length(2) \o Blank \o Bytes(2), 2, FALSE),
     Good("GET", Status(200, TRUE) \o Length(2) \o Length(2) \o Blank \o Bytes(2), 2, TRUE),
     Good("GET", Status(200, FALSE) \o Length(0) \o CloseLine \o Blank, 0, TRUE),
     Good("HEAD", Status(200, FALSE) \o Length(2) \o Blank, 0, FALSE),
     Good("GET", Status(204, FALSE) \o Field \o Blank, 0, FALSE),
     Good("GET", Status(100, FALSE) \o CloseLine \o Blank \o Status(200, FALSE) \o Length(1)
                    \o Blank \o Bytes(1), 1, FALSE),
     Good("GET", Status(100, FALSE) \o Length(1) \o Blank \o Status(200, FALSE) \o Encoding
                    \o Blank \o Size(1) \o Bytes(1) \o Blank \o Size(1) \o Bytes(1) \o Blank
                    \o Size(0) \o Field \o Blank, 2, FALSE),
     Good("GET", Status(200, FALSE) \o Blank \o Bytes(2), 2, TRUE),
     Refused(Status(200, FALSE) \o Length(1) \o Encoding \o Blank \o Bytes(1)),
     Refused(Status(200, FALSE) \o Length(1) \o Length(2) \o Blank \o Bytes(2)),
     Refused(Status(200, FALSE) \o Length(MaxBody + 1) \o Blank \o Bytes(MaxBody + 1)),
     Refused(Status(200, FALSE) \o Encoding \o Blank \o Size(1) \o Bytes(1) \o Blank
                    \o Size(MaxBody) \o Bytes(MaxBody) \o Blank \o Size(0) \o Blank),
     Refused(Status(200, FALSE) \o Blank \o Bytes(MaxBody + 1)),
     Refused(Status(200, FALSE) \o Field \o Field \o Field \o Blank),
     Refused(FlattenSeq([i \in 1..(MaxInfo + 1) |-> Status(100, FALSE) \o Blank])
                    \o Status(204, FALSE) \o Blank),
     Refused(Garbage)}

------------------------------------------------------------------------------
(***************************************************************************)
(* The parser                                                              *)
(***************************************************************************)

FreshParse ==
    [phase |-> "STATUS_LINE", acc |-> FALSE, remaining |-> 0, headers |-> 0, infos |-> 0,
     chunked |-> FALSE, hasLength |-> FALSE, close |-> FALSE, minor0 |-> FALSE,
     code |-> 0, body |-> 0, result |-> "more"]

Done(p) == [p EXCEPT !.result = IF p.close \/ p.minor0 THEN "close" ELSE "keep"]
Bad(p)  == [p EXCEPT !.result = "error"]

\* ParseHeaderLine: framing headers, then the header count
ParseHeaderLine(p, l) ==
    LET counted == [p EXCEPT !.headers = @ + 1]
    IN  CASE p.headers + 1 > MaxHeaders -> Bad(p)
          [] l.t = "cl" /\ (\/ p.chunked \/ l.n > MaxBody
                            \/ p.hasLength /\ p.remaining # l.n) -> Bad(p)
          [] l.t = "cl" -> [counted EXCEPT !.hasLength = TRUE, !.remaining = l.n]
          [] l.t = "te" /\ p.hasLength -> Bad(p)
          [] l.t = "te" -> [counted EXCEPT !.chunked = TRUE]
          [] l.t = "close" -> [counted EXCEPT !.close = TRUE]
          [] l.t = "field" -> counted
          [] OTHER -> Bad(p)

\* Informational: a message of its own, whose flags do not reach the next one
AfterInformationalFault(p) ==
    IF p.infos + 1 > MaxInfo THEN Bad(p)
    ELSE [p EXCEPT !.infos = @ + 1, !.phase = "STATUS_LINE"]

AfterInformational(p) ==
    IF p.infos + 1 > MaxInfo THEN Bad(p)
    ELSE [p EXCEPT !.infos = @ + 1, !.chunked = FALSE, !.hasLength = FALSE,
                   !.close = FALSE, !.phase = "STATUS_LINE"]

\* The blank line that ends the header block decides how the body is framed
EndOfHeaders(p, method) ==
    CASE p.code \in 100..199 -> AfterInformational(p)
      [] method = "HEAD" \/ p.code \in {204, 304} -> Done(p)
      [] p.chunked -> [p EXCEPT !.phase = "CHUNK_SIZE"]
      [] p.hasLength /\ p.remaining = 0 -> Done(p)
      [] p.hasLength -> [p EXCEPT !.phase = "BODY"]
      [] OTHER -> [p EXCEPT !.phase = "UNTIL_CLOSE"]

\* One whole line, by phase
ParseLine(p, l, method) ==
    CASE p.phase = "STATUS_LINE" /\ l.t = "status" ->
            [p EXCEPT !.code = l.code, !.minor0 = l.minor0, !.headers = 0, !.phase = "HEADERS"]
      [] p.phase = "HEADERS" /\ l.t = "blank" -> EndOfHeaders(p, method)
      [] p.phase = "HEADERS" /\ l.t # "blank" -> ParseHeaderLine(p, l)
      [] p.phase = "CHUNK_SIZE" /\ l.t = "size" ->
            IF l.n = 0 THEN [p EXCEPT !.phase = "TRAILER"]
            ELSE IF l.n > MaxBody - p.body THEN Bad(p)
            ELSE [p EXCEPT !.remaining = l.n, !.phase = "CHUNK_DATA"]
      [] p.phase = "CHUNK_END" /\ l.t = "blank" -> [p EXCEPT !.phase = "CHUNK_SIZE"]
      [] p.phase = "TRAILER" /\ l.t = "blank" -> Done(p)
      [] p.phase = "TRAILER" /\ l.t # "blank" ->
            IF p.headers + 1 > MaxHeaders THEN Bad(p) ELSE [p EXCEPT !.headers = @ + 1]
      [] OTHER -> Bad(p)

\* One body byte in a phase that counts bytes
ParseByte(p) ==
    LET q == [p EXCEPT !.body = @ + 1, !.remaining = @ - 1]
    IN  CASE p.body + 1 > MaxBody -> Bad(p)
          [] q.remaining = 0 /\ p.phase = "CHUNK_DATA" -> [q EXCEPT !.phase = "CHUNK_END"]
          [] q.remaining = 0 /\ p.phase = "BODY" -> Done(q)
          [] OTHER -> q

\* Parse over the tokens one read brought; what follows a completed response
\* is left to the caller
Parse(p, tokens, method) ==
    LET Step(q, tok) ==
            IF q.result # "more" THEN q
            ELSE CASE q.phase \in {"BODY", "CHUNK_DATA"} -> ParseByte(q)
                   [] q.phase = "UNTIL_CLOSE" ->
                        IF q.body + 1 > MaxBody THEN Bad(q) ELSE [q EXCEPT !.body = @ + 1]
                   [] tok.k = "head" -> [q EXCEPT !.acc = TRUE]
                   [] OTHER -> [ParseLine(q, tok.l, method) EXCEPT !.acc = FALSE]
    IN  FoldLeft(Step, p, tokens)

\* Parse called at end of file: only a body delimited by the close is complete
AtEof(p) ==
    IF p.result # "more" THEN p
    ELSE IF p.phase = "UNTIL_CLOSE" THEN [p EXCEPT !.result = "close"]
    ELSE Bad(p)

------------------------------------------------------------------------------

UpstreamInit ==
    /\ exchange \in Exchanges
    /\ uwire = <<>> /\ parse = FreshParse /\ uslot = "idle" /\ asked = 0
    /\ outcome = [kind |-> "none"]

\* Serialize stores the method for the parser and the request goes out; the
\* upstream answers with some response to that method
Request(e) ==
    /\ uslot = "idle" /\ asked < MaxRequests
    /\ exchange' = e /\ uwire' = e.tokens
    /\ uslot' = "busy" /\ asked' = asked + 1
    /\ outcome' = [kind |-> "none"]
    /\ UNCHANGED parse

\* CompleteSingleSlotRequest and FailSlotOnParseError.  A slot that is kept
\* has its parse state reset and its read buffer cleared: whatever trails the
\* response in the same read is dropped.
Finish(p, rest) ==
    /\ uwire' = rest
    /\ outcome' = CASE p.result = "more" -> [kind |-> "none"]
                    [] p.result = "error" -> [kind |-> "error", eof |-> FALSE]
                    [] OTHER -> [kind |-> "done", body |-> p.body, close |-> p.result = "close",
                                 left |-> Len(rest)]
    /\ parse' = IF p.result = "more" THEN p ELSE FreshParse
    /\ uslot' = CASE p.result = "more" -> "busy" [] p.result = "keep" -> "idle" [] OTHER -> "closed"
    /\ UNCHANGED <<exchange, asked>>

\* A read of n tokens
ReadMore(n) ==
    /\ uslot = "busy"
    /\ Finish(Parse(parse, SubSeq(uwire, 1, n), exchange.method), SubSeq(uwire, n + 1, Len(uwire)))

\* The upstream closes, having sent everything or not
UpstreamCloses ==
    /\ uslot = "busy"
    /\ LET p == AtEof(parse)
       IN  /\ outcome' = IF p.result = "error"
                         THEN [kind |-> "error", eof |-> TRUE]
                         ELSE [kind |-> "done", body |-> p.body, close |-> TRUE, left |-> Len(uwire)]
           /\ uslot' = "closed"
           /\ parse' = FreshParse
    /\ UNCHANGED <<exchange, uwire, asked>>

UpstreamNext ==
    \/ \E e \in Exchanges : Request(e)
    \/ \E n \in 1..Len(uwire) : ReadMore(n)
    \/ UpstreamCloses

UpstreamSpec == UpstreamInit /\ [][UpstreamNext]_upstreamVars

------------------------------------------------------------------------------
\* A body that only the close delimits can be cut short unnoticed
UntilClose(e) == IsPrefix(Status(200, FALSE) \o Blank, e.tokens)

(* However the upstream's bytes are cut into reads and wherever it closes, *)
(* a response is delivered only whole and as it was framed, leaves the     *)
(* connection exactly at its end, and decides alone whether the connection *)
(* is reused; a well-formed response is never refused and an ambiguous one *)
(* never accepted (Parse, ParseHeaderLine, 1xx handling).                  *)
UpstreamAnswerExact ==
    /\ outcome.kind = "done" =>
          \/ /\ exchange.ok
             /\ outcome.close = exchange.close
             /\ outcome.body = exchange.body /\ outcome.left = 0
          \/ UntilClose(exchange) /\ outcome.close /\ outcome.left > 0
    /\ outcome.kind = "error" /\ ~outcome.eof => ~exchange.ok
==============================================================================
