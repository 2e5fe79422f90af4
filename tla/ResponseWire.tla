----------------------------- MODULE ResponseWire -----------------------------
(***************************************************************************)
(* Building a response in place in the connection's write buffer           *)
(* (http/response/http_response.cpp) and sending it chunk by chunk         *)
(* (FlushChunk of os_specific/linux/epoll_connection.cpp).                 *)
(*                                                                         *)
(* The buffer is a sequence of tokens [t, n]: the status line (n is its    *)
(* code), headers, the content length (n is the number of body pieces it   *)
(* announces), the blank line, body pieces, chunks, the reserved gap that  *)
(* a flush round turns into a chunk header, and the chunked terminator.    *)
(* A handler may make any sequence of calls; the engine repairs what it    *)
(* can by replacing the response with a 500.                               *)
(***************************************************************************)
EXTENDS Integers, Sequences, SequencesExt, FiniteSets

CONSTANTS
    MaxResponseCalls,  \* bound: calls one handler makes
    KeepsContract  \* does a streaming handler keep to the rules of FlushStart?

Codes == {200, 204, 500}
ForbidsBody(code) == code = 204            \* StatusForbidsBody

\* ResponsePhase, in order.
FRESH == 0
STATUS == 1
HEADERS == 2
BODY == 3
COMMITTED == 4

VARIABLES
    res,           \* the HttpResponse
    sent,          \* what FlushChunk has put on the wire already
    made,         \* calls made by the handler
    returned       \* HandleResponse has run

responseVars == <<res, sent, made, returned>>

Tok(t, n) == [t |-> t, n |-> n]
Fresh ==
    [phase |-> FRESH, kind |-> "NONE", status |-> 200, clNeeded |-> FALSE, aborted |-> FALSE,
     pers |-> 0, body |-> 0, buf |-> <<>>]
Put(r, t) == [r EXCEPT !.buf = Append(@, Tok(t, 0))]
PutAll(r, ts) == [r EXCEPT !.buf = @ \o [i \in DOMAIN ts |-> Tok(ts[i], 0)]]

EnsureStatusLineReserved(r) ==
    IF r.phase # FRESH THEN r
    ELSE [r EXCEPT !.buf = Append(@, Tok("line", 200)), !.phase = STATUS, !.pers = Len(r.buf) + 1]

EnsureHeadersOpen(r) ==
    LET s == EnsureStatusLineReserved(r)
    IN  IF s.phase = STATUS THEN [Put(s, "conn") EXCEPT !.phase = HEADERS] ELSE s

\* Patching three digits at a fixed offset: right only while the buffer still
\* starts with the status line.
PatchStatus(r, code) ==
    [r EXCEPT !.status = code,
              !.buf[1] = IF @.t = "line" THEN Tok("line", code) ELSE Tok("torn", 0)]

\* Patched in place by Commit, InjectContentLength recorded where.
PatchLength(r) ==
    IF ~r.clNeeded THEN r
    ELSE [r EXCEPT !.buf = [i \in DOMAIN @ |->
            IF @[i].t = "cl" THEN Tok("cl", Len(r.buf) - r.body) ELSE @[i]]]

DropGap(b) == IF Last(b).t = "gap" THEN Front(b) ELSE Append(Front(b), Tok("torn", 0))

CommitOpen(r) ==
    [(IF r.kind = "AWAIT" THEN [r EXCEPT !.buf = Append(DropGap(@), Tok("last", 0))]
      ELSE IF r.phase < BODY
      THEN LET h == EnsureHeadersOpen(r)
           IN  [PutAll(h, (IF ForbidsBody(r.status) THEN <<>> ELSE <<"cl">>) \o <<"end">>)
                  EXCEPT !.kind = "BUFFERED"]
      ELSE PatchLength(r))
     EXCEPT !.phase = COMMITTED]

OpenBody(r) ==
    LET h == PutAll(EnsureHeadersOpen(r), <<"cl", "end">>)
    IN  [h EXCEPT !.clNeeded = TRUE, !.body = Len(h.buf), !.kind = "BUFFERED", !.phase = BODY]

\* SendText on a response that is neither committed nor has a body.
SendText(r) ==
    LET b == OpenBody(Put(EnsureHeadersOpen(r), "hdr")) IN CommitOpen(Put(b, "body"))

\* The buffer is truncated to the status line and the persistent headers; once
\* a flush has emptied it those bytes are left over from the last chunk.
AbortWithErrorFault(r, code) ==
    SendText(PatchStatus(EnsureStatusLineReserved(
        [r EXCEPT !.phase = IF @ > STATUS THEN HEADERS ELSE @, !.kind = "NONE",
                  !.clNeeded = FALSE, !.body = 0, !.aborted = FALSE]), code))

AbortWithError(r, code) ==
    LET kept == [i \in 1 .. r.pers |-> IF i <= Len(r.buf) THEN r.buf[i] ELSE Tok("torn", 0)]
        cut == [r EXCEPT !.buf = kept, !.phase = IF r.pers > 0 THEN STATUS ELSE FRESH,
                         !.kind = "NONE", !.clNeeded = FALSE, !.body = 0, !.aborted = FALSE]
    IN  SendText(PatchStatus(EnsureStatusLineReserved(cut), code))

AbortContractViolation(r) ==
    IF r.aborted THEN r ELSE [AbortWithError(r, 500) EXCEPT !.aborted = TRUE]

\* RejectIfCommitted, then the call's own refusals, then its work.
Guarded(r, refused, done) ==
    IF r.aborted THEN r
    ELSE IF r.phase = COMMITTED \/ refused THEN AbortContractViolation(r)
    ELSE done

WriteStatus(r, code) == Guarded(r, r.phase >= BODY, PatchStatus(EnsureStatusLineReserved(r), code))

WritePersistentHeader(r) ==
    Guarded(r, r.phase >= HEADERS,
        LET p == Put(EnsureStatusLineReserved(r), "pers") IN [p EXCEPT !.pers = Len(p.buf)])

WriteHeader(r, legal) == Guarded(r, r.phase = BODY \/ ~legal, Put(EnsureHeadersOpen(r), "hdr"))

WriteBodyData(r) ==
    Guarded(r, r.phase < BODY /\ ForbidsBody(r.status),
        Put(IF r.phase < BODY THEN OpenBody(r) ELSE r, "body"))

WriteFile(r, exists) ==
    Guarded(r, r.phase = BODY \/ r.kind # "NONE" \/ ForbidsBody(r.status),
        IF ~exists THEN AbortWithError(r, 404)
        ELSE [PutAll(EnsureHeadersOpen(r), <<"cl", "hdr", "end">>)
                EXCEPT !.kind = "FILE", !.phase = COMMITTED])

WriteStream(r, chunked) ==
    Guarded(r, r.kind # "NONE" \/ ForbidsBody(r.status),
        [PutAll(EnsureHeadersOpen(r), (IF chunked THEN <<"te">> ELSE <<>>) \o <<"end">>)
            EXCEPT !.kind = "GEN", !.phase = COMMITTED])

ReserveNextFlushGap(r) ==
    LET g == Put(r, "gap") IN [g EXCEPT !.body = Len(g.buf)]

WriteFlushStartFault(r) ==
    Guarded(r, r.kind # "NONE",
        ReserveNextFlushGap([PutAll(EnsureHeadersOpen(r), <<"te", "end">>)
            EXCEPT !.kind = "AWAIT", !.phase = BODY]))

WriteFlushStart(r) ==
    Guarded(r, r.kind # "NONE" \/ ForbidsBody(r.status),
        ReserveNextFlushGap([PutAll(EnsureHeadersOpen(r), <<"te", "end">>)
            EXCEPT !.kind = "AWAIT", !.phase = BODY]))

Commit(r) == Guarded(r, FALSE, CommitOpen(r))

HasPendingFlushData(r) == Len(r.buf) > r.body

\* The bytes of one round: the gap becomes the chunk's size line, or is
\* dropped when only the terminator is left to send.
PrepareFlushChunk(r, isFinal) ==
    IF ~HasPendingFlushData(r)
    THEN Append(DropGap(r.buf), Tok("last", 0))
    ELSE SubSeq(r.buf, 1, r.body - 1)
         \o <<Tok("chunk", Len(r.buf) - r.body)>>
         \o (IF isFinal THEN <<Tok("last", 0)>> ELSE <<>>)

FinishFlushRound(r, isFinal) ==
    LET c == [r EXCEPT !.buf = <<>>]
    IN  IF isFinal THEN [c EXCEPT !.phase = COMMITTED] ELSE ReserveNextFlushGap(c)

-------------------------------------------------------------------------------
ResponseInit == res = Fresh /\ sent = <<>> /\ made = 0 /\ returned = FALSE

\* A call of the handler (or of the middleware and the CORS code before it).
Call(r) == res' = r /\ made' = made + 1 /\ UNCHANGED <<sent, returned>>

Streaming == res.kind = "AWAIT"
Building == ~returned /\ made < MaxResponseCalls
Free == Building /\ (KeepsContract => ~Streaming)

CallStatus(code) == Free /\ Call(WriteStatus(res, code))
CallPersistentHeader == Free /\ Call(WritePersistentHeader(res))
CallHeader(legal) == Free /\ Call(WriteHeader(res, legal))
CallWrite == Building /\ (Streaming => res.phase = BODY) /\ Call(WriteBodyData(res))
CallFile(exists) == Free /\ Call(WriteFile(res, exists))
CallStream(chunked) == Free /\ Call(WriteStream(res, chunked))
CallFlushStart == Free /\ Call(WriteFlushStart(res))
CallCommit == Free /\ Call(Commit(res))

\* FlushChunk on a writable socket.  A non-final round with nothing pending
\* sends nothing; a response that is not a stream closes the connection.
FlushChunk(isFinal) ==
    /\ Building /\ Streaming /\ res.phase = BODY
    /\ made' = made + 1
    /\ IF ~isFinal /\ ~HasPendingFlushData(res)
       THEN UNCHANGED <<res, sent>>
       ELSE /\ sent' = sent \o PrepareFlushChunk(res, isFinal)
            /\ res' = FinishFlushRound(res, isFinal)
    /\ UNCHANGED returned

\* HandleResponse: an unfinished response is committed, then the buffer is sent.
HandleResponse ==
    /\ ~returned
    /\ (KeepsContract /\ Streaming /\ res.phase = BODY) => ~HasPendingFlushData(res)
    /\ res' = IF res.phase = COMMITTED THEN res ELSE Commit(res)
    /\ sent' = sent \o res'.buf
    /\ returned' = TRUE
    /\ UNCHANGED made

ResponseNext ==
    \/ \E code \in {200, 204} : CallStatus(code)
    \/ CallPersistentHeader
    \/ \E legal \in BOOLEAN : CallHeader(legal)
    \/ CallWrite
    \/ \E exists \in BOOLEAN : CallFile(exists)
    \/ \E chunked \in BOOLEAN : CallStream(chunked)
    \/ CallFlushStart
    \/ CallCommit
    \/ \E isFinal \in BOOLEAN : FlushChunk(isFinal)
    \/ HandleResponse

-------------------------------------------------------------------------------
Rank(t) ==
    CASE t = "line" -> 1 [] t = "pers" -> 2 [] t = "conn" -> 3 [] t \in {"hdr", "cl", "te"} -> 4
      [] t = "end" -> 5 [] t \in {"body", "chunk"} -> 6 [] t = "last" -> 7 [] OTHER -> 0
Count(t) == Cardinality({i \in DOMAIN sent : sent[i].t = t})

(* Whatever calls the handler made, in whatever order, what leaves is one  *)
(* HTTP message: one status line, one Connection header, the headers in    *)
(* front of one blank line, one framing that matches the body (the length  *)
(* patched by Commit, or chunks closed by exactly one terminator), and no  *)
(* body on a status that forbids one.  A call that breaks the rules leaves *)
(* a well-formed 500, never half of each response.                         *)
WireWellFormed ==
    returned =>
        /\ \A i, j \in DOMAIN sent : i < j => Rank(sent[i].t) <= Rank(sent[j].t)
        /\ Count("torn") = 0 /\ Count("gap") = 0
        /\ Count("line") = 1 /\ Count("conn") = 1 /\ Count("end") = 1
        /\ Count("cl") + Count("te") <= 1
        /\ res.kind = "BUFFERED" => \A i \in DOMAIN sent :
               /\ sent[i].t = "line" => sent[i].n = res.status
               /\ sent[i].t = "cl" => sent[i].n = Count("body")
        /\ Count("last") = (IF res.kind = "AWAIT" THEN 1 ELSE 0)
        /\ ForbidsBody(sent[1].n) => Count("body") + Count("chunk") + Count("cl") + Count("te") = 0
===============================================================================
