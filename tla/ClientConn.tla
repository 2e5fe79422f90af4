------------------------------ MODULE ClientConn ------------------------------
(***************************************************************************)
(* One client connection slot of a worker, from accept to release: the     *)
(* event handlers of os_specific/linux/epoll_connection.cpp, the request   *)
(* dispatch of engine/core_engine.cpp, the middleware chain of             *)
(* http/middleware/http_middleware.cpp, the context of                     *)
(* http/connection/http_connection.cpp and the coroutine of an             *)
(* asynchronous middleware or route (include/async).                       *)
(*                                                                         *)
(* The loop is single threaded, so one event runs to completion.  A        *)
(* handler is therefore an operator from the slot's state to the SET of    *)
(* states it may leave, one per outcome of its system calls and of the     *)
(* application code it calls; Then chains two handlers.  What interleaves  *)
(* are events: socket readiness (fetched by epoll_wait, handled later in   *)
(* the batch), the expiry wheel, the sleep heap, an endpoint's answer, and *)
(* the peer, which sends, stops reading, drains, half-closes or resets.    *)
(***************************************************************************)
EXTENDS Naturals, Sequences, FiniteSets

CONSTANTS RequestKinds,   \* header ends a peer may send, a subset of AllKinds
          HttpsModes,     \* values of useHttps_ to consider
          GlobalMw,       \* length of middlewareGlobalCallbacks_
          RouteMw,        \* length of the matched route's own stack
          KeepsContract,  \* handlers neither throw nor await once the stream
                          \* they started is past its FlushStart / FlushEnd
          MaxGen,         \* bound: connections the slot serves
          MaxSent,        \* bound: pieces one peer sends
          MaxRounds,      \* bound: awaits of one coroutine
          MaxChunks       \* bound: chunks of one generator

AllKinds == {"get", "getclose", "post", "expect", "refused", "bad"}

ASSUME KindsAssumption == RequestKinds \subseteq AllKinds
ASSUME MwAssumption == GlobalMw \in Nat /\ RouteMw \in Nat

VARIABLES conn,    \* the ClientCtx, its place in the wheel and the heap
          sock,    \* the socket: unread input, peer state, readiness edge
          arrivals,   \* the event epoll_wait returned for it, not yet handled
          log,     \* history of the current connection
          armed,   \* the slot has an entry in the timer wheel
          heap,    \* the slot's id is in the sleep heap
          world    \* configuration, and history of the process

clientVars == <<conn, sock, arrivals, log, armed, heap, world>>

NoEvent == [gen |-> 0, in |-> FALSE, out |-> FALSE, rdhup |-> FALSE, err |-> FALSE]

(* ClientCtx::Reset(): every field of a free slot.                         *)
ResetClient(g) ==
    [used |-> FALSE, gen |-> g, ev |-> "ACCEPT", alive |-> FALSE, shut |-> FALSE,
     tls |-> FALSE, parse |-> "HEADERS", need |-> FALSE, rbuf |-> <<>>,
     call |-> "IDLE", eLevel |-> "MIDDLEWARE", mLevel |-> "GLOBAL", mIndex |-> 0,
     mAction |-> "CONTINUE", coro |-> "none", wait |-> "none", data |-> FALSE,
     sleeping |-> FALSE, flushWait |-> FALSE, flushFinal |-> FALSE, rounds |-> 0,
     kind |-> "none", stage |-> "none", wbuf |-> "none", file |-> FALSE,
     stream |-> FALSE, chunked |-> FALSE, gtor |-> "none", chunks |-> 0]

QuietSocket == [rx |-> <<>>, fin |-> FALSE, rst |-> FALSE, full |-> FALSE, edge |-> FALSE,
                owes |-> "none", sent |-> 0, heads |-> 0]

(* The middleware (or the route) that ran last for the current request.    *)
Nobody == [level |-> "none", idx |-> 0, act |-> "CONTINUE"]

(* What the peer saw of the connection and what was taken from it; resized *)
(* records that a file's body did not end where its Content-Length says.   *)
FreshLog == [heard |-> 0, owed |-> 0, open |-> FALSE, broken |-> FALSE,
             intact |-> TRUE, continued |-> FALSE, last |-> Nobody, inOrder |-> TRUE,
             resized |-> FALSE]

(* https is useHttps_.  stray, ghost and fatal record, for good, that      *)
(* Write() ran for a handler that was suspended, that a coroutine          *)
(* completed on a released context, and that EnterState() aborted the      *)
(* process.                                                                *)
FreshWorld(h) == [https |-> h, stray |-> FALSE, ghost |-> FALSE, fatal |-> FALSE]

(* The state a handler works on.                                           *)
Now == [s |-> conn, k |-> sock, l |-> log, a |-> armed, h |-> heap, w |-> world]
Become(S) == \E x \in S : /\ conn' = x.s /\ sock' = x.k /\ log' = x.l
                         /\ armed' = x.a /\ heap' = x.h /\ world' = x.w
Then(S, Op(_)) == UNION {Op(x) : x \in S}
Sl(x, f, v) == [x EXCEPT !.s[f] = v]

-----------------------------------------------------------------------------
(* Slot state and teardown.                                                *)

(* EnterState(): LEGAL_FROM, and Fatal() on anything else.                 *)
LegalClientFromFault(to) ==
    IF to = "RECV" THEN {"ACCEPT", "HANDSHAKE", "RECV", "SEND"}
    ELSE {"ACCEPT", "HANDSHAKE", "RECV", "SEND", "SEND_FILE", "SHUTDOWN"}
LegalClientFrom(to) ==
    CASE to = "HANDSHAKE" -> {"ACCEPT", "HANDSHAKE"}
      [] to = "RECV"      -> {"ACCEPT", "HANDSHAKE", "RECV", "SEND", "SEND_FILE"}
      [] to = "SEND"      -> {"RECV", "SEND", "SEND_FILE"}
      [] to = "SEND_FILE" -> {"RECV", "SEND", "SEND_FILE"}
      [] to = "SHUTDOWN"  -> {"ACCEPT", "HANDSHAKE", "RECV", "SEND", "SEND_FILE", "SHUTDOWN"}
EnterClientState(x, to) ==
    [x EXCEPT !.s.ev = to, !.w.fatal = @ \/ x.s.ev \notin LegalClientFrom(to)]

(* ReleaseClient(): the wheel entry is cancelled, a sleep it still owns    *)
(* leaves the heap, a parked coroutine is destroyed, the socket closes.    *)
ReleaseClientFault(x) ==
    [x EXCEPT !.s = [ResetClient(x.s.gen + 1) EXCEPT !.coro =
                        IF x.s.data THEN "none" ELSE x.s.coro],
              !.a = FALSE,
              !.k = QuietSocket]
ReleaseClient(x) ==
    [x EXCEPT !.s = [ResetClient(x.s.gen + 1) EXCEPT !.coro =
                        IF x.s.data THEN "none" ELSE x.s.coro],
              !.a = FALSE,
              !.h = @ /\ ~x.s.sleeping,
              !.k = QuietSocket]

(* Close() and CloseCommon(): a clean TLS shutdown may have to wait.       *)
Close(x, force) ==
    IF ~force /\ x.s.shut THEN {x}
    ELSE LET y == Sl(x, "shut", TRUE)
         IN IF ~x.s.tls \/ force THEN {ReleaseClient(y)}
            ELSE {ReleaseClient(y), EnterClientState(y, "SHUTDOWN")}
CloseIt(x) == Close(x, FALSE)

(* ClientCtx::Clear(): ready for the next request.                         *)
Clear(x) ==
    [x EXCEPT !.s = [@ EXCEPT !.rbuf = <<>>, !.need = FALSE, !.call = "IDLE",
        !.eLevel = "MIDDLEWARE", !.mLevel = "GLOBAL", !.mIndex = 0, !.mAction = "CONTINUE",
        !.data = FALSE, !.wait = "none", !.sleeping = FALSE, !.kind = "none",
        !.stage = "none", !.wbuf = "none", !.file = FALSE, !.stream = FALSE,
        !.chunked = FALSE, !.gtor = "none", !.chunks = 0, !.rounds = 0],
              !.l.last = Nobody]

(* The tail of Write(), SendFile() and ResumeStream(): close, or clear and *)
(* ResumeReceive().  Nothing is read here: input that arrived meanwhile    *)
(* had its edge delivered already.                                         *)
RearmFault(x) == IF x.s.alive THEN {EnterClientState(x, "RECV")} ELSE CloseIt(x)
Rearm(x) == IF x.s.alive THEN {EnterClientState(Clear(x), "RECV")} ELSE CloseIt(x)

RefreshExpiry(x) == [x EXCEPT !.a = TRUE]

-----------------------------------------------------------------------------
(* Writing.                                                                *)

(* What reaches the peer when the buffered piece goes out.                 *)
Emit(l, piece) ==
    LET begin == piece \in {"resp", "head", "headchunk"}
        end   == piece \in {"resp", "last", "tail"}
    IN [l EXCEPT !.broken = @ \/ piece = "gap"
                              \/ (begin /\ (l.open \/ l.owed = 0))
                              \/ (~begin /\ ~l.open),
                 !.open = (@ \/ begin) /\ ~end,
                 !.owed = IF end /\ @ > 0 THEN @ - 1 ELSE @]

(* WrapWrite(): everything, EAGAIN, or an error.  A TLS connection that    *)
(* began its shutdown accepts no more data.                                *)
Writes(x) ==
    IF x.k.rst \/ x.s.shut THEN {"error"}
    ELSE IF x.k.full THEN {"again"} ELSE {"all", "again"}
Sent(x, piece) == [x EXCEPT !.s.wbuf = "none", !.l = Emit(@, piece)]
Blocked(x) == EnterClientState([x EXCEPT !.k.full = TRUE], "SEND")

(* DrainWriteBuffer(): pairs of its status and the state.                  *)
DrainWriteBuffer(x) ==
    IF x.s.wbuf = "none" THEN {[st |-> "COMPLETED", x |-> x]}
    ELSE UNION {CASE w = "all"   -> {[st |-> "COMPLETED", x |-> Sent(x, x.s.wbuf)]}
                  [] w = "again" -> {[st |-> "PENDING", x |-> Blocked(x)]}
                  [] w = "error" -> {[st |-> "FAILED", x |-> y] : y \in CloseIt(x)}
                : w \in Writes(x)}

(* ResumeStream(): one generator call per chunk; a terminal result may     *)
(* carry the last bytes, and when those block the generator is asked again *)
(* once they are out.                                                      *)
StreamResults(x) ==
    {r \in [bytes : BOOLEAN, action : {"CONTINUE", "ALIVE", "CLOSE"}] :
        /\ r.bytes => x.s.chunks < MaxChunks
        /\ x.s.kind = "file" => (r.bytes <=> r.action = "CONTINUE")}

(* Where a body without chunks ends.  The generator that reads a file goes *)
(* to the file's end, which may have moved since the header went out, and  *)
(* stops at once when it cannot read.                                      *)
Resized(x) == [x EXCEPT !.l.resized = TRUE]
BodyEnds(x) ==
    LET whole == [x EXCEPT !.l = Emit(@, "tail")]
    IN IF x.s.kind # "file" THEN {whole}
       ELSE {whole, Resized(x), Resized([whole EXCEPT !.l = Emit(@, "chunk")])}
            \cup (IF x.s.alive THEN {} ELSE {x})
RECURSIVE ResumeStream(_)
EndStream(x) ==
    LET y == [x EXCEPT !.s.gtor = "none", !.s.stream = FALSE, !.s.chunked = FALSE]
    IN IF ~x.s.chunked THEN Then(BodyEnds(y), Rearm)
       ELSE Then(DrainWriteBuffer(Sl(y, "wbuf", "last")),
                 LAMBDA d : IF d.st = "COMPLETED" THEN Rearm(d.x) ELSE {d.x})
ResumeStream(x) ==
    UNION {LET over == r.action # "CONTINUE"
               y == [RefreshExpiry(x) EXCEPT !.s.alive = @ /\ r.action # "CLOSE",
                                             !.s.gtor = IF over THEN "over" ELSE @,
                                             !.s.chunks = IF r.bytes THEN @ + 1 ELSE @]
           IN IF ~over /\ ~r.bytes THEN CloseIt(y)
              ELSE IF ~r.bytes THEN EndStream(y)
              ELSE Then(DrainWriteBuffer(Sl(y, "wbuf", "chunk")),
                        LAMBDA d : IF d.st # "COMPLETED" THEN {d.x}
                                   ELSE IF over THEN EndStream(d.x) ELSE ResumeStream(d.x))
           : r \in StreamResults(x)}

(* SendFile() and WrapFile(): sendfile, or under TLS the fallback to a     *)
(* plain stream of the file; an empty file closes the connection.  When    *)
(* WrapFile() returns 0 (the file ends before the size announced, or the   *)
(* peer closed its TLS side) the loop stops and the connection goes on as  *)
(* after a whole body.                                                     *)
SendFile(x) ==
    UNION {CASE w = "all"   -> Rearm([x EXCEPT !.l = Emit(@, "tail")])
                               \cup IF x.s.ev = "SEND_FILE" THEN {}
                                    ELSE CloseIt([x EXCEPT !.l = Emit(@, "tail")])
             [] w = "again" -> {EnterClientState([x EXCEPT !.k.full = TRUE], "SEND_FILE")}
             [] w = "error" -> CloseIt(x)
           : w \in Writes(x)}
    \cup (IF x.k.rst \/ x.s.shut THEN {} ELSE Rearm(Resized(x)))
    \cup IF x.s.tls
         THEN ResumeStream([x EXCEPT !.s.file = FALSE, !.s.stream = TRUE, !.s.chunked = FALSE,
                                     !.s.gtor = "live"])
         ELSE {}

(* Write(ctx, {}): drain, then stream, file, close or next request.        *)
AfterWrite(x) == IF x.s.stream THEN ResumeStream(x) ELSE IF x.s.file THEN SendFile(x) ELSE Rearm(x)
Write(x) == Then(DrainWriteBuffer(x),
                 LAMBDA d : IF d.st = "COMPLETED" THEN AfterWrite(d.x) ELSE {d.x})

(* Write(ctx, msg): a static message, delivered or not.                    *)
WriteStatic(x, piece) ==
    Then({IF w = "all" THEN [x EXCEPT !.l = IF piece = "100" THEN @ ELSE Emit(@, piece)] ELSE x
            : w \in Writes(x)}, AfterWrite)
CloseWith(x) == WriteStatic(Sl(x, "alive", FALSE), "resp")

(* CoreEngine::HandleResponse(): commit and hand over by body kind.        *)
HandleResponse(x) ==
    CASE x.s.kind = "file"   ->
            CloseWith(Sl(x, "wbuf", "none"))               \* EnsureFileReady failed
            \cup Write([x EXCEPT !.s.file = TRUE, !.s.wbuf = "head"])
      [] x.s.kind = "stream" ->
            UNION {Write([x EXCEPT !.s.stream = TRUE, !.s.chunked = ch, !.s.gtor = "live",
                                   !.s.wbuf = "head"]) : ch \in BOOLEAN}
      [] x.s.kind = "await"  ->
            Write(Sl(x, "wbuf", CASE x.s.stage = "fresh" -> "resp"
                                  [] x.s.stage = "mid"   -> "last"
                                  [] OTHER -> x.s.wbuf))
      [] OTHER -> Write(Sl(x, "wbuf", "resp"))

-----------------------------------------------------------------------------
(* The coroutine of an asynchronous middleware or route.                   *)

Park(x, who, why) ==
    [x EXCEPT !.s = [@ EXCEPT !.coro = who, !.wait = why, !.data = TRUE, !.rounds = @ + 1,
                              !.sleeping = @ \/ why = "sleep"],
              !.h = @ \/ why = "sleep"]

(* FlushChunk(): frame the round, drain it, and park when it blocks.       *)
FlushPiece(x, final) ==
    IF x.s.stage = "fresh" THEN IF final THEN "resp" ELSE "headchunk"
    ELSE IF final THEN "last" ELSE "chunk"
CompleteFlushRound(x, final) ==
    [x EXCEPT !.s.wbuf = IF final THEN "none" ELSE "gap", !.s.flushFinal = FALSE,
              !.s.stage = IF final THEN "ended" ELSE "mid"]
FlushChunk(x, final) ==
    {CASE d.st = "COMPLETED" -> [st |-> "COMPLETED", x |-> CompleteFlushRound(d.x, final)]
       [] d.st = "PENDING"   -> [st |-> "PENDING",
                                 x |-> [Park(d.x, "route", "flush") EXCEPT
                                            !.s.flushWait = TRUE, !.s.flushFinal = final]]
       [] OTHER -> d
     : d \in DrainWriteBuffer(Sl(x, "wbuf", FlushPiece(x, final)))}

(* One run of the coroutine, from its start or resumption to its next      *)
(* suspension or its end: [st, act, x] with st "parked", "done" or         *)
(* "failed" (an exception).  A flush that fails has closed the connection; *)
(* the handler then returns.                                               *)
RECURSIVE Segment(_, _)
Finishes(x, who) ==
    LET settled == x.s.kind # "await" \/ ~KeepsContract
    IN (IF who = "mw" THEN {[st |-> "done", act |-> a, x |-> x]
                              : a \in {"CONTINUE", "SKIP_NEXT", "BREAK"}}
        ELSE IF x.s.kind = "await" /\ KeepsContract /\ x.s.stage # "ended" THEN {}
        ELSE {[st |-> "done", act |-> "CONTINUE", x |-> x]})
       \cup (IF settled THEN {[st |-> "failed", act |-> "BREAK", x |-> x]} ELSE {})
Awaits(x, who) ==
    IF x.s.rounds >= MaxRounds \/ (KeepsContract /\ x.s.stage = "ended") THEN {}
    ELSE {[st |-> "parked", act |-> "CONTINUE", x |-> Park(x, who, w)] : w \in {"sleep", "endpoint"}}
Flushes(x, who) ==
    IF who # "route" \/ x.s.stage = "ended" \/ x.s.kind \notin {"none", "await"} THEN {}
    ELSE LET y == IF x.s.kind = "await" THEN x
                  ELSE [x EXCEPT !.s.kind = "await", !.s.stage = "fresh", !.s.wbuf = "gap"]
         IN Then(UNION {FlushChunk(y, f) : f \in IF y.s.rounds < MaxRounds THEN BOOLEAN ELSE {TRUE}},
                 LAMBDA d : CASE d.st = "COMPLETED" ->
                                    Segment([d.x EXCEPT !.s.rounds = @ + 1], who)
                              [] d.st = "PENDING" -> {[st |-> "parked", act |-> "CONTINUE", x |-> d.x]}
                              [] OTHER -> {[st |-> "done", act |-> "CONTINUE", x |-> d.x]})
Segment(x, who) == Finishes(x, who) \cup Awaits(x, who) \cup Flushes(x, who)

(* FinishRequest().                                                        *)
FinishRequest(x) == RefreshExpiry(Sl(x, "parse", "IDLE"))

(* HandleError(): a 500 in place of whatever was built.                    *)
HandleError(x) == [x EXCEPT !.s.kind = "text", !.s.stage = "none", !.s.wbuf = "none",
                            !.s.alive = FALSE]
Respond(x) == HandleResponse(FinishRequest(x))

(* A coroutine that ends on a context already released, because a failed   *)
(* flush closed it under the running handler.                              *)
Ghost(x) == {[x EXCEPT !.w.ghost = TRUE]}

-----------------------------------------------------------------------------
(* The middleware chain and the route.                                     *)

StackSize(level) == IF level = "GLOBAL" THEN GlobalMw ELSE RouteMw

(* The chain a synchronous run gives: member e comes after member d.       *)
FirstOf(level, e) ==
    IF StackSize(level) > 0 THEN e.level = level /\ e.idx = 0 /\ e.act # "ROUTE"
    ELSE e.act = "ROUTE" \/ (level = "GLOBAL" /\ e.level = "PER_ROUTE" /\ e.idx = 0)
Follows(d, e) ==
    LET next == d.idx + (IF d.act = "SKIP_NEXT" THEN 2 ELSE 1)
    IN IF d = Nobody THEN FirstOf("GLOBAL", e)
       ELSE /\ d.act \notin {"BREAK", "ROUTE"}
            /\ \/ next < StackSize(d.level) /\ e = [level |-> d.level, idx |-> next, act |-> e.act]
                                            /\ e.act # "ROUTE"
               \/ /\ next >= StackSize(d.level)
                  /\ IF d.level = "GLOBAL" THEN FirstOf("PER_ROUTE", e) ELSE e.act = "ROUTE"
Ran(x, i, a) ==
    LET e == [level |-> x.s.mLevel, idx |-> i, act |-> a]
    IN [x EXCEPT !.l.last = e, !.l.inOrder = @ /\ Follows(x.l.last, e)]

(* ExecuteFunction(): synchronous or finished inline gives an action; an   *)
(* inline failure answers 500 and breaks the chain; or it suspends.  (An   *)
(* inline action is also stored in trackAsync, where the next completion   *)
(* overwrites it before it is read.)                                       *)
ExecuteFunction(x, i) ==
    {CASE o.st = "done"   -> [st |-> "action", act |-> o.act,
                              x |-> Ran(Sl(o.x, "call", "IDLE"), i, o.act)]
       [] o.st = "failed" -> [st |-> "action", act |-> "BREAK",
                              x |-> Ran(Sl(HandleError(o.x), "call", "IDLE"), i, "BREAK")]
       [] o.st = "parked" -> [st |-> "async", act |-> "CONTINUE",
                              x |-> [o.x EXCEPT !.s.call = "SUSPENDED", !.s.mIndex = i + 1]]
     : o \in Segment([x EXCEPT !.s.call = "INLINE_RUNNING"], "mw")}

(* ExecuteHelper(): the rest of one stack from index i; [st, x] with st    *)
(* "through", "broken" or "async".                                         *)
RECURSIVE Chain(_, _)
Chain(x, i) ==
    IF i >= StackSize(x.s.mLevel) THEN {[st |-> "through", x |-> x]}
    ELSE Then(ExecuteFunction(x, i),
              LAMBDA f : CASE f.st = "async" -> {[st |-> "async", x |-> f.x]}
                           [] f.act = "BREAK" -> {[st |-> "broken", x |-> f.x]}
                           [] f.act = "SKIP_NEXT" -> Chain(f.x, i + 2)
                           [] OTHER -> Chain(f.x, i + 1))
ExecuteHelperFault(x) ==
    IF x.s.mIndex > 0 /\ x.s.mAction = "BREAK" /\ StackSize(x.s.mLevel) > 0
    THEN {[st |-> "broken", x |-> x]}
    ELSE Chain(x, x.s.mIndex)
ExecuteHelper(x) ==
    IF StackSize(x.s.mLevel) = 0 THEN {[st |-> "through", x |-> x]}
    ELSE IF x.s.mIndex > 0 /\ x.s.mAction = "BREAK" THEN {[st |-> "broken", x |-> x]}
    ELSE Chain(x, IF x.s.mIndex > 0 /\ x.s.mAction = "SKIP_NEXT" THEN x.s.mIndex + 1
                  ELSE x.s.mIndex)

(* ExecuteMiddleware(): the global stack, then the route's.                *)
ExecuteMiddleware(x) ==
    IF x.s.mLevel = "PER_ROUTE" THEN ExecuteHelper(x)
    ELSE Then(ExecuteHelper(x),
              LAMBDA r : IF r.st # "through" THEN {r}
                         ELSE ExecuteHelper([r.x EXCEPT !.s.mIndex = 0, !.s.mLevel = "PER_ROUTE"]))

(* The route's callback: synchronous, or a coroutine.                      *)
SyncRoute(x) == UNION {Respond(Sl(x, "kind", kd)) : kd \in {"text", "file", "stream"}}
AsyncRoute(x) ==
    UNION {IF ~o.x.s.used THEN Ghost(o.x)
           ELSE CASE o.st = "parked" -> {FinishRequest(Sl(o.x, "call", "SUSPENDED"))}
                  [] o.st = "done"   -> Respond(Sl(o.x, "call", "IDLE"))
                  [] o.st = "failed" -> Respond(Sl(HandleError(o.x), "call", "IDLE"))
           : o \in Segment([x EXCEPT !.s.call = "INLINE_RUNNING"], "route")}

(* HandleSuccess(): resume the chain where it stood, then the route.       *)
HandleSuccess(x) ==
    Then(ExecuteMiddleware(x),
         LAMBDA r : CASE r.st = "broken"  -> Respond(Sl(r.x, "kind", "text"))
                      [] r.st = "async"   -> {FinishRequest(r.x)}
                      [] r.st = "through" ->
                            LET y == Ran(Sl(r.x, "eLevel", "RESPONSE"), 0, "ROUTE")
                            IN SyncRoute(y) \cup AsyncRoute(y))

(* OnCoroutineComplete() of a coroutine the loop resumed.                  *)
OnCoroutineComplete(o) ==
    LET y == Sl(o.x, "coro", "none")
    IN IF ~y.s.used THEN Ghost(y)
       ELSE IF o.st = "failed" THEN HandleResponse(HandleError(y))
       ELSE IF y.s.eLevel = "MIDDLEWARE"
            THEN HandleSuccess(Ran(Sl(y, "mAction", o.act), y.s.mIndex - 1, o.act))
       ELSE HandleResponse(y)

(* HandleClientAsyncCallback(): whatever asyncData holds is taken out and  *)
(* resumed.                                                                *)
ResumeClient(x) ==
    IF ~x.s.data THEN {x}
    ELSE Then(Segment([x EXCEPT !.s.data = FALSE, !.s.wait = "none"], x.s.coro),
              LAMBDA o : IF o.st = "parked" THEN {o.x} ELSE OnCoroutineComplete(o))

-----------------------------------------------------------------------------
(* Reading and dispatch.                                                   *)

HeaderEnd(buf) == {i \in DOMAIN buf : buf[i] \in AllKinds}
HasBody(buf) == \E i \in DOMAIN buf : buf[i] = "body"
Dispatched(x, ok) == [x EXCEPT !.l.heard = @ + 1, !.l.owed = @ + 1, !.l.intact = ok, !.l.last = Nobody,
                               !.s.parse = "SUCCESS", !.s.need = FALSE]

(* The PARSE_SUCCESS branch of HandleRequest(): refused by a limit, CORS,  *)
(* a public file or no route (answered at once), or routed; or the write   *)
(* buffer cannot be allocated.                                             *)
HandleParsed(x, keep) ==
    LET y == [x EXCEPT !.s.alive = keep]
    IN CloseWith(x) \cup Respond(Sl(y, "kind", "text")) \cup Respond(Sl(y, "kind", "file"))
       \cup HandleSuccess(y)

(* HandleRequest() on what HttpParser::Parse() makes of the buffer.        *)
IncompleteFault(x) == {EnterClientState(RefreshExpiry([x EXCEPT !.s.alive = TRUE, !.s.need = FALSE]), "RECV")}
Incomplete(x) == {EnterClientState(RefreshExpiry(Sl(x, "alive", TRUE)), "RECV")}
HandleRequest(x) ==
    LET buf == x.s.rbuf
        e   == HeaderEnd(buf)
        rq  == buf[CHOOSE i \in e : \A j \in e : i <= j]
    IN CASE x.s.parse = "BODY" ->
              IF x.s.need /\ ~HasBody(buf) THEN Incomplete(x)
              ELSE HandleParsed(Dispatched(x, x.s.need), TRUE)
         [] x.s.parse # "BODY" /\ e = {} -> Incomplete(Sl(x, "parse", "HEADERS"))
         [] x.s.parse # "BODY" /\ e # {} ->
              CASE rq \in {"get", "getclose"} -> HandleParsed(Dispatched(x, TRUE), rq = "get")
                [] rq = "post" ->
                     IF HasBody(buf) THEN HandleParsed(Dispatched(x, TRUE), TRUE)
                     ELSE Incomplete([x EXCEPT !.s.parse = "BODY", !.s.need = TRUE])
                [] rq = "expect" ->
                     WriteStatic(RefreshExpiry([x EXCEPT !.s.parse = "BODY", !.s.need = TRUE,
                                                         !.s.alive = TRUE,
                                                         !.l.continued = TRUE]), "100")
                [] OTHER -> CloseWith([x EXCEPT !.l.owed = @ + 1])

(* Receive(): read until EAGAIN; EOF or an error closes, whatever was read *)
(* before it.                                                              *)
Receive(x) ==
    IF x.k.rst \/ x.k.fin THEN CloseIt(x)
    ELSE IF x.k.rx = <<>> THEN {EnterClientState(x, "RECV")}
    ELSE HandleRequest(EnterClientState([x EXCEPT !.s.rbuf = @ \o x.k.rx, !.k.rx = <<>>], "RECV"))

HandleClientEpollInFault(x, rdhup) == IF x.s.ev = "RECV" THEN Receive(x) ELSE {x}
HandleClientEpollIn(x, rdhup) ==
    IF x.s.ev # "RECV" THEN {x}
    ELSE IF x.s.call = "SUSPENDED" THEN IF rdhup THEN CloseIt(x) ELSE {x}
    ELSE Receive(x)

(* ResumeFlushChunk(): the blocked round goes out, the coroutine resumes.  *)
(* The slot stays in EVENT_SEND.                                           *)
ResumeFlushChunk(x) ==
    Then(DrainWriteBuffer(x),
         LAMBDA d : IF d.st # "COMPLETED" THEN {d.x}
                    ELSE ResumeClient(CompleteFlushRound(Sl(d.x, "flushWait", FALSE), d.x.s.flushFinal)))

HandleClientWriteReady(x) ==
    CASE x.s.ev = "SEND" /\ x.s.flushWait -> ResumeFlushChunk(x)
      [] x.s.ev = "SEND" /\ ~x.s.flushWait ->
            Write([x EXCEPT !.w.stray = @ \/ x.s.coro # "none"])
      [] x.s.ev = "SEND_FILE" -> SendFile(x)
      [] OTHER -> {x}

(* TryHandshake(), HandleClientHandshake().                                *)
TryHandshake(x) == {EnterClientState(x, "RECV"), EnterClientState(x, "HANDSHAKE")}
HandleClientHandshake(x, in) ==
    CloseIt(x) \cup Then(TryHandshake(x), LAMBDA y : IF y.s.ev = "RECV" /\ in
                                                     THEN HandleClientEpollIn(y, FALSE) ELSE {y})

(* HandleClientEvent(): the writable half only if the readable half left   *)
(* the same connection in the slot.                                        *)
HandleClientEvent(x, e) ==
    CASE x.s.ev = "HANDSHAKE" -> HandleClientHandshake(x, e.in)
      [] x.s.ev = "SHUTDOWN"  -> {x, ReleaseClient(x)}
      [] x.s.ev \notin {"HANDSHAKE", "SHUTDOWN"} /\ e.err -> CloseIt(x)
      [] OTHER ->
            Then(IF e.in THEN HandleClientEpollIn(x, e.rdhup) ELSE {x},
                 LAMBDA y : IF e.out /\ y.s.gen = e.gen THEN HandleClientWriteReady(y) ELSE {y})

(* GetClientConnection() and WrapAccept().                                 *)
WrapAcceptFault(x) ==
    {[EnterClientState([x EXCEPT !.s.used = TRUE, !.s.gen = @ + 1, !.k = QuietSocket, !.l = FreshLog],
                 "RECV") EXCEPT !.s.alive = TRUE]}
WrapAccept(x) ==
    LET y == [x EXCEPT !.s.used = TRUE, !.s.gen = @ + 1, !.s.tls = x.w.https, !.k = QuietSocket,
                       !.l = FreshLog]
        Ready(z) == [z EXCEPT !.s.alive = TRUE, !.a = TRUE]
    IN IF ~x.w.https THEN {Ready(EnterClientState(y, "RECV"))}
       ELSE {ReleaseClient([y EXCEPT !.s.tls = FALSE])} \cup CloseIt(y)
            \cup {Ready(z) : z \in TryHandshake(y)}

-----------------------------------------------------------------------------
ClientInit ==
    /\ armed = FALSE /\ heap = FALSE
    /\ conn = ResetClient(0) /\ sock = QuietSocket /\ arrivals = NoEvent /\ log = FreshLog
    /\ world \in {FreshWorld(h) : h \in HttpsModes}

(* After Fatal() the process is gone; after a completion on a released     *)
(* context its behaviour is undefined; once Write() took a suspended       *)
(* handler's slot from it, what follows is of no further interest.         *)
Serving == ~world.fatal /\ ~world.ghost /\ ~world.stray

(* The listening socket: a free slot takes a connection.                   *)
AcceptClient ==
    /\ Serving /\ ~conn.used /\ conn.gen < 2 * MaxGen
    /\ Become(WrapAccept(Now)) /\ UNCHANGED arrivals

(* The peer.  It may send its next request before it has an answer.        *)
Alerted(k) == sock' = [k EXCEPT !.edge = TRUE] /\ UNCHANGED <<conn, arrivals, log, armed, heap, world>>
Connected == Serving /\ conn.used /\ ~sock.rst
PeerSends(piece) ==
    /\ Connected /\ ~sock.fin /\ sock.sent < MaxSent
    /\ \/ sock.owes = "none" /\ piece \in RequestKinds \cup {"part"}
       \/ sock.owes = "body" /\ piece = "body"
    /\ Alerted([sock EXCEPT !.rx = Append(@, piece), !.sent = @ + 1,
                            !.heads = IF piece \in RequestKinds THEN @ + 1 ELSE @,
                            !.owes = IF piece \in {"post", "expect"} THEN "body" ELSE "none"])
PeerFinishes == Connected /\ ~sock.fin /\ Alerted([sock EXCEPT !.fin = TRUE])
PeerResets   == Connected /\ Alerted([sock EXCEPT !.rst = TRUE])
PeerDrains   == Connected /\ sock.full /\ Alerted([sock EXCEPT !.full = FALSE])

(* epoll_wait(): an edge is reported with everything ready at that moment. *)
Fetch ==
    /\ Serving /\ conn.used /\ sock.edge /\ arrivals = NoEvent
    /\ arrivals' = [gen |-> conn.gen, in |-> sock.rx # <<>> \/ sock.fin \/ sock.rst,
                 out |-> ~sock.full, rdhup |-> sock.fin, err |-> sock.rst]
    /\ sock' = [sock EXCEPT !.edge = FALSE]
    /\ UNCHANGED <<conn, log, armed, heap, world>>

(* Run(): an event of an earlier generation is dropped.                    *)
HandleEvent ==
    /\ Serving /\ arrivals # NoEvent
    /\ arrivals' = NoEvent
    /\ IF arrivals.gen = conn.gen THEN Become(HandleClientEvent(Now, arrivals))
       ELSE UNCHANGED <<conn, sock, log, armed, heap, world>>

(* The wheel's expiry callback.                                            *)
ReapFault(x) == IF x.s.data THEN Close(x, TRUE) ELSE {x}
ExpiredFault(x) == IF x.s.alive THEN Close(x, TRUE) ELSE {x}
Expired(x) == IF x.s.alive \/ x.s.data THEN Close(x, TRUE) ELSE {x}
Expire ==
    /\ Serving /\ armed
    /\ Become(Expired([Now EXCEPT !.a = FALSE])) /\ UNCHANGED arrivals

(* HandleAsyncTimer(): the heap's entry is due.                            *)
Wake ==
    /\ Serving /\ heap
    /\ Become(ResumeClient([Now EXCEPT !.h = FALSE, !.s.sleeping = FALSE])) /\ UNCHANGED arrivals

(* The endpoint the handler awaits answers or fails.                       *)
EndpointAnswers ==
    /\ Serving /\ conn.wait = "endpoint"
    /\ Become(ResumeClient(Now)) /\ UNCHANGED arrivals

ClientNext ==
    \/ AcceptClient
    \/ \E piece \in RequestKinds \cup {"part", "body"} : PeerSends(piece)
    \/ PeerFinishes \/ PeerResets \/ PeerDrains
    \/ Fetch \/ HandleEvent \/ Expire \/ Wake \/ EndpointAnswers

ClientSpec == ClientInit /\ [][ClientNext]_clientVars

(* The loop keeps fetching and handling, and an entry of the wheel or of   *)
(* the heap does not stay there for ever: it fires or is removed.  Nothing *)
(* is assumed of the peer or of the endpoint a handler waits for.          *)
Handled == arrivals # NoEvent /\ arrivals' = NoEvent
Fires   == armed /\ armed' = FALSE
Wakes   == heap /\ heap' = FALSE
ClientFair == /\ WF_clientVars(Fetch) /\ WF_arrivals(Handled)
              /\ WF_armed(Fires) /\ WF_heap(Wakes)
ClientFairSpec == ClientSpec /\ ClientFair

-----------------------------------------------------------------------------
(* Unless Write() was run for a suspended handler, what the peer sees is   *)
(* one response per request, each begun only after the one before ended,   *)
(* and no request is taken twice, whatever the mix of inline writes,       *)
(* EAGAIN, files, streams, flushes and coroutine resumptions that produced *)
(* it.  The first half asks that no file changed its size while it was     *)
(* sent on this connection.                                                *)
WireInStep ==
    world.stray \/ ( /\ log.broken => log.resized
                     /\ conn.used => log.heard <= sock.heads )

(* A suspended coroutine can always be resumed or destroyed: the slot is   *)
(* in use and holds its asyncData, and a sleeping one has its heap entry;  *)
(* the heap never holds an entry for a slot whose flag says otherwise, so  *)
(* a later connection in the slot is not woken by an earlier one's sleep.  *)
NoCoroutineLost ==
    world.stray \/ ( /\ conn.coro # "none" => conn.used /\ conn.data
                     /\ conn.wait = "sleep" => heap
                     /\ heap <=> conn.sleeping )

(* EnterState() never aborts the process for a client slot.                *)
ClientTransitionsLegal == ~world.fatal

(* However its members suspend, skip or finish inline, the middleware chain*)
(* is the one a synchronous run gives: global stack then route stack, each *)
(* in order from 0, one member left out exactly after a SKIP_NEXT, and the *)
(* route only behind a chain nothing broke.                                *)
ChainExact == log.inOrder

(* A dispatched request has the headers and the body its client sent,      *)
(* however the bytes were cut, if no 100 Continue was sent on the          *)
(* connection.                                                             *)
RequestIntact == log.intact \/ log.continued

(* A connection in CONNECTION_ALIVE always has its expiry armed: there is  *)
(* no quiet state the reaper does not reach.                               *)
AliveHasTimer == conn.used /\ conn.alive => armed

(* While a handler is suspended nothing the client sends starts another    *)
(* request in the same connection.                                         *)
NoRequestUnderSuspended ==
    [][conn.call = "SUSPENDED" /\ conn.gen = conn'.gen /\ conn'.call = "SUSPENDED"
         => log'.owed <= log.owed]_clientVars

(* Whatever the peer and the endpoint do, a live connection is eventually  *)
(* released or marked for closing, and a suspended coroutine eventually    *)
(* ends: the expiry reaches both.                                          *)
AliveIsReaped == (conn.used /\ conn.alive) ~> (~conn.used \/ ~conn.alive \/ ~Serving)
CoroutineEnds == conn.coro # "none" ~> (conn.coro = "none" \/ ~Serving)

(* Pipelined, partial and re-armed input never puts the connection out of  *)
(* step: the requests dispatched are those sent, through the whole         *)
(* middleware chain, and each is answered once and in order.               *)
ResponsesInStep == WireInStep /\ ChainExact /\ RequestIntact

(* No coroutine is lost, no transition aborts the worker and no live       *)
(* connection is without its expiry, whichever of the peer, the timers and *)
(* the endpoint comes first.                                               *)
ClientSound == NoCoroutineLost /\ ClientTransitionsLegal /\ AliveHasTimer

(* Connections and suspended handlers end, even when the peer and the      *)
(* endpoint stay silent.                                                   *)
ClientsEnd == AliveIsReaped /\ CoroutineEnds

-----------------------------------------------------------------------------
(* What the code's comments promise without those conditions.              *)

(* A body has the length its header announces, or the connection does not  *)
(* go on to another response: also for a file that is replaced or cut      *)
(* while SendFile() is at it.                                              *)
BodiesAsAnnounced == world.stray \/ ~log.broken

(* A connection that waits for a request and has unread input also has an  *)
(* edge to come for it: ResumeReceive() neither reads nor re-arms.         *)
UnreadInputAnnounced ==
    Serving /\ conn.used /\ conn.ev = "RECV" /\ conn.call # "SUSPENDED" /\ sock.rx # <<>>
        => sock.edge \/ arrivals # NoEvent

(* No coroutine runs to its end on a context a failed flush has released.  *)
NoCompletionOnReleasedContext == ~world.ghost

(* "A suspended async handler still owns this client's request and         *)
(* response": nothing takes its coroutine out of the slot.                 *)
SuspendedHandlerOwnsRequest == conn.coro # "none" => conn.used /\ conn.data

(* "so the next time parser returns to this, it knows to parse body not    *)
(* header": also after 100 Continue.                                       *)
RequestAlwaysIntact == log.intact

(* A slot whose client stalls while the connection closes is freed by the  *)
(* timeout.                                                                *)
EverySlotReleased == conn.used ~> (~conn.used \/ ~Serving)
=============================================================================
