-------------------------------- MODULE PgConn --------------------------------
(***************************************************************************)
(* The Postgres endpoint (src/include/wfx/endpoint/postgres.hpp and        *)
(* postgres/): one connection from its handshake on, the requests pooled   *)
(* callers and sessions run on it, the prepared statement cache, streamed  *)
(* results, and the cancellation of an abandoned query.                    *)
(*                                                                         *)
(* A frontend or backend message is a record; a read ends between two      *)
(* messages, since FrameMessage leaves a partial one untouched.  SQL texts *)
(* are names; the server is external.                                      *)
(***************************************************************************)
EXTENDS Naturals, Sequences, SequencesExt, FiniteSets

CONSTANTS Sqls,          \* SQL texts: "begin", "commit" and queries
          RowsOf,        \* rows each text returns
          HomeOf,        \* the table index each text hashes to
          CacheCap,      \* entries of the statement table, a power of two
          ProbeLen,      \* STMT_PROBE_LEN
          MinUses,       \* statementCacheMinUses
          MaxEpoch,      \* bound: plan invalidations
          MaxReqs,       \* bound: requests sent
          MaxSessions,   \* bound: sessions opened
          DrainsStreams, \* callers read every stream to its end
          Handshakes     \* what a server may send during the handshake, see below

VARIABLES conn,      \* handshake stage, encryption asked for and in place
          slot,      \* SlotState
          cache,     \* PgStatementCache
          epoch,     \* PgCacheControl, shared with the endpoint's other connections
          req,       \* the request in flight
          batch,     \* frontend messages the server has not processed
          back,      \* backend messages not yet parsed
          out,       \* PgResult of the request in flight
          pin,       \* the session holding the connection, 0 when pooled
          streaming, \* isStreaming with a chunk handed over
          answer,    \* how the last request ended
          srv,       \* external: the server's session
          abort,     \* the onAbort coroutine and its CancelRequest
          wrong      \* ghost: what went wrong on the server

pgVars == <<conn, slot, cache, epoch, req, batch, back, out, pin, streaming, answer, srv,
            abort, wrong>>

Entries == 0..(CacheCap - 1)
Unparsed == 0
NoEntry == CacheCap
Unnamed == CacheCap + 1
Nobody == <<"none", 0>>

NoReq == [no |-> 0, sql |-> "none", session |-> 0, rows |-> 0, kind |-> "none"]
FreshOut == [rows |-> <<>>, failed |-> FALSE]
FreshSlot == [tx |-> "I", session |-> 0, expected |-> 1, pending |-> NoEntry,
              rows |-> 0, phase |-> "NONE", ownsTx |-> FALSE, stale |-> FALSE]

FreshServer == [tx |-> "I", owner |-> Nobody, sessions |-> 0,
                stmts |-> [n \in Entries \union {Unnamed} |-> "none"],
                portal |-> [sql |-> "none", left |-> 0]]

\* Who a statement runs for: its session, or the pooled request itself
Who(r) == IF r.session = 0 THEN <<"req", r.no>> ELSE <<"session", r.session>>

------------------------------------------------------------------------------
(***************************************************************************)
(* The statement cache                                                     *)
(***************************************************************************)

EmptyCache == [i \in Entries |-> [sql |-> "none", epoch |-> Unparsed, uses |-> 0, live |-> FALSE]]

Probed(sql) == [i \in 1..ProbeLen |-> (HomeOf[sql] + i - 1) % CacheCap]

\* The walk stops at the text itself or at an empty entry; otherwise the least
\* used entry it passed, the first of equals, gives up its name
Claimed(c, sql) ==
    LET walk == Probed(sql)
        hits == {i \in 1..ProbeLen : c[walk[i]].sql \in {sql, "none"}}
        low  == CHOOSE i \in 1..ProbeLen :
                   /\ \A j \in 1..ProbeLen : c[walk[i]].uses <= c[walk[j]].uses
                   /\ \A j \in 1..(i - 1) : c[walk[i]].uses < c[walk[j]].uses
    IN  IF hits # {} THEN walk[CHOOSE i \in hits : \A j \in hits : i <= j] ELSE walk[low]

\* Keeping the evicted statement's epoch with the new text
OccupyFault(c, i, sql) ==
    IF c[i].sql = sql THEN c ELSE [c EXCEPT ![i] = [@ EXCEPT !.sql = sql, !.uses = 0]]

\* A new text takes the entry over; what the server still holds under the name
\* is remembered by live
Occupy(c, i, sql) ==
    IF c[i].sql = sql THEN c
    ELSE [c EXCEPT ![i] = [sql |-> sql, epoch |-> Unparsed, uses |-> 0, live |-> @.live]]

\* Acquire and Describe: one more use of entry i; a text below MinUses goes out
\* unnamed
Describe(c, i) ==
    LET uses  == IF c[i].uses < MinUses THEN c[i].uses + 1 ELSE c[i].uses
        named == uses >= MinUses
        parse == ~named \/ c[i].epoch # epoch
    IN  [cache |-> [c EXCEPT ![i].uses = uses],
         name  |-> IF named THEN i ELSE Unnamed,
         index |-> IF named THEN i ELSE NoEntry,
         parse |-> parse,
         close |-> named /\ parse /\ c[i].live]

Acquire(c, sql) == LET i == Claimed(c, sql) IN Describe(Occupy(c, i, sql), i)

MarkParsed(c, i) == IF i = NoEntry THEN c ELSE [c EXCEPT ![i].live = TRUE, ![i].epoch = epoch]
MarkFailed(c, i) == IF i = NoEntry THEN c ELSE [c EXCEPT ![i].live = FALSE, ![i].epoch = Unparsed]

------------------------------------------------------------------------------
(***************************************************************************)
(* Serialize                                                               *)
(***************************************************************************)

Simple(sql) == <<[t |-> "query", sql |-> sql]>>
Sync == <<[t |-> "sync"]>>

\* A further round of a stream: fetch, or end the transaction or the portal
ContinueStream(s) ==
    IF s.phase = "FETCH" THEN <<[t |-> "execute", portal |-> "wfxp", rows |-> s.rows]>> \o Sync
    ELSE IF s.ownsTx THEN Simple("COMMIT")
    ELSE <<[t |-> "closeportal"]>> \o Sync

\* Only pooled requests suspect the transaction they find
LeftoverFault(s, r) == s.tx # "I" /\ r.session = 0

\* An open transaction that is not the sender's own is rolled back first
Leftover(s, r) == s.tx # "I" /\ (r.session = 0 \/ r.session # s.session)

\* The messages of a request that opens its exchange
OpenRound(s, r, owns, st) ==
    LET portal == IF r.rows # 0 THEN "wfxp" ELSE Unnamed
    IN  (IF Leftover(s, r) THEN Simple("ROLLBACK") ELSE <<>>)
        \o (IF r.kind = "savepoint" THEN Simple("SAVEPOINT")
            ELSE (IF owns THEN Simple("BEGIN") ELSE <<>>)
                 \o (IF st.close THEN <<[t |-> "close", name |-> st.name]>> ELSE <<>>)
                 \o (IF st.parse THEN <<[t |-> "parse", name |-> st.name, sql |-> r.sql]>> ELSE <<>>)
                 \o <<[t |-> "bind", portal |-> portal, name |-> st.name],
                      [t |-> "execute", portal |-> portal, rows |-> r.rows]>> \o Sync)

\* One run of Serialize on slot state s and cache c.  It assigns the counters
\* rather than accumulating them, because a too small buffer runs it again.
Serialize(s, c, r) ==
    LET s1   == [s EXCEPT !.expected = 1, !.pending = NoEntry, !.rows = r.rows,
                          !.phase = IF r.rows = 0 THEN "NONE" ELSE @]
        left == Leftover(s1, r)
        owns == r.rows # 0 /\ (left \/ s1.tx = "I")
        st   == IF r.kind = "savepoint"
                THEN [cache |-> c, name |-> Unnamed, index |-> NoEntry, parse |-> FALSE, close |-> FALSE]
                ELSE Acquire(c, r.sql)
    IN  IF s1.phase # "NONE"
        THEN [slot |-> [s1 EXCEPT !.stale = TRUE], cache |-> c, msgs |-> ContinueStream(s1)]
        ELSE [slot |-> [s1 EXCEPT !.stale = FALSE,
                                  !.expected = 1 + (IF left THEN 1 ELSE 0) + (IF owns THEN 1 ELSE 0),
                                  !.ownsTx = IF r.rows # 0 THEN owns ELSE @,
                                  !.pending = IF st.parse THEN st.index ELSE NoEntry],
              cache |-> st.cache,
              msgs |-> OpenRound(s1, r, owns, st)]

\* SerializeSingleSlot: a buffer that was too small is grown and Serialize
\* runs again on the state the first run left
SerializeSingleSlot(r, again) ==
    \E one \in {Serialize(slot, cache, r)} :
    \E res \in {IF again THEN Serialize(one.slot, one.cache, r) ELSE one} :
        /\ slot' = [res.slot EXCEPT !.session = IF res.slot.phase = "NONE" THEN r.session ELSE @]
        /\ cache' = res.cache
        /\ batch' = res.msgs

------------------------------------------------------------------------------
(***************************************************************************)
(* Requests                                                                *)
(***************************************************************************)

Idle == conn.stage = "ready" /\ req = NoReq

\* SendPayload on the pooled connection or through the session that pins it.
\* A session may send again while an abandoned stream is still open.
Send(r, again) ==
    /\ conn.stage = "ready"
    /\ req = NoReq \/ (streaming /\ ~DrainsStreams /\ pin # 0 /\ batch = <<>> /\ back = <<>>)
    /\ req.no < MaxReqs /\ answer.no < MaxReqs
    /\ r.session = pin
    /\ r.no = answer.no + 1
    /\ req' = r
    /\ answer' = [no |-> r.no, sql |-> r.sql, kind |-> "none", rows |-> <<>>]
    /\ out' = IF streaming THEN out ELSE FreshOut
    /\ SerializeSingleSlot(r, again)
    /\ UNCHANGED <<conn, epoch, back, pin, streaming, srv, abort, wrong>>

\* StreamNext: the borrowed chunk is given back and the same request goes out
\* again for the next round
StreamNext ==
    /\ streaming /\ req.rows # 0 /\ batch = <<>> /\ back = <<>>
    /\ slot.phase # "NONE"
    /\ SerializeSingleSlot(req, FALSE)
    /\ UNCHANGED <<conn, epoch, req, back, out, pin, streaming, answer, srv, abort, wrong>>

\* Session() pins the idle connection; the session's id is new
OpenSession ==
    /\ Idle /\ pin = 0 /\ srv.sessions < MaxSessions
    /\ pin' = srv.sessions + 1
    /\ srv' = [srv EXCEPT !.sessions = @ + 1]
    /\ UNCHANGED <<conn, slot, cache, epoch, req, batch, back, out, streaming, answer, abort, wrong>>

\* The session goes out of scope between requests: only the pin is released
CloseSession ==
    /\ Idle /\ pin # 0
    /\ pin' = 0
    /\ UNCHANGED <<conn, slot, cache, epoch, req, batch, back, out, streaming, answer, srv, abort, wrong>>

------------------------------------------------------------------------------
(***************************************************************************)
(* The server (external)                                                   *)
(***************************************************************************)

Reply(a, m) == [a EXCEPT !.sent = Append(@, m)]
Error(a, state) ==
    [Reply(a, [t |-> "error", state |-> state]) EXCEPT
        !.skip = TRUE, !.srv.tx = IF @ = "I" THEN "I" ELSE "E"]
Ready(a) ==
    [Reply(a, [t |-> "ready", tx |-> a.srv.tx]) EXCEPT !.skip = FALSE,
        !.srv.portal = IF a.srv.tx = "I" THEN [sql |-> "none", left |-> 0] ELSE @]
Begin(a)  == [a EXCEPT !.srv.tx = IF @ = "I" THEN "T" ELSE @,
                       !.srv.owner = IF a.srv.tx = "I" THEN Who(req) ELSE @]
EndTx(a)  == [a EXCEPT !.srv.tx = "I", !.srv.owner = Nobody,
                       !.srv.portal = [sql |-> "none", left |-> 0]]
Blame(a, what) == [a EXCEPT !.wrong = @ \union {what}]
Barred(a, sql) == a.srv.tx = "E" /\ sql # "commit"

\* A simple query: the stream's and the rollback's own statements
RunSimple(a, sql, fail) ==
    CASE sql = "ROLLBACK" -> Ready(Reply(EndTx(a), [t |-> "complete"]))
      [] sql = "COMMIT" /\ fail -> Ready(Error(EndTx(a), "40001"))
      [] sql = "COMMIT" /\ ~fail -> Ready(Reply(EndTx(a), [t |-> "complete"]))
      [] sql = "BEGIN" /\ a.srv.tx = "E" -> Ready(Error(a, "25P02"))
      [] sql = "BEGIN" -> Ready(Reply(Begin(a), [t |-> "complete"]))
      [] OTHER -> IF a.srv.tx = "T" THEN Ready(Reply(a, [t |-> "complete"])) ELSE Ready(Error(a, "25P01"))

\* Execute: transaction statements, or up to rows rows of the portal
RunPortal(a, rows, fail) ==
    LET sql == a.srv.portal.sql
        b   == [a EXCEPT !.wrong = @ \union (IF sql # req.sql THEN {"sql"} ELSE {})
                              \union (IF a.srv.tx # "I" /\ a.srv.owner # Who(req) THEN {"tx"} ELSE {})]
        n   == IF rows = 0 \/ a.srv.portal.left < rows THEN a.srv.portal.left ELSE rows
        c   == [b EXCEPT !.sent = @ \o [i \in 1..n |-> [t |-> "row", sql |-> sql]],
                         !.srv.portal.left = @ - n]
    IN  CASE sql = "none" -> Error(a, "34000")
          [] sql = "begin" -> Reply(Begin(b), [t |-> "complete"])
          [] sql = "commit" -> Reply(EndTx(b), [t |-> "complete"])
          [] fail -> Error(b, "22000")
          [] rows # 0 /\ n = rows -> Reply(c, [t |-> "suspended"])
          [] OTHER -> Reply(c, [t |-> "complete"])

\* One frontend message; after an error everything up to Sync is skipped
Process(a, m, fail, stale) ==
    CASE m.t = "query" -> RunSimple(a, m.sql, fail)
      [] m.t = "sync" -> Ready(a)
      [] a.skip -> a
      [] m.t = "close" -> [Reply(a, [t |-> "closed"]) EXCEPT !.srv.stmts[m.name] = "none"]
      [] m.t = "closeportal" -> [Reply(a, [t |-> "closed"]) EXCEPT !.srv.portal = [sql |-> "none", left |-> 0]]
      [] m.t = "parse" /\ Barred(a, m.sql) -> Error(a, "25P02")
      [] m.t = "parse" /\ m.name # Unnamed /\ a.srv.stmts[m.name] # "none" -> Error(Blame(a, "name"), "42P05")
      [] m.t = "parse" -> [Reply(a, [t |-> "parsed"]) EXCEPT !.srv.stmts[m.name] = m.sql]
      [] m.t = "bind" /\ a.srv.stmts[m.name] = "none" -> Error(a, "26000")
      [] m.t = "bind" /\ stale /\ m.name # Unnamed -> Error(a, "0A000")
      [] m.t = "bind" /\ Barred(a, a.srv.stmts[m.name]) -> Error(a, "25P02")
      [] m.t = "bind" -> [Reply(a, [t |-> "described"]) EXCEPT
                             !.srv.portal = [sql |-> a.srv.stmts[m.name], left |-> RowsOf[a.srv.stmts[m.name]]]]
      [] m.t = "execute" -> RunPortal(a, m.rows, fail)

RunBatch(fail, stale) ==
    LET After[i \in 0 .. Len(batch)] ==
            IF i = 0 THEN [srv |-> srv, sent |-> <<>>, skip |-> FALSE, wrong |-> wrong]
            ELSE Process(After[i - 1], batch[i], fail, stale)
    IN  After[Len(batch)]

\* The server runs what was sent; a statement may fail, and a cached plan may
\* have been overtaken by a schema change
ServerRuns ==
    /\ batch # <<>>
    /\ \E fail, stale \in BOOLEAN :
         /\ fail /\ stale => FALSE
         /\ stale => epoch < MaxEpoch
         /\ \E a \in {RunBatch(fail, stale)} :
                srv' = a.srv /\ back' = a.sent /\ wrong' = a.wrong
    /\ batch' = <<>>
    /\ UNCHANGED <<conn, slot, cache, epoch, req, out, pin, streaming, answer, abort>>

\* A session reset on the server, or a rejected plan on another connection
ServerForgets ==
    /\ Idle /\ epoch < MaxEpoch /\ slot.tx = "I"
    /\ srv' = [srv EXCEPT !.stmts = [n \in DOMAIN @ |-> "none"]]
    /\ UNCHANGED <<conn, slot, cache, epoch, req, batch, back, out, pin, streaming, answer, abort, wrong>>

OtherInvalidates ==
    /\ conn.stage = "ready" /\ epoch < MaxEpoch
    /\ epoch' = epoch + 1
    /\ UNCHANGED <<conn, slot, cache, req, batch, back, out, pin, streaming, answer, srv, abort, wrong>>

------------------------------------------------------------------------------
(***************************************************************************)
(* Parse                                                                   *)
(***************************************************************************)

Closing(s) == [s EXCEPT !.phase = IF @ = "CLOSE" THEN "DONE" ELSE "CLOSE"]

\* The prologue's ReadyForQuery taken for the request's own
OnReadyFault(p, tx) ==
    LET s1 == [p.slot EXCEPT !.tx = tx, !.expected = 1, !.pending = NoEntry, !.rows = 0,
                             !.phase = "NONE", !.ownsTx = FALSE]
    IN  [p EXCEPT !.slot = s1, !.verdict = "keep"]

\* ReadyForQuery: one that belongs to the prologue is counted off and its
\* result dropped; otherwise it ends the round, and the request unless it is
\* a stream that has more to do
OnReady(p, tx) ==
    LET s1 == [p.slot EXCEPT !.tx = tx]
        c1 == MarkFailed(p.cache, s1.pending)
        s2 == [s1 EXCEPT !.pending = NoEntry]
        s3 == IF s2.rows # 0 /\ p.out.failed THEN Closing(s2) ELSE s2
    IN  IF s1.expected > 1
        THEN [p EXCEPT !.slot = [s1 EXCEPT !.expected = @ - 1], !.out = FreshOut]
        ELSE IF s3.rows # 0 /\ s3.phase # "DONE"
        THEN [p EXCEPT !.slot = s3, !.cache = c1, !.verdict = "chunk"]
        ELSE [p EXCEPT !.slot = [s3 EXCEPT !.rows = 0, !.phase = "NONE", !.ownsTx = FALSE],
                       !.cache = c1, !.verdict = "keep"]

OwnRound(s) == s.rows # 0 /\ s.expected = 1

ParseMessage(p, m) ==
    CASE m.t = "ready" -> OnReady(p, m.tx)
      [] m.t = "described" -> [p EXCEPT !.out.rows = <<>>]
      [] m.t = "row" -> [p EXCEPT !.out.rows = Append(@, m.sql)]
      [] m.t = "complete" -> [p EXCEPT !.slot = IF OwnRound(@) THEN Closing(@) ELSE @]
      [] m.t = "suspended" -> [p EXCEPT !.slot = IF OwnRound(@) THEN [@ EXCEPT !.phase = "FETCH"] ELSE @]
      [] m.t = "closed" -> [p EXCEPT !.slot = IF @.rows # 0 /\ @.phase = "CLOSE"
                                              THEN [@ EXCEPT !.phase = "DONE"] ELSE @]
      [] m.t = "parsed" -> [p EXCEPT !.cache = MarkParsed(@, p.slot.pending), !.slot.pending = NoEntry]
      [] m.t = "error" -> [p EXCEPT !.out.failed = TRUE,
                              !.bump = @ \/ m.state \in {"0A000", "26000"}]

\* Parse up to the first message that settles the request.  The rows of the
\* chunk handed over last go as this round's reply arrives.
ParseReplies(msgs) ==
    LET start == [slot |-> [slot EXCEPT !.stale = FALSE], cache |-> cache,
                  out |-> IF slot.stale THEN FreshOut ELSE out,
                  bump |-> FALSE, verdict |-> "more"]
        Settled(p, m) == IF p.verdict # "more" THEN p ELSE ParseMessage(p, m)
        After[i \in 0 .. Len(msgs)] == IF i = 0 THEN start ELSE Settled(After[i - 1], msgs[i])
    IN  After[Len(msgs)]

\* What a reply does to the slot.  A stream's chunk stays in the slot and its
\* rows are counted; a request that ends while the slot is streaming is taken
\* for the stream's end and delivers no output of its own.
Receive(n) ==
    \E p \in {ParseReplies(SubSeq(back, 1, n))} :
    LET shown == answer.rows \o p.out.rows
    IN  /\ conn.stage = "ready"
        /\ back' = SubSeq(back, n + 1, Len(back))
        /\ slot' = p.slot /\ cache' = p.cache
        /\ epoch' = IF p.bump /\ epoch < MaxEpoch THEN epoch + 1 ELSE epoch
        /\ out' = IF p.verdict = "keep" THEN FreshOut ELSE p.out
        /\ req' = IF p.verdict = "keep" THEN NoReq ELSE req
        /\ streaming' = CASE p.verdict = "keep" -> FALSE [] p.verdict = "chunk" -> TRUE [] OTHER -> streaming
        /\ answer' = CASE p.verdict = "chunk" -> [answer EXCEPT !.rows = shown,
                                                    !.kind = IF p.out.failed THEN "error" ELSE @]
                       [] p.verdict = "keep" /\ streaming ->
                            [answer EXCEPT !.kind = IF @ = "error" THEN @ ELSE "done"]
                       [] p.verdict = "keep" /\ ~streaming ->
                            [answer EXCEPT !.rows = shown, !.kind = IF p.out.failed THEN "error" ELSE "done"]
                       [] OTHER -> answer
        /\ abort' = IF p.verdict = "keep" THEN [abort EXCEPT !.aborted = FALSE] ELSE abort
        /\ UNCHANGED <<conn, batch, pin, srv, wrong>>

\* A chunk nobody waits for tears the slot down
OrphanChunk == abort.aborted /\ streaming

Teardown ==
    /\ conn' = [stage |-> "closed"]
    /\ req' = NoReq /\ batch' = <<>> /\ back' = <<>> /\ streaming' = FALSE
    /\ out' = FreshOut /\ pin' = 0
    /\ abort' = [abort EXCEPT !.aborted = FALSE]
    /\ slot' = FreshSlot /\ cache' = EmptyCache /\ srv' = FreshServer
    /\ answer' = [answer EXCEPT !.kind = "lost", !.rows = <<>>]
    /\ UNCHANGED <<epoch, wrong>>

\* A request timeout, a server that hangs up, or an orphaned chunk
ConnectionLost ==
    /\ conn.stage = "ready"
    /\ req # NoReq \/ OrphanChunk
    /\ Teardown

------------------------------------------------------------------------------
(***************************************************************************)
(* Cancellation                                                            *)
(***************************************************************************)

\* The waiting client disconnects: onAbort dials a side connection while the
\* slot stays in flight, or a stream in progress is closed.  A session's
\* coroutine frame goes with the client, and its pin with the frame.
ClientGone ==
    /\ conn.stage = "ready" /\ req # NoReq /\ ~abort.aborted
    /\ pin' = 0
    /\ IF streaming THEN Teardown
       ELSE /\ abort' = IF abort.side = "none"
                        THEN [aborted |-> TRUE, side |-> "dialing", of |-> req.no]
                        ELSE [abort EXCEPT !.aborted = TRUE]
            /\ UNCHANGED <<conn, slot, cache, epoch, req, batch, back, out, streaming, answer, srv, wrong>>

\* The side connection is up: the CancelRequest quotes the backend, and hits
\* whatever that backend runs when it arrives
CancelArrives ==
    /\ abort.side = "dialing"
    /\ abort' = [abort EXCEPT !.side = "none"]
    /\ IF batch = <<>> \/ conn.stage # "ready"
       THEN UNCHANGED <<srv, back, batch, wrong>>
       ELSE LET a == RunBatch(TRUE, FALSE)
            IN  /\ srv' = a.srv /\ back' = a.sent /\ batch' = <<>>
                /\ wrong' = a.wrong \union (IF req.no # abort.of THEN {"cancel"} ELSE {})
    /\ UNCHANGED <<conn, slot, cache, epoch, req, out, pin, streaming, answer>>

\* No side connection is to be had, or its connect fails
CancelFails ==
    /\ abort.side = "dialing"
    /\ abort' = [abort EXCEPT !.side = "none"]
    /\ UNCHANGED <<conn, slot, cache, epoch, req, batch, back, out, pin, streaming, answer, srv, wrong>>

------------------------------------------------------------------------------
(***************************************************************************)
(* The handshake                                                           *)
(***************************************************************************)

\* Accepting the server's refusal of TLS whatever was asked for
SslVerdictFault(reply, encryption) == IF reply = "S" THEN "upgrade" ELSE "plain"

\* The byte that answers SSLRequest
SslVerdict(reply, encryption) ==
    CASE reply = "S" -> "upgrade"
      [] reply = "N" /\ encryption = "OPTIONAL" -> "plain"
      [] OTHER -> "fatal"

\* SSLRequest, unless encryption is NONE
NegotiateTls ==
    /\ conn.stage = "ssl"
    /\ \/ /\ conn.encryption = "NONE"
          /\ conn' = [conn EXCEPT !.stage = "auth"]
       \/ /\ conn.encryption # "NONE"
          /\ \E reply \in {"S", "N", "SN", "?"} :
               LET v == SslVerdict(reply, conn.encryption)
               IN  conn' = [conn EXCEPT !.stage = IF v = "fatal" THEN "closed" ELSE "auth",
                                        !.secure = v = "upgrade"]
    /\ UNCHANGED <<slot, cache, epoch, req, batch, back, out, pin, streaming, answer, srv, abort, wrong>>

\* PgOnConnect returned: its locals are gone
Established == [stage |-> "ready"]

\* One authentication or setup message.  A reply is sent before the next
\* message is looked at; SASL proceeds in order, the cleartext password is
\* sent only under the policy ANY, everything unknown is fatal.
Authenticate(m) ==
    /\ conn.stage = "auth"
    /\ conn' = CASE m = "ok" -> conn
                 [] m = "cleartext" /\ conn.policy = "ANY" -> [conn EXCEPT !.sent = @ \union {"password"}]
                 [] m = "sasl" -> [conn EXCEPT !.sasl = 1]
                 [] m = "continue" /\ conn.sasl = 1 -> [conn EXCEPT !.sasl = 2, !.sent = @ \union {"proof"}]
                 [] m = "final" /\ conn.sasl = 2 -> [conn EXCEPT !.sasl = 3]
                 [] m = "ready" -> Established
                 [] OTHER -> [conn EXCEPT !.stage = "closed"]
    /\ UNCHANGED <<slot, cache, epoch, req, batch, back, out, pin, streaming, answer, srv, abort, wrong>>

PgInit ==
    /\ conn \in [stage : {"ssl"}, encryption : {"NONE", "OPTIONAL", "REQUIRED"}, policy : {"ANY", "NO_PLAINTEXT"},
                 secure : {FALSE}, sasl : {0}, sent : {{}}]
    /\ slot = FreshSlot /\ cache = EmptyCache /\ epoch = 1
    /\ req = NoReq /\ batch = <<>> /\ back = <<>> /\ out = FreshOut
    /\ pin = 0 /\ streaming = FALSE
    /\ answer = [no |-> 0, sql |-> "none", kind |-> "none", rows |-> <<>>]
    /\ srv = FreshServer
    /\ abort = [aborted |-> FALSE, side |-> "none", of |-> 0]
    /\ wrong = {}

PgNext ==
    \/ NegotiateTls
    \/ \E m \in Handshakes : Authenticate(m)
    \/ \E sql \in Sqls, rows \in {0, 1}, again \in BOOLEAN :
         /\ rows # 0 => RowsOf[sql] > 0
         /\ Send([no |-> answer.no + 1, sql |-> sql, session |-> pin, rows |-> rows, kind |-> "query"], again)
    \/ pin # 0 /\ Send([no |-> answer.no + 1, sql |-> "sp", session |-> pin, rows |-> 0, kind |-> "savepoint"], FALSE)
    \/ StreamNext
    \/ OpenSession
    \/ CloseSession
    \/ ServerRuns
    \/ ServerForgets
    \/ OtherInvalidates
    \/ back # <<>> /\ \E n \in {1, Len(back)} : Receive(n)
    \/ ConnectionLost
    \/ ClientGone
    \/ CancelArrives
    \/ CancelFails

PgSpec == PgInit /\ [][PgNext]_pgVars

------------------------------------------------------------------------------
(* A statement that reaches the server runs the SQL that was asked for,    *)
(* never a plan some other text left under the name, and no name is        *)
(* prepared twice; an open transaction is joined only by the session that  *)
(* began it, so nobody runs in or commits another's abandoned work         *)
(* (Serialize's leftover rollback, PgStatementCache).                      *)
RunsWhatWasAsked == wrong \cap {"sql", "name", "tx"} = {}

(* A finished request was answered by rows of its own statement only, all  *)
(* of them: neither the prologue's results nor an earlier chunk remain,    *)
(* and no chunk of a stream is lost or repeated (expectedReady, ResetRows, *)
(* the stream phases).                                                     *)
AnswersAreOwn ==
    answer.kind = "done" /\ req = NoReq =>
        answer.rows = [i \in 1..(IF answer.sql \in Sqls THEN RowsOf[answer.sql] ELSE 0) |-> answer.sql]

(* A required encryption is in place before anything but SSLRequest is     *)
(* sent, and the password travels in clear text only by policy             *)
(* (PgOnConnect).                                                          *)
RequiredMeansEncrypted ==
    conn.stage = "auth" =>
        /\ conn.encryption = "REQUIRED" => conn.secure
        /\ "password" \in conn.sent => conn.policy = "ANY"

(* A CancelRequest stops only the query whose client went away.            *)
CancelsOnlyTheAbandoned == "cancel" \notin wrong
==============================================================================
