------------------------------ MODULE SmtpClient ------------------------------
(***************************************************************************)
(* The SMTP endpoint (src/include/wfx/endpoint/smtp.hpp): the onConnect    *)
(* handshake EHLO, STARTTLS, EHLO, AUTH over one slot, and the mail        *)
(* transactions that later run on the same pinned connection.              *)
(*                                                                         *)
(* A reply line is a record: its three digit code, whether it is the last  *)
(* line of its reply, and the capability it names.  Every line travels as  *)
(* two parts, so that a read may end inside one.  The server and the       *)
(* network are external.                                                   *)
(***************************************************************************)
EXTENDS Naturals, Sequences, SequencesExt

CONSTANTS MaxResponseLines,   \* cfg.maxResponseLines
          Bodies,             \* message bodies handed to SendMail, as token sequences
          MaxMails,           \* bound: transactions begun
          Caps                \* capability sets a server advertises over TLS

VARIABLES stage,     \* where SmtpOnConnect is, "ready" once pooled, "closed" when torn down
          secure,    \* sslConn # nullptr
          wire,      \* parts on their way from the server
          inbuf,     \* the slot's read buffer
          pending,   \* how much of the last Receive() the next one trims
          resp,      \* LineResponse or ParseState of the reply being read
          auth,      \* ghost: the mechanism used and what the TLS server advertised
          tx,        \* the SendMail in progress and its outcome
          server     \* external: the server's transaction state

smtpVars == <<stage, secure, wire, inbuf, pending, resp, auth, tx, server>>

NoResp == [code |-> 0, lines |-> 0, acc |-> FALSE, caps |-> {}, status |-> "more"]

Line(code, last, cap) == [code |-> code, last |-> last, cap |-> cap]

\* Every line is delivered as a head and a tail part
Parts(lines) ==
    FlattenSeq([i \in DOMAIN lines |-> <<[line |-> lines[i], end |-> FALSE],
                                         [line |-> lines[i], end |-> TRUE]>>])

------------------------------------------------------------------------------
(***************************************************************************)
(* Reading one reply                                                       *)
(***************************************************************************)

\* Takes one part: ReadLine keeps a head without its end in lineAcc; a whole
\* line must parse, stay under the line limit and repeat the first code.
\* Code 0 stands for a line ParseResponseLine refuses.
FeedPart(f, part) ==
    LET l == part.line
        r == f.resp
    IN  IF r.status # "more" THEN f
        ELSE IF ~part.end
             THEN [f EXCEPT !.pos = @ + 1, !.resp.acc = TRUE]
        ELSE IF \/ l.code = 0
                \/ r.lines + 1 > MaxResponseLines
                \/ r.code # 0 /\ l.code # r.code
             THEN [f EXCEPT !.pos = @ + 1, !.resp.status = "bad"]
        ELSE [pos |-> f.pos + 1,
              resp |-> [code |-> l.code, lines |-> r.lines + 1, acc |-> FALSE,
                        caps |-> r.caps \union l.cap,
                        status |-> IF l.last THEN "ok" ELSE "more"]]

\* LineResponse::Feed and Parse: both walk the bytes handed over and stop
\* after the reply's last line
Feed(parts, r) == FoldLeft(FeedPart, [pos |-> 0, resp |-> r], parts)

------------------------------------------------------------------------------
(***************************************************************************)
(* The handshake                                                           *)
(***************************************************************************)

SmtpInit ==
    /\ stage = "greet" /\ secure = FALSE
    /\ wire = <<>> /\ inbuf = <<>> /\ pending = 0 /\ resp = NoResp
    /\ auth = [mech |-> "none", offered |-> {}]
    /\ tx = [cmd |-> "none", begun |-> 0, accepted |-> FALSE, body |-> <<>>, last |-> 0]
    /\ server = [mode |-> "greeting", got |-> <<>>, delivered |-> {}, dirty |-> FALSE]

\* The code each stage insists on; anything else is EpFatal
Wanted == [greet |-> 220, ehlo1 |-> 250, starttls |-> 220, ehlo2 |-> 250,
           login |-> 334, user |-> 334, auth |-> 235]

InHandshake == stage \in DOMAIN Wanted

\* co_return EpFatal: the engine tears the slot down
Fatal ==
    /\ stage' = "closed"
    /\ UNCHANGED <<secure, auth>>

\* Keeping what was read before the upgrade
UpgradeTlsFault(rest) ==
    /\ secure' = TRUE
    /\ inbuf' = rest
    /\ pending' = 0

\* UpgradeToTLS: the read buffer is emptied before the wrap, and the pending
\* trim is dropped with it
UpgradeTls(rest) ==
    /\ secure' = TRUE
    /\ inbuf' = <<>>
    /\ pending' = 0

\* The steps of SmtpOnConnect after a whole, correct reply r at this stage:
\* the next command is sent and the next reply awaited.
Advance(r) ==
    \/ /\ stage = "greet" /\ stage' = "ehlo1"
       /\ UNCHANGED <<secure, auth>>
    \/ /\ stage = "ehlo1" /\ "STARTTLS" \in r.caps /\ stage' = "starttls"
       /\ UNCHANGED <<secure, auth>>
    \/ /\ stage = "ehlo1" /\ "STARTTLS" \notin r.caps /\ Fatal
    \/ /\ stage = "ehlo2" /\ "PLAIN" \in r.caps /\ stage' = "auth"
       /\ auth' = [auth EXCEPT !.mech = "PLAIN"]
       /\ UNCHANGED secure
    \/ /\ stage = "ehlo2" /\ "PLAIN" \notin r.caps /\ "LOGIN" \in r.caps /\ stage' = "login"
       /\ auth' = [auth EXCEPT !.mech = "LOGIN"]
       /\ UNCHANGED secure
    \/ /\ stage = "ehlo2" /\ r.caps \cap {"PLAIN", "LOGIN"} = {} /\ Fatal
    \/ /\ stage = "login" /\ stage' = "user" /\ UNCHANGED <<secure, auth>>
    \/ /\ stage = "user" /\ stage' = "auth" /\ UNCHANGED <<secure, auth>>
    \/ /\ stage = "auth" /\ stage' = "ready" /\ UNCHANGED <<secure, auth>>

\* ReadResponse: Receive(pending) trims what was used, waits for fresh bytes
\* (SlotReceive re-arms the descriptor and does not look at what is left),
\* and feeds everything in the buffer.  Plaintext still in the socket when TLS
\* starts is no TLS record: the TLS handshake fails.
ReadResponse(n) ==
    LET held == SubSeq(inbuf, pending + 1, Len(inbuf)) \o SubSeq(wire, 1, n)
        f    == Feed(held, resp)
    IN  /\ InHandshake
        /\ wire' = SubSeq(wire, n + 1, Len(wire))
        /\ UNCHANGED <<tx, server>>
        /\ \/ /\ f.resp.status = "more"
              /\ inbuf' = held /\ pending' = Len(held) /\ resp' = f.resp
              /\ UNCHANGED <<stage, secure, auth>>
           \/ /\ \/ f.resp.status = "bad"
                 \/ f.resp.status = "ok" /\ f.resp.code # Wanted[stage]
              /\ Fatal
              /\ inbuf' = held /\ pending' = f.pos /\ resp' = NoResp
           \/ /\ f.resp.status = "ok" /\ f.resp.code = Wanted[stage]
              /\ resp' = NoResp
              /\ \/ stage = "starttls" /\ n = Len(wire) /\ stage' = "ehlo2" /\ UpgradeTls(SubSeq(held, f.pos + 1, Len(held)))
                    /\ UNCHANGED auth
                 \/ stage = "starttls" /\ n < Len(wire) /\ Fatal
                    /\ inbuf' = <<>> /\ pending' = 0
                 \/ Advance(f.resp) /\ inbuf' = held /\ pending' = f.pos

\* A Send or Receive that fails, a TLS handshake that fails, the connect budget
HandshakeFails ==
    /\ InHandshake
    /\ Fatal
    /\ UNCHANGED <<wire, inbuf, pending, resp, tx, server>>

\* SmtpOnConnect returned, OnSlotConnected: EpReady; the read buffer starts the first request empty
HandshakeDone ==
    /\ stage = "ready"
    /\ stage' = "pooled"
    /\ inbuf' = <<>> /\ pending' = 0
    /\ server' = [server EXCEPT !.mode = "idle", !.got = <<0, "none">>]
    /\ UNCHANGED <<secure, wire, resp, auth, tx>>

------------------------------------------------------------------------------
(***************************************************************************)
(* The server during the handshake (external)                              *)
(***************************************************************************)

GoodReply(s) ==
    CASE s \in {"greet", "starttls"} -> {<<Line(220, TRUE, {})>>}
      [] s = "ehlo1" -> {<<Line(250, FALSE, {}), Line(250, TRUE, c)>> :
                             c \in {{"STARTTLS"}, {"PLAIN"}}}
      [] s = "ehlo2" -> {<<Line(250, FALSE, c), Line(250, TRUE, {})>> : c \in Caps}
      [] s \in {"login", "user"} -> {<<Line(334, TRUE, {})>>}
      [] s = "auth" -> {<<Line(235, TRUE, {})>>}

BadReply ==
    {<<Line(535, TRUE, {})>>, <<Line(0, TRUE, {})>>,
     <<Line(250, FALSE, {}), Line(220, TRUE, {})>>,
     [i \in 1..(MaxResponseLines + 1) |-> Line(250, i > MaxResponseLines, {})]}

\* One reply per command.  Before TLS anything may follow the reply on the
\* same connection.
ServerReplies ==
    /\ InHandshake
    /\ wire = <<>> /\ server.mode \in {"greeting", "waiting"}
    /\ server.got # <<stage, secure>>
    /\ \E lines \in GoodReply(stage) \union BadReply,
          extra \in {<<>>} \union IF secure THEN {} ELSE {<<Line(250, TRUE, {"PLAIN"})>>} :
         /\ wire' = Parts(lines \o extra)
         /\ auth' = IF stage = "ehlo2"
                    THEN [auth EXCEPT !.offered = UNION {lines[i].cap : i \in DOMAIN lines}]
                    ELSE auth
    /\ server' = [server EXCEPT !.got = <<stage, secure>>]
    /\ UNCHANGED <<stage, secure, inbuf, pending, resp, tx>>

------------------------------------------------------------------------------
(***************************************************************************)
(* Message bodies                                                          *)
(***************************************************************************)

\* The lines of a body: split at every "nl", each without one trailing "cr"
BodyLines(body) ==
    LET cut == FoldLeft(LAMBDA acc, t : IF t = "nl" THEN Append(acc, <<>>)
                                        ELSE Append(Front(acc), Append(Last(acc), t)),
                        <<<<>>>>, body)
        Chomp(l) == IF l # <<>> /\ Last(l) = "cr" THEN Front(l) ELSE l
    IN  [i \in DOMAIN cut |-> Chomp(cut[i])]

\* No stuffing
StuffedFault(line) == line

Stuffed(line) == IF line # <<>> /\ Head(line) = "." THEN <<".">> \o line ELSE line

\* AppendDotStuffed and the terminator Serialize appends: the body as lines
\* on the wire.  An empty body sends no line of its own.
AppendDotStuffed(body) ==
    (IF body = <<>> THEN <<>> ELSE [i \in DOMAIN BodyLines(body) |-> Stuffed(BodyLines(body)[i])])
        \o <<<<".">>>>

\* The receiver (external): lines up to the first lone ".", one leading "."
\* dropped from each
Received(lines) ==
    LET stop == CHOOSE i \in DOMAIN lines :
                   lines[i] = <<".">> /\ \A j \in 1..(i - 1) : lines[j] # <<".">>
    IN  [i \in 1..(stop - 1) |->
            IF lines[i] # <<>> /\ Head(lines[i]) = "." THEN Tail(lines[i]) ELSE lines[i]]

------------------------------------------------------------------------------
(***************************************************************************)
(* Transactions                                                            *)
(***************************************************************************)

\* SendMail: Begin pins the pooled connection and sends MAIL FROM
BeginMail(body) ==
    /\ stage = "pooled" /\ tx.cmd = "none"
    /\ tx.begun < MaxMails
    /\ tx' = [cmd |-> "MAIL", begun |-> tx.begun + 1, accepted |-> FALSE,
              body |-> body, last |-> 0]
    /\ resp' = NoResp
    /\ server' = [server EXCEPT !.dirty = @ \/ server.mode # "idle"]
    /\ UNCHANGED <<stage, secure, wire, inbuf, pending, auth>>

\* Serialize refuses a field with CR, LF or NUL in it, or a message larger
\* than the send buffer: the request fails and the slot is torn down
SerializeFails ==
    /\ tx.cmd # "none" /\ wire = <<>> /\ server.got # <<tx.begun, tx.cmd>>
    /\ stage' = "closed"
    /\ tx' = [tx EXCEPT !.cmd = "none"]
    /\ UNCHANGED <<secure, wire, inbuf, pending, resp, auth, server>>

\* The server's reaction to one command (external).  A message is delivered
\* exactly when the reply to the body is positive.
Reaction(mode, cmd) ==
    CASE mode = "data" /\ cmd # "BODY" -> {}
      [] cmd = "MAIL" /\ mode = "idle" -> {[code |-> 250, mode |-> "mail"], [code |-> 450, mode |-> "idle"]}
      [] cmd = "MAIL" /\ mode # "idle" -> {[code |-> 503, mode |-> mode]}
      [] cmd = "RCPT" -> {[code |-> 250, mode |-> "rcpt"], [code |-> 550, mode |-> mode]}
      [] cmd = "DATA" -> {[code |-> 354, mode |-> "data"], [code |-> 554, mode |-> mode]}
      [] cmd = "BODY" -> {[code |-> 250, mode |-> "idle"], [code |-> 552, mode |-> "idle"]}
      [] cmd = "RSET" -> {[code |-> 250, mode |-> "idle"]}

ServerReacts ==
    /\ tx.cmd # "none" /\ wire = <<>> /\ server.got # <<tx.begun, tx.cmd>>
    /\ \E r \in Reaction(server.mode, tx.cmd) :
         /\ wire' \in {Parts(<<Line(r.code, FALSE, {}), Line(r.code, TRUE, {})>>),
                       Parts(<<Line(r.code, TRUE, {})>>)}
         /\ server' = [server EXCEPT !.mode = r.mode, !.got = <<tx.begun, tx.cmd>>,
                          !.delivered = IF tx.cmd = "BODY" /\ r.code = 250
                                        THEN @ \union {<<tx.begun, Received(AppendDotStuffed(tx.body))>>}
                                        ELSE @]
    /\ UNCHANGED <<stage, secure, inbuf, pending, resp, auth, tx>>

Success(code) == code \in 200..299

\* The command that follows a reply SendMail is content with.  The outcome is
\* accepted only by a positive reply to the body.
NextCmd == [MAIL |-> "RCPT", RCPT |-> "DATA", DATA |-> "BODY", BODY |-> "none", RSET |-> "none"]

\* Any positive reply counts as acceptance
RecordedFault(code) ==
    IF IF tx.cmd = "DATA" THEN code = 354 ELSE Success(code)
    THEN [tx EXCEPT !.cmd = NextCmd[@], !.last = code, !.accepted = TRUE]
    ELSE [tx EXCEPT !.cmd = "none", !.last = code]

Recorded(code) ==
    IF IF tx.cmd = "DATA" THEN code = 354 ELSE Success(code)
    THEN [tx EXCEPT !.cmd = NextCmd[@], !.last = code, !.accepted = (tx.cmd = "BODY")]
    ELSE [tx EXCEPT !.cmd = "none", !.last = code]

\* One read of a transaction's reply: a complete reply answers the step, a bad
\* one tears the slot down.  When SendMail stops, its ReservedSlot goes out of
\* scope and the connection is back in the pool with nothing sent for it.
ReceiveReply(n) ==
    LET held == inbuf \o SubSeq(wire, 1, n)
        f    == Feed(held, resp)
    IN  /\ stage = "pooled" /\ tx.cmd # "none"
        /\ wire' = SubSeq(wire, n + 1, Len(wire))
        /\ inbuf' = SubSeq(held, f.pos + 1, Len(held))
        /\ resp' = IF f.resp.status = "more" THEN f.resp ELSE NoResp
        /\ tx' = CASE f.resp.status = "more" -> tx
                   [] f.resp.status = "ok"   -> Recorded(f.resp.code)
                   [] OTHER                  -> [tx EXCEPT !.cmd = "none"]
        /\ stage' = IF f.resp.status = "bad" THEN "closed" ELSE stage
        /\ UNCHANGED <<secure, pending, auth, server>>

\* A transaction written by hand may Reset between two messages
ResetMail ==
    /\ stage = "pooled" /\ tx.cmd = "none" /\ tx.begun > 0 /\ tx.begun < MaxMails
    /\ tx' = [tx EXCEPT !.cmd = "RSET", !.begun = @ + 1, !.accepted = FALSE]
    /\ resp' = NoResp
    /\ UNCHANGED <<stage, secure, wire, inbuf, pending, auth, server>>

\* The request timeout: the step fails below SMTP and the slot is torn down
RequestTimeout ==
    /\ stage = "pooled" /\ tx.cmd # "none"
    /\ stage' = "closed"
    /\ tx' = [tx EXCEPT !.cmd = "none"]
    /\ UNCHANGED <<secure, wire, inbuf, pending, resp, auth, server>>

SmtpNext ==
    \/ \E n \in 1..Len(wire) : ReadResponse(n)
    \/ HandshakeFails
    \/ HandshakeDone
    \/ ServerReplies
    \/ \E body \in Bodies : BeginMail(body)
    \/ SerializeFails
    \/ ServerReacts
    \/ \E n \in 1..Len(wire) : ReceiveReply(n)
    \/ ResetMail
    \/ RequestTimeout

SmtpSpec == SmtpInit /\ [][SmtpNext]_smtpVars

------------------------------------------------------------------------------
(* Credentials leave only over TLS and only with a mechanism the server    *)
(* advertised over TLS, whatever was appended to the plaintext replies     *)
(* (SmtpOnConnect's "the pre-TLS capability list is never reused").        *)
CredentialsOverTls ==
    auth.mech # "none" => secure /\ auth.mech \in auth.offered

(* SendMail reports success only for a message the server accepted, and    *)
(* the server holds the very lines of the body: no line ends the message   *)
(* early and none loses or gains a dot (AppendDotStuffed).                 *)
AcceptedIsDelivered ==
    tx.accepted =>
        <<tx.begun, IF tx.body = <<>> THEN <<>> ELSE BodyLines(tx.body)>> \in server.delivered

(* Every transaction starts on a connection the server considers idle, as  *)
(* the pool's reuse of a connection supposes.                              *)
FreshTransaction == ~server.dirty
==============================================================================
