----------------------------- MODULE MCProtocols -----------------------------
(***************************************************************************)
(* The protocols an endpoint speaks and the refresh of its addresses, side *)
(* by side: 'topic' picks the part a behaviour exercises, the others stay  *)
(* as they start.                                                          *)
(***************************************************************************)
EXTENDS MuxEndpoint, SmtpClient, HttpUpstream, PgConn, DnsRefresh, TLC

VARIABLE topic

protocolVars == <<topic, muxVars, smtpVars, upstreamVars, pgVars, dnsVars>>

ProtocolInit ==
    /\ topic \in {"mux", "smtp", "http", "pg", "dns"}
    /\ MuxInit /\ SmtpInit /\ UpstreamInit /\ PgInit /\ DnsInit
    /\ (topic # "mux" => hook)
    /\ (topic # "http" => exchange = CHOOSE e \in Exchanges : TRUE)
    /\ (topic # "pg" => conn.encryption = "NONE" /\ conn.policy = "ANY")

ProtocolNext ==
    /\ UNCHANGED topic
    /\ \/ /\ topic = "mux" /\ MuxNext
          /\ UNCHANGED <<smtpVars, upstreamVars, pgVars, dnsVars>>
       \/ /\ topic = "smtp" /\ SmtpNext
          /\ UNCHANGED <<muxVars, upstreamVars, pgVars, dnsVars>>
       \/ /\ topic = "http" /\ UpstreamNext
          /\ UNCHANGED <<muxVars, smtpVars, pgVars, dnsVars>>
       \/ /\ topic = "pg" /\ PgNext
          /\ UNCHANGED <<muxVars, smtpVars, upstreamVars, dnsVars>>
       \/ /\ topic = "dns" /\ DnsNext
          /\ UNCHANGED <<muxVars, smtpVars, upstreamVars, pgVars>>

ProtocolSpec == ProtocolInit /\ [][ProtocolNext]_protocolVars

-----------------------------------------------------------------------------
\* Values of the constants.

MCBodies == {<<>>, <<".">>, <<"x", "cr", "nl", ".", "x">>, <<".", ".", "nl", "cr">>}
MCCaps   == {{"PLAIN"}, {"LOGIN"}, {}}

MCRowsOf == [begin |-> 0, commit |-> 0, sel |-> 2, ins |-> 0]
MCHomeOf == [begin |-> 0, commit |-> 1, sel |-> 0, ins |-> 0]

Cfg(limit, aux, prewarm, exact, user, local) ==
    [limit |-> limit, aux |-> aux, prewarm |-> prewarm, exact |-> exact, user |-> user,
     paired |-> TRUE, local |-> local]
MCDnsConfigs == {Cfg(3, 1, 0, FALSE, 2, FALSE), Cfg(1, 1, 0, TRUE, 1, TRUE),
                 Cfg(1, 0, 2, TRUE, 0, TRUE)}
RR(addr, ttl) == [addr |-> addr, ttl |-> ttl]
MCAnswerOf == <<[a |-> <<RR("A", 2)>>, aaaa |-> <<>>],
                [a |-> <<RR("B", 2)>>, aaaa |-> <<RR("C", 0)>>]>>
MCHostHash == <<0, 63>>

-----------------------------------------------------------------------------
(* Properties of several parts. *)

\* Every answer is the one to the request it is given for: mail accepted was
\* delivered as written, an HTTP response ends where its framing says, and a
\* Postgres request runs its own statement and gets its own rows, with the
\* prepared statements of a connection shared, evicted and closed meanwhile.
AnswersMatchRequests ==
    /\ AcceptedIsDelivered
    /\ UpstreamAnswerExact
    /\ RunsWhatWasAsked
    /\ AnswersAreOwn

\* No credential leaves in the clear once the configuration asked for TLS: SMTP
\* authenticates only on an encrypted connection, and a Postgres connection that
\* must be encrypted is, whatever the server answers.
SecretsEncrypted == CredentialsOverTls /\ RequiredMeansEncrypted

\* A stream of a multiplexed connection has exactly one owner, whatever callbacks
\* do in the middle of an answer or a teardown, and slotsInUse counts the leases
\* (but for what LeaseGivenBackOnce names).
MuxSound == MuxStreamsSound /\ MuxLeaseExact
===============================================================================
