----------------------------- MODULE MCEndpointSlots ---------------------------
(* Small instances of EndpointSlots for TLC. *)
EXTENDS EndpointSlots, TLC

\* Slots and clients are interchangeable (not used with liveness).
Symmetric == Permutations(Slots) \cup Permutations(Clients)

CONSTANTS q1, q2

Setup(features, reqs, coalesced, addrs, prewarm, events, bound) ==
    [features |-> features, reqs |-> reqs, coalesced |-> coalesced, 
     connects |-> {"progress"}, addrs |-> addrs, prewarm |-> prewarm, events |-> events, budget |-> bound]

Broken(u) == [u EXCEPT !.connects = @ \cup {"broken"}]

\* Leases, connects, keep-alive, aborts, pushes, retries, reconnects and local
\* failures, on a plain and on a TLS endpoint of two addresses.
LifecycleSetups ==
    {Broken(Setup({"onAbort", "onPush", "retry", "local"}, {q1}, {}, 2, 1, 1, 3)),
     Broken(Setup({"tls", "retry"}, {q1}, {}, 2, 1, 1, 3))}
\* onConnect hooks, with an in-band upgrade to TLS or after a TLS handshake.
ConnectSetups ==
    {Setup({"onConnect", "upgrade", "onAbort", "local"}, {q1}, {}, 1, 1, 1, 2),
     Setup({"tls", "onConnect", "onAbort", "onPush"}, {q1}, {}, 1, 1, 1, 2)}
\* Identical requests share one response while clients come and go, and an
\* epoll_wait may report several events.
CoalesceSetups == {Setup({"onAbort"}, {q1, q2}, {q1}, 1, 0, 2, 3), Setup({"onAbort"}, {q1, q2}, {q1}, 1, 0, 1, 4)}
\* Handlers reserve a connection and send on it.
PinSetups == {Setup({"pin"}, {q1}, {}, 1, 0, 2, 4)}

PoolSetups == LifecycleSetups \cup ConnectSetups \cup CoalesceSetups \cup PinSetups
\* Every request ends: no local failures, no retries.
LiveSetups == {Setup({"onAbort", "onConnect"}, {q1}, {q1}, 1, 0, 1, 3)}
\* A stale event for a slot that was released earlier in the batch.
BatchSetups == {Setup({}, {q1}, {}, 1, 0, 2, 2)}
\* A failed waiter retries from inside the release of its slot.
RetrySetups == {Setup({"retry"}, {q1}, {q1}, 1, 0, 1, 4)}
===============================================================================
