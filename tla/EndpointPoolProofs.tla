--------------------------- MODULE EndpointPoolProofs --------------------------
(*****************************************************************************)
(* What the callers of an endpoint rely on, for the endpoints and the        *)
(* constants of EndpointSlotsProofs.  First, that no client which waits for  *)
(* a response is ever forgotten.  The invariant SInv proved there says that  *)
(* a suspended client has at most one thing that will wake it; ServedInv     *)
(* says that it has at least one.  The hard case is a request that is        *)
(* coalesced under a key while ReleaseEndpoint is still failing the waiters  *)
(* of that key: the entry is erased afterwards and the new waiter with it.   *)
(* It cannot happen when handlers do not call again after a failure, because *)
(* everything above the half-finished release is a failure (FailAbove); when *)
(* they do, run ep_retrying_waiter shows that it does.  Second, that the     *)
(* gauge of leased slots is exact (CountInv): what goes on with a slot, the  *)
(* frames of its release included, finds it leased or pooled and counts it   *)
(* once.  Third, that a coalesced response reaches the clients that asked    *)
(* for it: what a slot or a frame still has to answer is the request of its  *)
(* client or of its key (FitInv), and an entry belongs to the slot that      *)
(* carries its key until the release of that slot erases it (OwnInv).        *)
(*****************************************************************************)
EXTENDS EndpointSlotsProofs

\* The connection of client c is being closed.
Going(c) == \E p \in Depth : Down[p].op = "freeClient" /\ Down[p].on = c

\* A suspended client has a slot, a frame or an entry that is not about to go, or
\* its connection is being closed.
AttendedAt(c) ==
    \/ client[c].ep # None
    \/ \E p \in Depth : Woken(p, c)
    \/ \E k \in Coalesced : ~Erasing(k) /\ Parked(k, c)
    \/ Going(c)
Attended == \A c \in Clients : client[c].co = "waits" => AttendedAt(c)

\* A client that is suspended has asyncData, until its connection is closed.
Roused == \A c \in Clients : client[c].co = "waits" /\ ~client[c].async => Going(c)

\* Whatever runs while the waiters of a released slot are failed is a failure too.
Failing(f) ==
    \/ f.op = "run" /\ f.arg = "failed"
    \/ f.op \in {"resume", "waiters"} /\ f.arg = None
    \/ f.op \in {"unpin", "release", "notify", "free", "erase"}
FailAbove == \A p, q \in Depth : p < q /\ Down[p].op = "erase" => Failing(Down[q])

ServedInv == Attended /\ Roused /\ FailAbove


-------------------------------------------------------------------------------
(* What the handlers on the stack do, as the invariants here see it.         *)

\* A step that leaves a client where it is, but perhaps unlinks it from its slot.
Stays(d) ==
    /\ client'[d].gen = client[d].gen /\ client'[d].live = client[d].live
    /\ client'[d].co = client[d].co /\ client'[d].async = client[d].async
    /\ client'[d].req = client[d].req
Unlinks(c) ==
    \A d \in Clients : /\ Stays(d)
                       /\ client'[d].ep = IF d = c THEN None ELSE client[d].ep

LEMMA UnlinksOne ==
  ASSUME Typed, NEW c \in Clients \cup {None},
         client' = [client EXCEPT ![c].ep = None] \/ (c = None /\ client' = client)
  PROVE  Unlinks(c)
<1>0. c \in Clients => c # None
  BY SetsAssumption
<1>1. CASE c = None
  <2>1. \A d \in Clients : client'[d] = client[d]
    BY <1>1, SetsAssumption DEF Typed
  <2> QED BY <1>1, <2>1, SetsAssumption DEF Unlinks, Stays
<1>2. CASE c \in Clients /\ client' = [client EXCEPT ![c].ep = None]
  BY <1>2 DEF Typed, ClientShape, ClientFields, Unlinks, Stays
<1> QED BY <1>0, <1>1, <1>2

LEMMA UnlinksNone ==
  ASSUME client' = client
  PROVE  \A d \in Clients : Stays(d) /\ client'[d].ep = client[d].ep
  BY DEF Stays

\* The frame on top, by its place.
LEMMA Tops ==
  ASSUME Typed, NEW op, Running(op)
  PROVE  /\ stack # <<>> /\ Height \in Nat \ {0} /\ Height \in Depth /\ Height > 0
         /\ Top = Down[Height] /\ Down[Height] \in FrameType /\ Down[Height].op = op
<1>1. stack # <<>> /\ Top.op = op
  BY DEF Running
<1> QED BY <1>1, TopFacts

LEMMA ResumeFacts ==
  ASSUME Typed, Resume, NEW h, h = Height, NEW c, c = Down[h].on, NEW a, a = Down[h].arg
  PROVE  /\ h \in Nat \ {0} /\ KeepsBelow(h - 1) /\ Down[h].op = "resume"
         /\ c \in Clients \cup {None} /\ a \in Reqs \cup {None}
         /\ slot' = slot /\ pending' = pending /\ batch' = batch
         /\ \/ /\ c \in Clients /\ client[c].async /\ client'[c].co = "runs"
               /\ client'[c].ep = client[c].ep
               /\ \A d \in Clients \ {c} : client'[d] = client[d]
               /\ Fresh(h - 1) = {h}
               /\ Down'[h] = Frame("run", c, IF a = None THEN "failed" ELSE "ok")
            \/ ~(c \in Clients /\ client[c].async) /\ client' = client /\ Fresh(h - 1) = {}
<1>1. /\ stack # <<>> /\ h \in Nat \ {0} /\ Top = Down[h] /\ Down[h] \in FrameType
      /\ Down[h].op = "resume"
  BY Tops DEF Resume
<1>2. c \in Clients \cup {None} /\ a \in Reqs \cup {None}
  BY <1>1, FrameFacts
<1>3. slot' = slot /\ pending' = pending /\ batch' = batch
  BY DEF Resume
<1>f. PICK f : f = Frame("run", c, IF a = None THEN "failed" ELSE "ok")
  OBVIOUS
<1>4. CASE c \in Clients /\ client[c].async
  <2>1. /\ client' = [client EXCEPT ![c].async = FALSE, ![c].co = "runs"]
        /\ stack' = <<f>> \o Tail(stack)
    BY <1>f, <1>1, <1>4, SetsAssumption DEF Resume
  <2>2. f \in FrameType
    BY <1>f, <1>4, FrameTypes
  <2>3. KeepsBelow(h - 1) /\ Fresh(h - 1) = {h} /\ Down'[h] = f
    BY <1>1, <2>1, <2>2, Pushes1
  <2>4. /\ client'[c].co = "runs" /\ client'[c].ep = client[c].ep
        /\ \A d \in Clients \ {c} : client'[d] = client[d]
    BY <1>4, <2>1 DEF Typed, ClientShape, ClientFields
  <2> QED BY <1>f, <1>1, <1>2, <1>3, <1>4, <2>3, <2>4
<1>5. CASE ~(c \in Clients /\ client[c].async)
  <2>1. client' = client /\ stack' = Tail(stack)
    BY <1>1, <1>2, <1>5 DEF Resume
  <2>2. KeepsBelow(h - 1) /\ Fresh(h - 1) = {}
    BY <1>1, <2>1, Pops
  <2> QED BY <1>1, <1>2, <1>3, <1>5, <2>1, <2>2
<1> QED BY <1>4, <1>5

LEMMA WaitersFacts ==
  ASSUME Typed, Waiters, NEW h, h = Height, NEW w, w = Down[h].on, NEW a, a = Down[h].arg
  PROVE  /\ h \in Nat \ {0} /\ KeepsBelow(h - 1) /\ Down[h].op = "waiters"
         /\ w \in Seq(Tokens) /\ a \in Reqs \cup {None}
         /\ slot' = slot /\ pending' = pending /\ batch' = batch
         /\ \/ w = <<>> /\ client' = client /\ Fresh(h - 1) = {}
            \/ /\ w # <<>> /\ client' = client /\ client[Head(w).on].gen # Head(w).gen
               /\ Fresh(h - 1) = {h} /\ Down'[h] = Frame("waiters", Tail(w), a)
            \/ /\ w # <<>> /\ Unlinks(Head(w).on) /\ client[Head(w).on].gen = Head(w).gen
               /\ Fresh(h - 1) = {h, h + 1} /\ Down'[h] = Frame("waiters", Tail(w), a)
               /\ Down'[h + 1] = Frame("resume", Head(w).on, a)
<1>1. /\ stack # <<>> /\ h \in Nat \ {0} /\ Top = Down[h] /\ Down[h] \in FrameType
      /\ Down[h].op = "waiters"
  BY Tops DEF Waiters
<1>2. w \in Seq(Tokens) /\ a \in Reqs \cup {None}
  BY <1>1, FrameFacts
<1>3. slot' = slot /\ pending' = pending /\ batch' = batch
  BY DEF Waiters
<1>4. CASE w = <<>>
  <2>1. client' = client /\ stack' = Tail(stack)
    BY <1>1, <1>4 DEF Waiters
  <2>2. KeepsBelow(h - 1) /\ Fresh(h - 1) = {}
    BY <1>1, <2>1, Pops
  <2> QED BY <1>1, <1>2, <1>3, <1>4, <2>1, <2>2
<1>5. CASE w # <<>>
  <2>t. Tail(w) \in Seq(Tokens) /\ Head(w) \in Tokens
    BY <1>2, <1>5
  <2>f. PICK f, e : f = Frame("waiters", Tail(w), a) /\ e = Frame("resume", Head(w).on, a)
    OBVIOUS
  <2>1. f \in FrameType /\ e \in FrameType /\ Head(w).on \in Clients
    BY <1>2, <2>t, <2>f, FrameTypes DEF Tokens
  <2>2. CASE client[Head(w).on].gen # Head(w).gen
    <3>1. client' = client /\ stack' = <<f>> \o Tail(stack)
      BY <1>1, <1>5, <2>f, <2>2 DEF Waiters
    <3>2. KeepsBelow(h - 1) /\ Fresh(h - 1) = {h} /\ Down'[h] = f
      BY <1>1, <2>1, <3>1, Pushes1
    <3> QED BY <1>1, <1>2, <1>3, <1>5, <2>f, <2>2, <3>1, <3>2
  <2>3. CASE client[Head(w).on].gen = Head(w).gen
    <3>1. /\ client' = [client EXCEPT ![Head(w).on].ep = None]
          /\ stack' = <<e, f>> \o Tail(stack)
      BY <1>1, <1>5, <2>f, <2>3 DEF Waiters
    <3>2. KeepsBelow(h - 1) /\ Fresh(h - 1) = {h, h + 1} /\ Down'[h] = f /\ Down'[h + 1] = e
      BY <1>1, <2>1, <3>1, Pushes2
    <3>3. Unlinks(Head(w).on)
      BY <2>1, <3>1, UnlinksOne
    <3> QED BY <1>1, <1>2, <1>3, <1>5, <2>f, <2>3, <3>2, <3>3
  <2> QED BY <2>2, <2>3
<1> QED BY <1>4, <1>5

\* A slot's client is told that the slot is gone (NotifyClient), or that its response
\* does not parse (ParseError).
LEMMA NotifyFacts ==
  ASSUME Typed, NotifyClient, NEW h, h = Height, NEW s, s = Down[h].on, NEW c, c = slot[s].client
  PROVE  /\ h \in Nat \ {0} /\ KeepsBelow(h - 1) /\ Down[h].op = "notify"
         /\ s \in Slots /\ c \in Clients \cup {None}
         /\ slot' = [slot EXCEPT ![s].client = None] /\ pending' = pending /\ batch' = batch
         /\ Unlinks(c)
         /\ Fresh(h - 1) = {h} /\ Down'[h] = Frame("resume", c, None)
<1>1. /\ stack # <<>> /\ h \in Nat \ {0} /\ Top = Down[h] /\ Down[h] \in FrameType
      /\ Down[h].op = "notify"
  BY Tops DEF NotifyClient
<1>2. s \in Slots
  BY <1>1, FrameFacts DEF SlotOps
<1>3. c \in Clients \cup {None}
  BY <1>2 DEF Typed, SlotShape
<1>4. /\ slot' = [slot EXCEPT ![s].client = None] /\ pending' = pending /\ batch' = batch
      /\ client' = IF c = None THEN client ELSE [client EXCEPT ![c].ep = None]
      /\ stack' = <<Frame("resume", c, None)>> \o Tail(stack)
  BY <1>1 DEF NotifyClient
<1>5. Unlinks(c)
  BY <1>3, <1>4, UnlinksOne
<1>6. Frame("resume", c, None) \in FrameType
  BY <1>3, FrameTypes
<1>7. KeepsBelow(h - 1) /\ Fresh(h - 1) = {h} /\ Down'[h] = Frame("resume", c, None)
  BY <1>1, <1>4, <1>6, Pushes1
<1> QED BY <1>1, <1>2, <1>3, <1>4, <1>5, <1>7

LEMMA ParseErrorFacts ==
  ASSUME Typed, ParseError, NEW h, h = Height, NEW s, s = Down[h].on, NEW c, c = slot[s].client
  PROVE  /\ h \in Nat \ {0} /\ KeepsBelow(h - 1) /\ Down[h].op = "parseError"
         /\ s \in Slots /\ c \in Clients \cup {None}
         /\ slot' = [slot EXCEPT ![s].client = None] /\ pending' = pending /\ batch' = batch
         /\ Unlinks(c)
         /\ Fresh(h - 1) = {h, h + 1}
         /\ Down'[h] = Frame("close", s, None) /\ Down'[h + 1] = Frame("resume", c, None)
<1>1. /\ stack # <<>> /\ h \in Nat \ {0} /\ Top = Down[h] /\ Down[h] \in FrameType
      /\ Down[h].op = "parseError"
  BY Tops DEF ParseError
<1>2. s \in Slots
  BY <1>1, FrameFacts DEF SlotOps
<1>3. c \in Clients \cup {None}
  BY <1>2 DEF Typed, SlotShape
<1>4. /\ slot' = [slot EXCEPT ![s].client = None] /\ pending' = pending /\ batch' = batch
      /\ client' = IF c = None THEN client ELSE [client EXCEPT ![c].ep = None]
      /\ stack' = <<Frame("resume", c, None), Frame("close", s, None)>> \o Tail(stack)
  BY <1>1 DEF ParseError
<1>5. Unlinks(c)
  BY <1>3, <1>4, UnlinksOne
<1>6. Frame("resume", c, None) \in FrameType /\ Frame("close", s, None) \in FrameType
  BY <1>2, <1>3, FrameTypes DEF SlotOps
<1>f. PICK f, g : f = Frame("resume", c, None) /\ g = Frame("close", s, None)
  OBVIOUS
<1>7. KeepsBelow(h - 1) /\ Fresh(h - 1) = {h, h + 1} /\ Down'[h] = g /\ Down'[h + 1] = f
  BY <1>1, <1>4, <1>6, <1>f, Pushes2
<1> QED BY <1>1, <1>2, <1>3, <1>4, <1>5, <1>f, <1>7


\* CompleteSingleSlotRequest: the waiters it serves, and what it makes of its slot.
WaitersOf(k) == IF k = None THEN <<>> ELSE pending[k].waiters
Completed(r) == [r EXCEPT !.client = None, !.key = None]

LEMMA CompleteFacts ==
  ASSUME Typed, Placed, Complete, NEW s, s = Down[Height].on, NEW c, c = slot[s].client,
         NEW k, k = slot[s].key, NEW o, o = slot[s].owes, NEW a, a = Down[Height].arg
  PROVE  /\ Height = 1 /\ KeepsBelow(0) /\ Down[1].op = "complete"
         /\ s \in Slots /\ c \in Clients \cup {None} /\ k \in Coalesced \cup {None}
         /\ o \in Reqs \cup {None}
         /\ slot' = [slot EXCEPT ![s] = Completed(slot[s])] /\ batch' = batch
         /\ k = None => pending' = pending
         /\ k # None => pending'[k] = NoEntry
         /\ \A l \in Coalesced : l # k => pending'[l] = pending[l]
         /\ Unlinks(c)
         /\ Fresh(0) = {1, 2, 3} /\ Height' = 3
         /\ Down'[1] = Frame("resume", c, o) /\ Down'[2] = Frame("finish", s, a)
         /\ Down'[3] = Frame("waiters", WaitersOf(k), o)
<1>1. /\ stack # <<>> /\ Height \in Nat \ {0} /\ Height \in Depth
      /\ Top = Down[Height] /\ Down[Height] \in FrameType /\ Down[Height].op = "complete"
  BY Tops DEF Complete
<1>2. Height = 1
  BY <1>1 DEF Placed
<1>3. s \in Slots /\ a \in {None, "refused", "KEEP_ALIVE", "CLOSE"}
  BY <1>1, FrameFacts DEF SlotOps
<1>4. c \in Clients \cup {None} /\ k \in Coalesced \cup {None} /\ o \in Reqs \cup {None}
  BY <1>3 DEF Typed, SlotShape
<1>w. PICK w : w = WaitersOf(k)
  OBVIOUS
<1>5. w \in Seq(Tokens)
  BY <1>4, <1>w DEF Typed, WaitersOf
<1>f. PICK f, g, e : /\ f = Frame("waiters", w, o) /\ g = Frame("finish", s, a)
                     /\ e = Frame("resume", c, o)
  OBVIOUS
<1>6. f \in FrameType /\ g \in FrameType /\ e \in FrameType
  BY <1>f, <1>3, <1>4, <1>5, FrameTypes DEF SlotOps
<1>7. /\ slot' = [slot EXCEPT ![s].client = None, ![s].key = None] /\ batch' = batch
      /\ pending' = IF k = None THEN pending ELSE [pending EXCEPT ![k] = NoEntry]
      /\ client' = IF c = None THEN client ELSE [client EXCEPT ![c].ep = None]
      /\ stack' = <<f, g, e>> \o Tail(stack)
  BY <1>1, <1>w, <1>f, Zenon DEF Complete, WaitersOf
<1>8. Unlinks(c)
  BY <1>4, <1>7, UnlinksOne
<1>13. slot' = [slot EXCEPT ![s] = Completed(slot[s])]
  <2>1. DOMAIN slot = Slots /\ DOMAIN slot[s] = SlotFields
    BY <1>3 DEF Typed, SlotShape
  <2> QED BY <1>3, <1>7, <2>1 DEF Completed
<1>9. /\ k = None => pending' = pending
      /\ k # None => pending'[k] = NoEntry
      /\ \A l \in Coalesced : l # k => pending'[l] = pending[l]
  <2>1. DOMAIN pending = Coalesced
    BY DEF Typed
  <2>2. CASE k = None
    <3>1. pending' = pending
      BY <1>7, <2>2
    <3> QED BY <2>2, <3>1
  <2>3. CASE k # None
    BY <1>4, <1>7, <2>1, <2>3
  <2> QED BY <2>2, <2>3
<1>10. /\ KeepsBelow(Height - 1) /\ Fresh(Height - 1) = {Height, Height + 1, Height + 2}
       /\ Height' = Height + 2
       /\ Down'[Height] = e /\ Down'[Height + 1] = g /\ Down'[Height + 2] = f
  BY <1>1, <1>6, <1>7, Pushes3
<1>11. Height - 1 = 0 /\ Height + 1 = 2 /\ Height + 2 = 3
  BY <1>2
<1>12. /\ KeepsBelow(0) /\ Fresh(0) = {1, 2, 3} /\ Height' = 3
       /\ Down'[1] = e /\ Down'[2] = g /\ Down'[3] = f
  BY <1>2, <1>10, <1>11
<1> QED BY <1>1, <1>2, <1>3, <1>4, <1>7, <1>8, <1>9, <1>12, <1>13, <1>w, <1>f


LEMMA JoinedPairs ==
  ASSUME NEW S, NEW e \in S, NEW f \in S, NEW g \in S, NEW h \in S
  PROVE  <<e, f>> \o <<g, h>> = <<e, f, g, h>>
<1> DEFINE u == <<e, f>> \o <<g, h>>
           v == <<e, f, g, h>>
<1>1. <<e, f>> \in Seq(S) /\ <<g, h>> \in Seq(S)
  OBVIOUS
<1>2. u \in Seq(S) /\ Len(u) = 4 /\ u[1] = e /\ u[2] = f /\ u[3] = g /\ u[4] = h
  BY <1>1
<1>3. v \in Seq(S) /\ Len(v) = 4 /\ v[1] = e /\ v[2] = f /\ v[3] = g /\ v[4] = h
  OBVIOUS
<1> HIDE DEF u, v
<1>4. u = v
  BY <1>2, <1>3, SeqEqual
<1> QED BY <1>4 DEF u, v

\* ReleaseEndpoint: what it makes of its slot.
Released(r) ==
    [r EXCEPT !.inUse = @ - (IF r.pooledIdle THEN 0 ELSE 1), !.pooledIdle = FALSE,
              !.marked = FALSE, !.timer = "none"]

\* ReleaseEndpoint: the frames it leaves, from the bottom.
LEMMA ReleaseFacts ==
  ASSUME Typed, ReleaseEndpoint, NEW h, h = Height, NEW s, s = Down[h].on,
         NEW k, k = slot[s].key
  PROVE  /\ h \in Nat \ {0} /\ KeepsBelow(h - 1) /\ Down[h].op = "release"
         /\ s \in Slots /\ k \in Coalesced \cup {None}
         /\ slot' = [slot EXCEPT ![s] = Released(slot[s])]
         /\ client' = client /\ pending' = pending /\ batch' = batch
         /\ Down'[h] = Frame("free", s, None) /\ Down'[h + 1] = Frame("notify", s, None)
         /\ IF k = None THEN Fresh(h - 1) = {h, h + 1}
            ELSE /\ Fresh(h - 1) = {h, h + 1, h + 2, h + 3} /\ k \in Coalesced
                 /\ Down'[h + 2] = Frame("erase", k, None)
                 /\ Down'[h + 3] = Frame("waiters", pending[k].waiters, None)
<1>1. /\ stack # <<>> /\ h \in Nat \ {0} /\ Top = Down[h] /\ Down[h] \in FrameType
      /\ Down[h].op = "release"
  BY Tops DEF ReleaseEndpoint
<1>2. s \in Slots
  BY <1>1, FrameFacts DEF SlotOps
<1>3. k \in Coalesced \cup {None}
  BY <1>2 DEF Typed, SlotShape
<1>4. /\ slot' = [slot EXCEPT ![s] = Released(slot[s])]
      /\ client' = client /\ pending' = pending /\ batch' = batch
  BY <1>1 DEF ReleaseEndpoint, Released
<1>f. PICK f, g : f = Frame("free", s, None) /\ g = Frame("notify", s, None)
  OBVIOUS
<1>5. f \in FrameType /\ g \in FrameType
  BY <1>f, <1>2, FrameTypes DEF SlotOps
<1>6. CASE k = None
  <2>1. stack' = (<<>> \o <<g, f>>) \o Tail(stack)
    BY <1>1, <1>f, <1>6 DEF ReleaseEndpoint
  <2>2. stack' = <<g, f>> \o Tail(stack)
    BY <2>1
  <2>3. KeepsBelow(h - 1) /\ Fresh(h - 1) = {h, h + 1} /\ Down'[h] = f /\ Down'[h + 1] = g
    BY <1>1, <1>5, <2>2, Pushes2
  <2> QED BY <1>1, <1>2, <1>3, <1>4, <1>f, <1>6, <2>3
<1>7. CASE k # None
  <2>k. k \in Coalesced
    BY <1>3, <1>7
  <2>e. PICK e, w : e = Frame("erase", k, None) /\ w = Frame("waiters", pending[k].waiters, None)
    OBVIOUS
  <2>1. e \in FrameType /\ w \in FrameType
    <3>1. pending[k].waiters \in Seq(Tokens)
      BY <2>k DEF Typed
    <3> QED BY <2>e, <2>k, <3>1, FrameTypes
  <2>2. stack' = (<<w, e>> \o <<g, f>>) \o Tail(stack)
    BY <1>1, <1>f, <1>7, <2>e DEF ReleaseEndpoint
  <2>3. stack' = <<w, e, g, f>> \o Tail(stack)
    <3>1. <<w, e>> \o <<g, f>> = <<w, e, g, f>>
      BY <1>5, <2>1, JoinedPairs
    <3> QED BY <2>2, <3>1
  <2>4. /\ KeepsBelow(h - 1) /\ Fresh(h - 1) = {h, h + 1, h + 2, h + 3}
        /\ Down'[h] = f /\ Down'[h + 1] = g /\ Down'[h + 2] = e /\ Down'[h + 3] = w
    BY <1>1, <1>5, <2>1, <2>3, Pushes4
  <2> QED BY <1>1, <1>2, <1>3, <1>4, <1>f, <1>7, <2>k, <2>e, <2>4
<1> QED BY <1>6, <1>7

LEMMA EraseFacts ==
  ASSUME Typed, EraseEntry, NEW h, h = Height, NEW k, k = Down[h].on
  PROVE  /\ h \in Nat \ {0} /\ KeepsBelow(h - 1) /\ Down[h].op = "erase" /\ h \in Depth
         /\ k \in Coalesced /\ slot' = slot /\ client' = client /\ batch' = batch
         /\ \A l \in Coalesced : pending'[l] = IF l = k THEN NoEntry ELSE pending[l]
         /\ Fresh(h - 1) = {}
<1>1. /\ stack # <<>> /\ h \in Nat \ {0} /\ Top = Down[h] /\ Down[h] \in FrameType
      /\ Down[h].op = "erase" /\ h \in Depth
  BY Tops DEF EraseEntry
<1>2. k \in Coalesced
  BY <1>1, FrameFacts
<1>3. /\ slot' = slot /\ client' = client /\ batch' = batch
      /\ pending' = [pending EXCEPT ![k] = NoEntry] /\ stack' = Tail(stack)
  BY <1>1 DEF EraseEntry
<1>4. \A l \in Coalesced : pending'[l] = IF l = k THEN NoEntry ELSE pending[l]
  BY <1>3 DEF Typed
<1>5. KeepsBelow(h - 1) /\ Fresh(h - 1) = {}
  BY <1>1, <1>3, Pops
<1> QED BY <1>1, <1>2, <1>3, <1>4, <1>5

LEMMA FreeSlotFacts ==
  ASSUME Typed, FreeSlot, NEW h, h = Height, NEW s, s = Down[h].on
  PROVE  /\ h \in Nat \ {0} /\ KeepsBelow(h - 1) /\ Down[h].op = "free" /\ h \in Depth
         /\ s \in Slots /\ slot' = [slot EXCEPT ![s] = Reset(slot[s])]
         /\ client' = client /\ pending' = pending /\ batch' = batch
         /\ Fresh(h - 1) = {}
<1>1. /\ stack # <<>> /\ h \in Nat \ {0} /\ Top = Down[h] /\ Down[h] \in FrameType
      /\ Down[h].op = "free" /\ h \in Depth
  BY Tops DEF FreeSlot
<1>2. s \in Slots
  BY <1>1, FrameFacts DEF SlotOps
<1>3. /\ slot' = [slot EXCEPT ![s] = Reset(slot[s])] /\ stack' = Tail(stack)
      /\ client' = client /\ pending' = pending /\ batch' = batch
  BY <1>1 DEF FreeSlot
<1>4. KeepsBelow(h - 1) /\ Fresh(h - 1) = {}
  BY <1>1, <1>3, Pops
<1> QED BY <1>1, <1>2, <1>3, <1>4

LEMMA CloseSlotFacts ==
  ASSUME Typed, CloseSlot, NEW h, h = Height, NEW s, s = Down[h].on
  PROVE  /\ h \in Nat \ {0} /\ KeepsBelow(h - 1) /\ Down[h].op = "close" /\ h \in Depth
         /\ s \in Slots
         /\ slot' = [slot EXCEPT ![s] = [slot[s] EXCEPT !.shutting = TRUE, !.ssl = FALSE]]
         /\ client' = client /\ pending' = pending /\ batch' = batch
         /\ Fresh(h - 1) = {h} /\ Down'[h] = Frame("release", s, None)
<1>1. /\ stack # <<>> /\ h \in Nat \ {0} /\ Top = Down[h] /\ Down[h] \in FrameType
      /\ Down[h].op = "close" /\ h \in Depth
  BY Tops DEF CloseSlot
<1>2. s \in Slots
  BY <1>1, FrameFacts DEF SlotOps
<1>x. PICK x : x = CloseForce(s, slot[s])
  OBVIOUS
<1>3. /\ x.slot = [slot[s] EXCEPT !.shutting = TRUE, !.ssl = FALSE]
      /\ x.calls = <<Frame("release", s, None)>> /\ ~x.unlinks /\ x.registers = None
  BY <1>x DEF CloseForce, CloseFor, Does
<1>4. /\ slot' = [slot EXCEPT ![s] = x.slot] /\ stack' = x.calls \o Tail(stack)
      /\ batch' = batch
      /\ pending' = (IF x.registers = None THEN pending
                     ELSE [pending EXCEPT ![x.registers].by = s])
      /\ client' = IF x.unlinks THEN [client EXCEPT ![slot[s].client].ep = None] ELSE client
  BY <1>1, <1>x DEF CloseSlot, Apply
<1>5. Frame("release", s, None) \in FrameType
  BY <1>2, FrameTypes DEF SlotOps
<1>6. stack' = <<Frame("release", s, None)>> \o Tail(stack)
  BY <1>3, <1>4
<1>7. KeepsBelow(h - 1) /\ Fresh(h - 1) = {h} /\ Down'[h] = Frame("release", s, None)
  BY <1>1, <1>5, <1>6, Pushes1
<1> QED BY <1>1, <1>2, <1>3, <1>4, <1>7


\* The slot goes back to the pool, or is closed.
LEMMA FinishFacts ==
  ASSUME SInv, Finish, NEW h, h = Height, NEW s, s = Down[h].on
  PROVE  /\ h = 2 /\ KeepsBelow(1) /\ Down[2].op = "finish" /\ s \in Slots
         /\ client' = client /\ pending' = pending /\ batch' = batch
         /\ \E x \in FinishEffects(s, slot[s], Down[2].arg) :
               /\ slot' = [slot EXCEPT ![s] = x.slot]
               /\ \/ Fresh(1) = {} /\ x.calls = <<>>
                  \/ /\ x.calls = <<Frame("release", s, None)>>
                     /\ Fresh(1) = {2} /\ Down'[2] = Frame("release", s, None)
<1>0. Typed
  BY DEF SInv
<1>1. /\ stack # <<>> /\ h = 2 /\ Top = Down[h] /\ Down[h].op = "finish" /\ s \in Slots
  <2>1. /\ stack # <<>> /\ h \in Nat \ {0} /\ h \in Depth /\ Top = Down[h]
        /\ Down[h] \in FrameType /\ Down[h].op = "finish"
    BY <1>0, Tops DEF Finish
  <2>2. h = 2
    BY <2>1 DEF SInv, Placed
  <2> QED BY <2>1, <2>2, FrameFacts DEF SlotOps
<1>2. SlotShape(slot[s]) /\ Wired(slot[s])
  BY <1>0, <1>1 DEF Typed
<1>3. /\ slot[s].client = None /\ slot[s].key = None /\ ~Dialling(slot[s])
      /\ ~slot[s].leased => ~slot[s].reserved
  <2>1. h \in Depth
    BY <1>0, Tops DEF Finish
  <2> QED BY <1>1, <2>1 DEF SInv, Expected, Carried
<1>4. PICK x \in FinishEffects(s, slot[s], Down[h].arg) :
         /\ slot' = [slot EXCEPT ![s] = x.slot]
         /\ stack' = x.calls \o Tail(stack)
         /\ pending' = IF x.registers = None THEN pending
                       ELSE [pending EXCEPT ![x.registers].by = s]
         /\ client' = IF x.unlinks THEN [client EXCEPT ![slot[s].client].ep = None]
                      ELSE client
  BY <1>1 DEF Finish, Apply, FinishEffects
<1>5. /\ x.calls = <<>> \/ x.calls = <<Frame("release", s, None)>>
      /\ x.registers = None /\ ~x.unlinks
  <2>r. PICK r, a, f : r = slot[s] /\ a = Down[h].arg /\ f = Frame("release", s, None)
    OBVIOUS
  <2>1. /\ SlotShape(r) /\ Wired(r) /\ r.client = None /\ r.key = None /\ ~Dialling(r)
        /\ ~r.leased => ~r.reserved
    BY <1>2, <1>3, <2>r
  <2>2. x \in FinishEffects(s, r, a)
    BY <1>4, <2>r
  <2>3. /\ x.calls = <<>> \/ x.calls = <<f>>
        /\ ~x.again /\ x.registers = None /\ ~x.unlinks
    BY <2>r, <2>1, <2>2, FinishEffect
  <2> QED BY <2>r, <2>3
<1>6. client' = client /\ pending' = pending /\ batch' = batch
  BY <1>4, <1>5 DEF Finish
<1>7. h - 1 = 1
  BY <1>1
<1>8. CASE x.calls = <<>>
  <2>1. stack' = Tail(stack)
    BY <1>0, <1>1, <1>4, <1>8 DEF Typed
  <2>2. KeepsBelow(1) /\ Fresh(1) = {}
    BY <1>0, <1>1, <1>7, <2>1, Pops
  <2> QED BY <1>1, <1>4, <1>6, <1>8, <2>2
<1>9. CASE x.calls = <<Frame("release", s, None)>>
  <2>1. stack' = <<Frame("release", s, None)>> \o Tail(stack)
    BY <1>4, <1>9
  <2>2. Frame("release", s, None) \in FrameType
    BY <1>1, FrameTypes DEF SlotOps
  <2>3. KeepsBelow(1) /\ Fresh(1) = {2} /\ Down'[2] = Frame("release", s, None)
    BY <1>0, <1>1, <1>7, <2>1, <2>2, Pushes1
  <2> QED BY <1>1, <1>4, <1>6, <1>9, <2>3
<1> QED BY <1>5, <1>8, <1>9

\* A connection that closes: its client is detached from its slot ...
LEMMA DetachFacts ==
  ASSUME SInv, Detach, NEW h, h = Height, NEW c, c = Down[h].on, NEW e, e = client[c].ep
  PROVE  /\ h = 2 /\ KeepsBelow(1) /\ Down[2].op = "detach" /\ c \in Clients
         /\ Down[1].op = "freeClient" /\ Down[1].on = c
         /\ Unlinks(c) /\ pending' = pending /\ batch' = batch
         /\ \/ e = None /\ slot' = slot /\ Fresh(1) = {}
            \/ /\ e \in Slots /\ slot[e].client = c /\ OnAbort
               /\ LET r == [slot[e] EXCEPT !.client = None, !.deferred = None]
                  IN  /\ ~IsConnecting(r)
                      /\ slot' = [slot EXCEPT ![e] = [r EXCEPT !.aborted = TRUE]]
               /\ Fresh(1) = {}
            \/ /\ e \in Slots /\ slot[e].client = c
               /\ LET r == [slot[e] EXCEPT !.client = None, !.deferred = None]
                  IN  slot' = [slot EXCEPT ![e] = [r EXCEPT !.shutting = TRUE, !.ssl = FALSE]]
               /\ Fresh(1) = {2} /\ Down'[2] = Frame("release", e, None)
<1>0. Typed
  BY DEF SInv
<1>1. /\ stack # <<>> /\ h = 2 /\ Top = Down[h] /\ Down[h].op = "detach" /\ c \in Clients
      /\ Down[1].op = "freeClient" /\ Down[1].on = c
  <2>1. /\ stack # <<>> /\ h \in Nat \ {0} /\ h \in Depth /\ Top = Down[h]
        /\ Down[h] \in FrameType /\ Down[h].op = "detach"
    BY <1>0, Tops DEF Detach
  <2>2. h = 2 /\ Down[1].op = "freeClient" /\ Down[1].on = c
    BY <2>1 DEF SInv, Placed
  <2> QED BY <2>1, <2>2, FrameFacts
<1>2. e \in Slots \cup {None} /\ (e # None => slot[e].client = c)
  <2>1. e \in Slots \cup {None}
    BY <1>0, <1>1 DEF Typed, ClientShape
  <2>2. e \in Slots => slot[e].client = c
    BY <1>1 DEF SInv, Linked
  <2> QED BY <2>1, <2>2
<1>r. PICK r : r = [slot[e] EXCEPT !.client = None, !.deferred = None]
  OBVIOUS
<1>x. PICK x : x = IF OnAbort /\ ~IsConnecting(r)
                   THEN Does([r EXCEPT !.aborted = TRUE], <<>>) ELSE CloseForce(e, r)
  OBVIOUS
<1>3. /\ pending' = pending /\ batch' = batch /\ client' = [client EXCEPT ![c].ep = None]
      /\ IF e = None THEN slot' = slot /\ stack' = Tail(stack)
         ELSE slot' = [slot EXCEPT ![e] = x.slot] /\ stack' = x.calls \o Tail(stack)
  BY <1>1, <1>r, <1>x DEF Detach
<1>4. Unlinks(c)
  BY <1>0, <1>1, <1>3, UnlinksOne
<1>5. h - 1 = 1
  BY <1>1
<1>6. CASE e = None
  <2>1. KeepsBelow(1) /\ Fresh(1) = {}
    BY <1>0, <1>1, <1>3, <1>5, <1>6, Pops
  <2> QED BY <1>1, <1>3, <1>4, <1>6, <2>1
<1>7. CASE e # None /\ OnAbort /\ ~IsConnecting(r)
  <2>1. x.slot = [r EXCEPT !.aborted = TRUE] /\ x.calls = <<>>
    BY <1>x, <1>7 DEF Does
  <2>2. stack' = Tail(stack)
    BY <1>0, <1>1, <1>3, <1>7, <2>1 DEF Typed
  <2>3. KeepsBelow(1) /\ Fresh(1) = {}
    BY <1>0, <1>1, <1>5, <2>2, Pops
  <2> QED BY <1>1, <1>2, <1>3, <1>4, <1>7, <1>r, <2>1, <2>3
<1>8. CASE e # None /\ ~(OnAbort /\ ~IsConnecting(r))
  <2>1. /\ x.slot = [r EXCEPT !.shutting = TRUE, !.ssl = FALSE]
        /\ x.calls = <<Frame("release", e, None)>>
    BY <1>x, <1>8 DEF CloseForce, CloseFor, Does
  <2>2. stack' = <<Frame("release", e, None)>> \o Tail(stack)
    BY <1>3, <1>8, <2>1
  <2>3. Frame("release", e, None) \in FrameType
    BY <1>2, <1>8, FrameTypes DEF SlotOps
  <2>4. KeepsBelow(1) /\ Fresh(1) = {2} /\ Down'[2] = Frame("release", e, None)
    BY <1>0, <1>1, <1>5, <2>2, <2>3, Pushes1
  <2> QED BY <1>1, <1>2, <1>3, <1>4, <1>8, <1>r, <2>1, <2>4
<1> QED BY <1>6, <1>7, <1>8

\* ... and its record freed.
LEMMA FreeClientFacts ==
  ASSUME Typed, FreeClient, NEW h, h = Height, NEW c, c = Down[h].on
  PROVE  /\ h \in Nat \ {0} /\ KeepsBelow(h - 1) /\ Down[h].op = "freeClient" /\ c \in Clients
         /\ slot' = slot /\ pending' = pending /\ batch' = batch /\ Fresh(h - 1) = {}
         /\ client'[c].co = "none" /\ client'[c].ep = None /\ ~client'[c].async
         /\ client'[c].gen = client[c].gen + 1
         /\ \A d \in Clients \ {c} : client'[d] = client[d]
<1>1. /\ stack # <<>> /\ h \in Nat \ {0} /\ Top = Down[h] /\ Down[h] \in FrameType
      /\ Down[h].op = "freeClient"
  BY Tops DEF FreeClient
<1>2. c \in Clients
  BY <1>1, FrameFacts
<1>3. /\ slot' = slot /\ pending' = pending /\ batch' = batch /\ stack' = Tail(stack)
      /\ client' = [client EXCEPT ![c] = [NoClient EXCEPT !.gen = client[c].gen + 1]]
  BY <1>1 DEF FreeClient
<1>4. /\ client'[c].co = "none" /\ client'[c].ep = None /\ ~client'[c].async
      /\ client'[c].gen = client[c].gen + 1
      /\ \A d \in Clients \ {c} : client'[d] = client[d]
  BY <1>2, <1>3 DEF Typed, NoClient
<1>5. KeepsBelow(h - 1) /\ Fresh(h - 1) = {}
  BY <1>1, <1>3, Pops
<1> QED BY <1>1, <1>2, <1>3, <1>4, <1>5


-------------------------------------------------------------------------------
(* What a coroutine does.                                                    *)

\* The coroutine that makes a call is on top, and no failure is.
LEMMA CallsFacts ==
  ASSUME SInv, NEW c \in Clients, Calls(c), NEW h, h = Height
  PROVE  /\ Typed /\ Runs(c) /\ stack # <<>> /\ h \in Nat \ {0} /\ h \in Depth
         /\ Down[h].op = "run" /\ Down[h].on = c /\ client[c].co = "runs" /\ client[c].ep = None
         /\ Retries \/ ~Failing(Down[h])
<1>1. Typed /\ Runs(c) /\ (Retries \/ Top.arg # "failed")
  BY DEF SInv, Calls
<1>2. /\ stack # <<>> /\ h \in Nat \ {0} /\ h \in Depth /\ Top = Down[h]
      /\ Down[h].op = "run" /\ Down[h].on = c /\ client[c].co = "runs" /\ client[c].ep = None
  BY <1>1, RunsFacts
<1> QED BY <1>1, <1>2 DEF Failing

LEMMA SendRefusedFacts ==
  ASSUME SInv, NEW c \in Clients, SendRefused(c), NEW h, h = Height
  PROVE  /\ KeepsBelow(h - 1) /\ Fresh(h - 1) = {h} /\ Down'[h] = Frame("run", c, "failed")
         /\ slot' = slot /\ client' = client /\ pending' = pending /\ batch' = batch
<1>1. Typed /\ stack # <<>>
  BY CallsFacts DEF SendRefused
<1>2. /\ slot' = slot /\ client' = client /\ pending' = pending /\ batch' = batch
      /\ stack' = <<Frame("run", c, "failed")>> \o Tail(stack)
  BY DEF SendRefused, Failed
<1>3. Frame("run", c, "failed") \in FrameType
  BY FrameTypes
<1> QED BY <1>1, <1>2, <1>3, Pushes1

LEMMA SendCoalescedFacts ==
  ASSUME SInv, NEW c \in Clients, NEW req, SendCoalesced(c, req), NEW h, h = Height
  PROVE  /\ KeepsBelow(h - 1) /\ Fresh(h - 1) = {}
         /\ req \in Coalesced /\ slot' = slot /\ batch' = batch
         /\ \A k \in Coalesced : pending'[k].by = pending[k].by
         /\ \A k \in Coalesced \ {req} : pending'[k].waiters = pending[k].waiters
         /\ pending'[req].waiters = Append(pending[req].waiters, Source(c, client[c].gen))
         /\ \A d \in Clients \ {c} : client'[d] = client[d]
         /\ client'[c].co = "waits" /\ client'[c].async /\ client'[c].req = req
         /\ client'[c].gen = client[c].gen /\ client'[c].ep = client[c].ep
<1>1. Typed /\ stack # <<>>
  BY CallsFacts DEF SendCoalesced
<1>2. req \in Coalesced
  BY DEF SendCoalesced, InFlight
<1>3. /\ slot' = slot /\ stack' = Tail(stack) /\ batch' = batch
      /\ pending' = [pending EXCEPT ![req].waiters = Append(@, Source(c, client[c].gen))]
      /\ client' = [client EXCEPT ![c].async = TRUE, ![c].co = "waits", ![c].req = req]
  BY DEF SendCoalesced
<1>4. KeepsBelow(h - 1) /\ Fresh(h - 1) = {}
  BY <1>1, <1>3, Pops
<1>5. /\ \A k \in Coalesced : pending'[k].by = pending[k].by
      /\ \A k \in Coalesced \ {req} : pending'[k].waiters = pending[k].waiters
      /\ pending'[req].waiters = Append(pending[req].waiters, Source(c, client[c].gen))
  <2>1. pending \in [Coalesced -> [by : Slots \cup {None}, waiters : Seq(Tokens)]]
    BY <1>1 DEF Typed
  <2> QED BY <1>2, <1>3, <2>1
<1>6. /\ \A d \in Clients \ {c} : client'[d] = client[d]
      /\ client'[c].co = "waits" /\ client'[c].async /\ client'[c].req = req
      /\ client'[c].gen = client[c].gen /\ client'[c].ep = client[c].ep
  BY <1>1, <1>3 DEF Typed, ClientShape, ClientFields
<1> QED BY <1>2, <1>3, <1>4, <1>5, <1>6

LEMMA UnpinsFacts ==
  ASSUME SInv, NEW c \in Clients, Unpins(c), NEW h, h = Height, NEW g, g = Down[h]
  PROVE  /\ KeepsBelow(h - 1) /\ Fresh(h - 1) = {h, h + 1} /\ Down'[h] = g
         /\ Down'[h + 1] = Frame("unpin", c, client[c].pin)
         /\ slot' = slot /\ pending' = pending /\ batch' = batch
         /\ \A d \in Clients : Stays(d) /\ client'[d].ep = client[d].ep
<1>1. Typed /\ stack # <<>> /\ g = Head(stack) /\ g \in FrameType
  <2>1. Typed /\ Runs(c)
    BY DEF SInv, Unpins
  <2> QED BY <2>1, RunsFacts DEF Top
<1>f. PICK f : f = Frame("unpin", c, client[c].pin)
  OBVIOUS
<1>2. /\ slot' = slot /\ pending' = pending /\ batch' = batch
      /\ client' = [client EXCEPT ![c].pin = NoPin] /\ stack' = <<f>> \o stack
  BY <1>f DEF Unpins
<1>3. f \in FrameType
  <2>1. client[c].pin \in Pins
    BY <1>1 DEF Typed, ClientShape
  <2> QED BY <1>f, <2>1, FrameTypes
<1>4. stack' = <<f, g>> \o Tail(stack)
  <2>1. stack \in Seq(FrameType)
    BY <1>1 DEF Typed
  <2>2. stack = <<g>> \o Tail(stack) /\ Tail(stack) \in Seq(FrameType)
    BY <1>1, <2>1
  <2>3. <<f>> \o (<<g>> \o Tail(stack)) = <<f, g>> \o Tail(stack)
    BY <1>1, <1>3, <2>2, JoinedCalls
  <2> QED BY <1>2, <2>2, <2>3
<1>5. /\ KeepsBelow(h - 1) /\ Fresh(h - 1) = {h, h + 1} /\ Down'[h] = g /\ Down'[h + 1] = f
  BY <1>1, <1>3, <1>4, Pushes2
<1>6. \A d \in Clients : Stays(d) /\ client'[d].ep = client[d].ep
  BY <1>1, <1>2 DEF Typed, ClientShape, ClientFields, Stays
<1> QED BY <1>2, <1>5, <1>6, <1>f


LEMMA ReturnsFacts ==
  ASSUME SInv, NEW c \in Clients, Returns(c), NEW h, h = Height
  PROVE  /\ KeepsBelow(h - 1) /\ Fresh(h - 1) = {}
         /\ slot' = slot /\ pending' = pending /\ batch' = batch
         /\ client'[c].co = "done" /\ client'[c].ep = client[c].ep
         /\ \A d \in Clients \ {c} : client'[d] = client[d]
<1>1. Typed /\ stack # <<>>
  <2>1. Typed /\ Runs(c)
    BY DEF SInv, Returns
  <2> QED BY <2>1, RunsFacts
<1>2. /\ slot' = slot /\ pending' = pending /\ batch' = batch /\ stack' = Tail(stack)
      /\ client' = [client EXCEPT ![c].co = "done"]
  BY DEF Returns
<1>3. KeepsBelow(h - 1) /\ Fresh(h - 1) = {}
  BY <1>1, <1>2, Pops
<1>4. /\ client'[c].co = "done" /\ client'[c].ep = client[c].ep
      /\ \A d \in Clients \ {c} : client'[d] = client[d]
  BY <1>1, <1>2 DEF Typed, ClientShape, ClientFields
<1> QED BY <1>2, <1>3, <1>4

LEMMA ReserveSlotFacts ==
  ASSUME SInv, NEW c \in Clients, NEW s \in Slots, ReserveSlot(c, s), NEW h, h = Height
  PROVE  /\ KeepsBelow(h - 1) /\ Fresh(h - 1) = {h} /\ Down'[h] = Down[h] /\ Pinning
         /\ slot' = [slot EXCEPT ![s] = [Lease(@) EXCEPT !.reserved = TRUE]]
         /\ Takes(c, s) /\ ~slot[s].leased
         /\ pending' = pending /\ batch' = batch
         /\ \A d \in Clients : Stays(d) /\ client'[d].ep = client[d].ep
<1>1. Typed /\ stack # <<>>
  BY CallsFacts DEF ReserveSlot
<1>2. /\ pending' = pending /\ batch' = batch /\ stack' = stack /\ Pinning
      /\ slot' = [slot EXCEPT ![s] = [Lease(@) EXCEPT !.reserved = TRUE]]
      /\ Calls(c) /\ s \in FreeSlots /\ ~slot[s].leased
  BY DEF ReserveSlot, FreeSlots
<1>3. \E v : client' = [client EXCEPT ![c].pin = v]
  BY DEF ReserveSlot
<1>4. \A d \in Clients : Stays(d) /\ client'[d].ep = client[d].ep
  BY <1>1, <1>3 DEF Typed, ClientShape, ClientFields, Stays
<1>5. stack' = <<Down[h]>> \o Tail(stack) /\ Down[h] \in FrameType
  <2>1. stack \in Seq(FrameType) /\ Head(stack) = Down[h] /\ Down[h] \in FrameType
    BY <1>1, TopFacts DEF Typed, Top
  <2>2. stack = <<Head(stack)>> \o Tail(stack)
    BY <1>1, <2>1
  <2> QED BY <1>2, <2>1, <2>2
<1>6. KeepsBelow(h - 1) /\ Fresh(h - 1) = {h} /\ Down'[h] = Down[h]
  BY <1>1, <1>5, Pushes1
<1> QED BY <1>2, <1>4, <1>6 DEF Takes

\* Two calls pushed in the place of the frame on top, one after the other.
LEMMA JoinedFrames ==
  ASSUME Typed, stack # <<>>, NEW f \in FrameType, NEW g \in FrameType
  PROVE  <<f>> \o (<<g>> \o Tail(stack)) = <<f, g>> \o Tail(stack)
<1>1. PICK S : S = FrameType
  OBVIOUS
<1>2. /\ f \in S /\ g \in S /\ Tail(stack) \in Seq(S)
  BY <1>1 DEF Typed
<1>3. PICK t \in Seq(S) : t = Tail(stack)
  BY <1>2
<1>4. PICK u, v, w : w = <<g>> \o t /\ u = <<f>> \o w /\ v = <<f, g>> \o t
  OBVIOUS
<1>w. /\ w \in Seq(S) /\ Len(w) = 1 + Len(t) /\ w[1] = g
      /\ \A i \in 2 .. Len(w) : w[i] = t[i - 1]
  BY <1>2, <1>3, <1>4
<1>u. /\ u \in Seq(S) /\ Len(u) = 1 + Len(w) /\ u[1] = f
      /\ \A i \in 2 .. Len(u) : u[i] = w[i - 1]
  BY <1>2, <1>4, <1>w
<1>v. /\ v \in Seq(S) /\ Len(v) = 2 + Len(t) /\ v[1] = f /\ v[2] = g
      /\ \A i \in 3 .. Len(v) : v[i] = t[i - 2]
  BY <1>2, <1>3, <1>4
<1>5. u \in Seq(S) /\ v \in Seq(S) /\ Len(u) = Len(v)
  BY <1>3, <1>w, <1>u, <1>v
<1>6. \A i \in 1 .. Len(u) : u[i] = v[i]
  <2>1. Len(t) \in Nat
    BY <1>3
  <2>2. u[1] = v[1] /\ u[2] = v[2]
    BY <2>1, <1>w, <1>u, <1>v
  <2>3. ASSUME NEW i \in 3 .. Len(u) PROVE u[i] = v[i]
    <3>1. i - 1 \in 2 .. Len(w) /\ i \in 2 .. Len(u) /\ i \in 3 .. Len(v) /\ i \in Int
      BY <2>1, <1>w, <1>u, <1>v
    <3>2. u[i] = w[i - 1] /\ v[i] = t[i - 2]
      BY <3>1, <1>u, <1>v
    <3>3. w[i - 1] = t[(i - 1) - 1] /\ (i - 1) - 1 = i - 2
      BY <3>1, <1>w
    <3> QED BY <3>2, <3>3
  <2>4. \A i \in 1 .. Len(u) : i = 1 \/ i = 2 \/ i \in 3 .. Len(u)
    BY <2>1, <1>u, <1>w
  <2> QED BY <2>2, <2>3, <2>4
<1>7. u = v
  BY <1>5, <1>6, SeqEqual
<1> QED BY <1>3, <1>4, <1>7

\* A connection CloseForce shut down.
Shut(r) == [r EXCEPT !.shutting = TRUE, !.ssl = FALSE]
LEMMA SendUnserializableFacts ==
  ASSUME SInv, NEW c \in Clients, NEW s \in Slots, SendUnserializable(c, s), NEW h, h = Height,
         NEW r, r = IF Holds(c, s) THEN slot[s] ELSE Lease(slot[s])
  PROVE  /\ KeepsBelow(h - 1) /\ Fresh(h - 1) = {h, h + 1}
         /\ Down'[h] = Frame("run", c, "failed") /\ Down'[h + 1] = Frame("release", s, None)
         /\ Takes(c, s)
         /\ slot'[s] = Shut(r) /\ \A t \in Slots \ {s} : slot'[t] = slot[t]
         /\ client' = client /\ pending' = pending /\ batch' = batch
<1>1. Typed /\ stack # <<>>
  BY CallsFacts DEF SendUnserializable
<1>2. Takes(c, s)
  BY DEF SendUnserializable, Takes, Holds
<1>x. PICK x : x = CloseForce(s, r)
  OBVIOUS
<1>3. /\ slot' = [slot EXCEPT ![s] = x.slot] /\ stack' = x.calls \o Failed(c)
      /\ client' = client /\ pending' = pending /\ batch' = batch
  BY <1>x DEF SendUnserializable, Holds
<1>f. PICK f, g : f = Frame("release", s, None) /\ g = Frame("run", c, "failed")
  OBVIOUS
<1>4. /\ x.slot = Shut(r) /\ x.calls = <<f>>
  BY <1>x, <1>f DEF CloseForce, CloseFor, Does, Shut
<1>5. f \in FrameType /\ g \in FrameType
  BY <1>f, FrameTypes DEF SlotOps
<1>6. stack' = <<f, g>> \o Tail(stack)
  <2>1. stack' = <<f>> \o (<<g>> \o Tail(stack))
    BY <1>3, <1>4, <1>f DEF Failed
  <2>3. <<f>> \o (<<g>> \o Tail(stack)) = <<f, g>> \o Tail(stack)
    BY <1>1, <1>5, JoinedFrames
  <2> QED BY <2>1, <2>3
<1>7. /\ KeepsBelow(h - 1) /\ Fresh(h - 1) = {h, h + 1} /\ Down'[h] = g /\ Down'[h + 1] = f
  BY <1>1, <1>5, <1>6, Pushes2
<1>8. slot'[s] = Shut(r) /\ \A t \in Slots \ {s} : slot'[t] = slot[t]
  BY <1>1, <1>3, <1>4 DEF Typed
<1>9. Down'[h] = Frame("run", c, "failed") /\ Down'[h + 1] = Frame("release", s, None)
  BY <1>7, <1>f
<1>10. client' = client /\ pending' = pending /\ batch' = batch
  BY <1>3
<1>11. KeepsBelow(h - 1) /\ Fresh(h - 1) = {h, h + 1}
  BY <1>7
<1> QED BY <1>2, <1>8, <1>9, <1>10, <1>11


\* SendPayload on a slot: the request goes out on it, or the slot is released at once
\* and the call fails.
\* What a slot owes when a request is sent on it: the request, or the same as
\* before while the request waits for onConnect.
Bears(r, q, req) ==
    IF OnConnect /\ ~r.alive THEN q.owes = r.owes /\ q.deferred = req
    ELSE /\ q.owes = req /\ q.deferred = r.deferred
         /\ OnConnect => q.alive /\ ~Dialling(q)

LEMMA DispatchAlive ==
  ASSUME NEW r, SlotShape(r), ~r.onconn, ~r.awaiting, r.alive, NEW x \in Dispatch(r)
  PROVE  Rests(r, x.slot)
<1>q. PICK q : q = EnterState(r, "SEND")
  OBVIOUS
<1>1. SlotShape(q) /\ Rests(r, q)
  BY <1>q, EnterStateRests
<1>2. x.slot = [q EXCEPT !.timer = "request"]
  BY <1>q DEF Dispatch
<1>3. ~Dialling(q)
  BY <1>1 DEF Rests
<1>4. Rests(q, x.slot)
  BY <1>1, <1>2, <1>3 DEF SlotShape, SlotFields, Rests, Dialling, IsConnecting
<1> QED BY <1>1, <1>4 DEF Rests

LEMMA SendFacts ==
  ASSUME SInv, NEW c \in Clients, NEW req \in Reqs, NEW s \in Slots, Send(c, req, s),
         NEW h, h = Height, NEW key, key = (IF Holds(c, s) THEN None ELSE KeyOf(req)),
         NEW r, r = (IF Holds(c, s) THEN slot[s] ELSE Lease(slot[s]))
  PROVE  /\ Calls(c) /\ Takes(c, s) /\ KeepsBelow(h - 1) /\ batch' = batch
         /\ key \in Coalesced \cup {None}
         /\ key # None => pending[key].by = None /\ ~Holds(c, s) /\ key = req
         /\ \A d \in Clients \ {c} : client'[d] = client[d]
         /\ client'[c].async /\ client'[c].req = req /\ client'[c].gen = client[c].gen
         /\ \A k \in Coalesced :
               /\ pending'[k].waiters = pending[k].waiters
               /\ pending'[k].by =
                     IF key # None /\ k = key /\ ~(OnConnect /\ ~r.alive) THEN s
                     ELSE pending[k].by
         /\ \E q : /\ slot' = [slot EXCEPT ![s] = q]
                   /\ Kept(r, q) /\ q.aborted = r.aborted /\ q.key = key
                   /\ OnConnect \/ (q.owes = req /\ q.deferred = r.deferred)
                   /\ Bears(r, q, req)
                   /\ \/ /\ q.client = c /\ client'[c].co = "waits" /\ client'[c].ep = s
                         /\ Fresh(h - 1) = {}
                      \/ /\ q.client = None
                         /\ client'[c].co = client[c].co /\ client'[c].ep = client[c].ep
                         /\ Fresh(h - 1) = {h, h + 1} /\ Down'[h] = Frame("run", c, "failed")
                         /\ \E why \in {None, "refused"} :
                               Down'[h + 1] = Frame("release", s, why)
<1>1. /\ Calls(c) /\ (Holds(c, s) \/ (s \in FreeSlots /\ ~InFlight(req)))
      /\ SendOn(c, req, s, r, key) /\ batch' = batch
  BY DEF Send, Holds
<1>2. Typed /\ Takes(c, s) /\ None \notin Slots /\ None \notin Clients /\ stack # <<>>
  <2>1. Typed /\ stack # <<>>
    BY <1>1, CallsFacts
  <2> QED BY <1>1, <2>1, SetsAssumption DEF Takes
<1>3. /\ SlotShape(r) /\ Wired(r) /\ r.client = None /\ r.key = None
      /\ r.leased /\ ~r.onconn /\ ~r.awaiting
  BY <1>2, TakesRecord
<1>4. /\ key \in Coalesced \cup {None}
      /\ (key # None => ~Holds(c, s) /\ pending[key].by = None /\ key = req)
  BY <1>1 DEF KeyOf, InFlight
<1>w. PICK wait : wait = (OnConnect /\ ~r.alive)
  OBVIOUS
<1>l. PICK l : l = [r EXCEPT !.client = c]
  OBVIOUS
<1>q. PICK q : q = IF wait THEN [l EXCEPT !.deferred = req, !.key = key]
                   ELSE [l EXCEPT !.owes = req, !.key = IF key # None THEN key ELSE @]
  OBVIOUS
<1>g. PICK reg : reg = IF wait \/ key = None THEN pending ELSE [pending EXCEPT ![key].by = s]
  OBVIOUS
<1>t. PICK to : to = [client[c] EXCEPT !.async = TRUE, !.req = req]
  OBVIOUS
<1>x. PICK x \in Dispatch(q) :
          IF x.status = "PENDING"
          THEN /\ slot' = [slot EXCEPT ![s] = x.slot]
               /\ client' = [client EXCEPT ![c] = [to EXCEPT !.ep = s, !.co = "waits"]]
               /\ stack' = Tail(stack)
               /\ pending' = reg
          ELSE /\ slot' = [slot EXCEPT ![s] = CloseFor(s, [x.slot EXCEPT !.client = None],
                                                      Blame(x.status)).slot]
               /\ client' = [client EXCEPT ![c] = to]
               /\ stack' = CloseFor(s, [x.slot EXCEPT !.client = None],
                                    Blame(x.status)).calls \o Failed(c)
               /\ pending' = reg
  BY <1>1, <1>w, <1>l, <1>q, <1>g, <1>t DEF SendOn
<1>6. /\ SlotShape(l) /\ Wired(l) /\ l.client = c /\ l.key = None /\ Kept(r, l)
      /\ ~l.onconn /\ ~l.awaiting /\ l.aborted = r.aborted
      /\ l.deferred = r.deferred /\ l.owes = r.owes /\ l.alive = r.alive
  BY <1>3, <1>l DEF SlotShape, SlotFields, Wired, Kept
<1>7. /\ SlotShape(q) /\ Wired(q) /\ q.client = c /\ q.key = key /\ Kept(r, q)
      /\ ~q.onconn /\ ~q.awaiting /\ q.aborted = r.aborted
      /\ OnConnect \/ (q.owes = req /\ q.deferred = r.deferred)
      /\ q.alive = r.alive
      /\ IF wait THEN q.owes = r.owes /\ q.deferred = req
         ELSE q.owes = req /\ q.deferred = r.deferred
  <2>1. CASE wait
    <3>1. q = [l EXCEPT !.deferred = req, !.key = key] /\ OnConnect
      BY <1>q, <1>w, <2>1
    <3>2. q.alive = r.alive /\ q.owes = r.owes /\ q.deferred = req
      BY <1>6, <3>1 DEF SlotShape, SlotFields
    <3>3. /\ SlotShape(q) /\ Wired(q) /\ q.client = c /\ q.key = key /\ Kept(r, q)
          /\ ~q.onconn /\ ~q.awaiting /\ q.aborted = r.aborted
      BY <1>4, <1>6, <3>1 DEF SlotShape, SlotFields, Wired, Kept
    <3> QED BY <2>1, <3>1, <3>2, <3>3
  <2>2. CASE ~wait
    <3>1. q = [l EXCEPT !.owes = req, !.key = key]
      BY <1>q, <1>6, <2>2 DEF SlotShape, SlotFields
    <3>2. q.alive = r.alive /\ q.owes = req /\ q.deferred = r.deferred
      BY <1>6, <3>1 DEF SlotShape, SlotFields
    <3>3. /\ SlotShape(q) /\ Wired(q) /\ q.client = c /\ q.key = key /\ Kept(r, q)
          /\ ~q.onconn /\ ~q.awaiting /\ q.aborted = r.aborted
      BY <1>4, <1>6, <3>1 DEF SlotShape, SlotFields, Wired, Kept
    <3> QED BY <2>2, <3>2, <3>3
  <2>3. wait \in BOOLEAN
    BY <1>w
  <2> QED BY <2>1, <2>2, <2>3
<1>8. /\ SlotShape(x.slot) /\ Wired(x.slot) /\ Kept(r, x.slot) /\ x.slot.aborted = r.aborted
      /\ x.slot.client = c /\ x.slot.key = key
      /\ OnConnect \/ (x.slot.owes = req /\ x.slot.deferred = r.deferred)
      /\ Bears(r, x.slot, req)
  <2>1. SlotShape(x.slot) /\ Wired(x.slot) /\ Same(q, x.slot) /\ Kept(q, x.slot)
    BY <1>2, <1>7, DispatchMoves
  <2>2. OnConnect /\ r.alive => x.slot.alive /\ ~Dialling(x.slot)
    <3>1. r.alive => Rests(q, x.slot)
      BY <1>7, DispatchAlive
    <3> QED BY <1>7, <3>1 DEF Rests
  <2>3. Bears(r, x.slot, req)
    BY <1>7, <1>w, <2>1, <2>2 DEF Bears, Same
  <2> QED BY <1>7, <2>1, <2>3 DEF Same, Kept
<1>9. \A k \in Coalesced :
         /\ pending'[k].waiters = pending[k].waiters
         /\ pending'[k].by =
               IF key # None /\ k = key /\ ~(OnConnect /\ ~r.alive) THEN s ELSE pending[k].by
  <2>1. pending' = reg /\ pending \in [Coalesced -> [by : Slots \cup {None}, waiters : Seq(Tokens)]]
    BY <1>2, <1>x DEF Typed
  <2>2. CASE wait \/ key = None
    <3>1. pending' = pending
      BY <1>g, <2>1, <2>2
    <3>2. key = None \/ (OnConnect /\ ~r.alive)
      BY <1>w, <2>2
    <3> QED BY <3>1, <3>2
  <2>3. CASE ~(wait \/ key = None)
    <3>1. pending' = [pending EXCEPT ![key].by = s] /\ key \in Coalesced
      BY <1>4, <1>g, <2>1, <2>3
    <3>2. /\ pending'[key].by = s /\ pending'[key].waiters = pending[key].waiters
          /\ \A k \in Coalesced \ {key} : pending'[k] = pending[k]
      BY <2>1, <3>1
    <3>3. \A k \in Coalesced : pending'[k].waiters = pending[k].waiters
      BY <3>2
    <3>4. key # None /\ ~(OnConnect /\ ~r.alive)
      BY <1>w, <2>3
    <3>5. \A k \in Coalesced : pending'[k].by = IF k = key THEN s ELSE pending[k].by
      BY <3>2
    <3> QED BY <3>3, <3>4, <3>5
  <2> QED BY <2>2, <2>3
<1>10. /\ DOMAIN client = Clients
       /\ to.gen = client[c].gen /\ to.async /\ to.req = req
       /\ to.ep = client[c].ep /\ to.co = client[c].co /\ DOMAIN to = ClientFields
  <2>1. ClientShape(client[c]) /\ DOMAIN client = Clients
    BY <1>2 DEF Typed
  <2> QED BY <1>t, <2>1 DEF ClientShape, ClientFields
<1>12. CASE x.status = "PENDING"
  <2>u. PICK u : u = [to EXCEPT !.ep = s, !.co = "waits"]
    OBVIOUS
  <2>1. /\ slot' = [slot EXCEPT ![s] = x.slot] /\ stack' = Tail(stack)
        /\ client' = [client EXCEPT ![c] = u]
    BY <1>x, <1>12, <2>u
  <2>2. u.gen = client[c].gen /\ u.async /\ u.req = req /\ u.ep = s /\ u.co = "waits"
    BY <1>10, <2>u DEF ClientFields
  <2>3. client'[c] = u /\ \A d \in Clients \ {c} : client'[d] = client[d]
    BY <1>10, <2>1
  <2>4. KeepsBelow(h - 1) /\ Fresh(h - 1) = {}
    BY <1>2, <2>1, Pops
  <2> QED BY <1>1, <1>2, <1>4, <1>8, <1>9, <2>1, <2>2, <2>3, <2>4
<1>13. CASE x.status # "PENDING"
  <2>v. PICK v : v = [x.slot EXCEPT !.client = None]
    OBVIOUS
  <2>w. PICK why : why = Blame(x.status)
    OBVIOUS
  <2>e. PICK e : e = CloseFor(s, v, why)
    OBVIOUS
  <2>1. /\ slot' = [slot EXCEPT ![s] = e.slot] /\ stack' = e.calls \o Failed(c)
        /\ client' = [client EXCEPT ![c] = to] /\ why \in {None, "refused"}
    BY <1>x, <1>13, <2>v, <2>w, <2>e DEF Blame
  <2>f. PICK f, g : f = Frame("release", s, why) /\ g = Frame("run", c, "failed")
    OBVIOUS
  <2>2. e.slot = [v EXCEPT !.shutting = TRUE, !.ssl = FALSE] /\ e.calls = <<f>>
    BY <2>e, <2>f DEF CloseFor, Does
  <2>3. /\ Kept(r, e.slot) /\ e.slot.aborted = r.aborted /\ e.slot.key = key
        /\ e.slot.client = None
        /\ OnConnect \/ (e.slot.owes = req /\ e.slot.deferred = r.deferred)
        /\ Bears(r, e.slot, req)
    <3>1. /\ Kept(r, v) /\ v.aborted = r.aborted /\ v.key = key /\ v.client = None
          /\ DOMAIN v = SlotFields
          /\ OnConnect \/ (v.owes = req /\ v.deferred = r.deferred)
      BY <1>8, <2>v DEF SlotShape, SlotFields, Kept
    <3>2. /\ v.owes = x.slot.owes /\ v.deferred = x.slot.deferred /\ v.alive = x.slot.alive
          /\ Dialling(v) = Dialling(x.slot)
      BY <1>8, <2>v DEF SlotShape, SlotFields, Dialling, IsConnecting
    <3>3. /\ e.slot.owes = v.owes /\ e.slot.deferred = v.deferred /\ e.slot.alive = v.alive
          /\ Dialling(e.slot) = Dialling(v)
      BY <2>2, <3>1 DEF SlotFields, Dialling, IsConnecting
    <3>4. Bears(r, e.slot, req)
      BY <1>8, <3>2, <3>3 DEF Bears
    <3> QED BY <2>2, <3>1, <3>4 DEF SlotFields, Kept
  <2>4. f \in FrameType /\ g \in FrameType
    BY <2>1, <2>f, FrameTypes DEF SlotOps
  <2>5. stack' = <<f, g>> \o Tail(stack)
    <3>1. stack' = <<f>> \o (<<g>> \o Tail(stack)) /\ Tail(stack) \in Seq(FrameType)
      BY <1>2, <2>1, <2>2, <2>f DEF Failed, Typed
    <3>2. <<f>> \o (<<g>> \o Tail(stack)) = <<f, g>> \o Tail(stack)
      BY <1>2, <2>4, JoinedFrames
    <3> QED BY <3>1, <3>2
  <2>6. KeepsBelow(h - 1) /\ Fresh(h - 1) = {h, h + 1} /\ Down'[h] = g /\ Down'[h + 1] = f
    BY <1>2, <2>4, <2>5, Pushes2
  <2>7. client'[c] = to /\ \A d \in Clients \ {c} : client'[d] = client[d]
    BY <1>10, <2>1
  <2> QED BY <1>1, <1>2, <1>4, <1>9, <1>10, <2>1, <2>3, <2>6, <2>7, <2>f
<1> QED BY <1>12, <1>13


-------------------------------------------------------------------------------
(* What is left to show of a step for the invariants here.                   *)

\* A suspended client that a step leaves alone.
Still(c) ==
    /\ client[c].co = "waits" /\ client'[c].gen = client[c].gen
    /\ client'[c].ep = client[c].ep /\ client'[c].async = client[c].async
Undisturbed(c) ==
    /\ Still(c)
    /\ \A k \in Coalesced : ~Erasing(k) /\ Parked(k, c) => ~Erasing(k)' /\ Parked(k, c)'
    /\ Height > 0 => ~Woken(Height, c)

LEMMA ServedStep ==
  ASSUME Attended, Roused, setup' = setup, NEW b, KeepsBelow(b),
         Height > 0 /\ Down[Height].op = "freeClient" =>
            client'[Down[Height].on].co # "waits",
         \A c \in Clients : client'[c].co = "waits" =>
            /\ Undisturbed(c) \/ AttendedAt(c)'
            /\ \/ client'[c].async \/ Going(c)'
               \/ client[c].co = "waits" /\ client'[c].async = client[c].async
  PROVE  Attended' /\ Roused'
<1>0. Coalesced' = Coalesced
  BY SetupKept
<1>b. /\ Height \in Nat /\ \A p \in Depth : p # Height => p \in Depth' /\ Down'[p] = Down[p]
      /\ \A p \in Depth : Height > 0
  BY DEF KeepsBelow, Depth
<1>1. ASSUME NEW c \in Clients, client'[c].co = "waits", Going(c)
      PROVE  Going(c)'
  <2>1. PICK p \in Depth : Down[p].op = "freeClient" /\ Down[p].on = c
    BY <1>1 DEF Going
  <2>2. p # Height
    BY <1>1, <1>b, <2>1
  <2>3. p \in Depth' /\ Down'[p] = Down[p]
    BY <1>b, <2>2
  <2> QED BY <2>1, <2>3 DEF Going
<1>2. ASSUME NEW c \in Clients, client'[c].co = "waits"
      PROVE  AttendedAt(c)'
  <2>1. Undisturbed(c) \/ AttendedAt(c)'
    BY <1>2
  <2>2. CASE Undisturbed(c)
    <3>1. /\ client[c].co = "waits" /\ client'[c].gen = client[c].gen
          /\ client'[c].ep = client[c].ep
          /\ \A k \in Coalesced : ~Erasing(k) /\ Parked(k, c) => ~Erasing(k)' /\ Parked(k, c)'
          /\ (Height > 0 => ~Woken(Height, c))
      BY <2>2 DEF Undisturbed, Still
    <3>2. AttendedAt(c)
      BY <3>1 DEF Attended
    <3>3. CASE client[c].ep # None
      BY <3>1, <3>3 DEF AttendedAt
    <3>4. CASE \E p \in Depth : Woken(p, c)
      <4>1. PICK p \in Depth : Woken(p, c)
        BY <3>4
      <4>2. p \in Depth' /\ Down'[p] = Down[p]
        BY <1>b, <3>1, <4>1
      <4>3. Woken(p, c)'
        BY <3>1, <4>1, <4>2 DEF Woken
      <4> QED BY <4>2, <4>3 DEF AttendedAt
    <3>5. CASE \E k \in Coalesced : ~Erasing(k) /\ Parked(k, c)
      <4>1. \E k \in Coalesced : ~Erasing(k)' /\ Parked(k, c)'
        BY <3>1, <3>5
      <4> QED BY <1>0, <4>1 DEF AttendedAt
    <3>6. CASE Going(c)
      <4>1. Going(c)'
        BY <1>1, <1>2, <3>6
      <4> QED BY <4>1 DEF AttendedAt
    <3> QED BY <3>2, <3>3, <3>4, <3>5, <3>6 DEF AttendedAt
  <2> QED BY <2>1, <2>2
<1>3. ASSUME NEW c \in Clients, client'[c].co = "waits", ~client'[c].async
      PROVE  Going(c)'
  <2>1. CASE client[c].co = "waits" /\ client'[c].async = client[c].async
    <3>1. Going(c)
      BY <1>3, <2>1 DEF Roused
    <3> QED BY <1>1, <1>3, <3>1
  <2> QED BY <1>3, <2>1
<1> QED BY <1>2, <1>3 DEF Attended, Roused

\* A frame that resumes a client attends to it.
LEMMA FreshWakes ==
  ASSUME NEW b, KeepsBelow(b), NEW q \in Fresh(b), NEW c, Down'[q].op = "resume", Down'[q].on = c
  PROVE  AttendedAt(c)'
<1>1. q \in Depth'
  BY DEF KeepsBelow, Fresh, Depth
<1> QED BY <1>1 DEF AttendedAt, Woken, Owes

\* A step that serves no waiter: nothing on top wakes anybody but the coroutine
\* that runs.
LEMMA ServedQuietly ==
  ASSUME SInv, Attended, Roused, setup' = setup, NEW b, KeepsBelow(b),
         Height > 0 => Down[Height].op \notin {"resume", "waiters", "freeClient", "erase"},
         \A p \in Fresh(b) : Down'[p].op # "erase",
         \A k \in Coalesced : pending'[k].waiters = pending[k].waiters,
         \A c \in Clients : client'[c].co = "waits" =>
            \/ Still(c)
            \/ /\ AttendedAt(c)'
               /\ \/ client'[c].async
                  \/ client[c].co = "waits" /\ client'[c].async = client[c].async
  PROVE  Attended' /\ Roused'
<1>1. \A k : Erasing(k)' <=> Erasing(k)
  BY ErasingSame
<1>2. ASSUME NEW c \in Clients, client'[c].co = "waits", Still(c)
      PROVE  Undisturbed(c)
  <2>1. /\ client[c].co = "waits" /\ client'[c].gen = client[c].gen
    BY <1>2 DEF Still
  <2>2. \A k \in Coalesced : ~Erasing(k) /\ Parked(k, c) => ~Erasing(k)' /\ Parked(k, c)'
    BY <1>1, <2>1 DEF Parked
  <2>3. ASSUME Height > 0, Woken(Height, c)
        PROVE  FALSE
    <3>1. Height \in Depth
      BY <2>3 DEF KeepsBelow, Depth
    <3>2. Down[Height].op = "run"
      BY <2>3 DEF Woken, Owes
    <3> QED BY <2>1, <2>3, <3>1, <3>2 DEF SInv, WokenOnce
  <2> QED BY <1>2, <2>2, <2>3 DEF Undisturbed
<1>3. \A c \in Clients : client'[c].co = "waits" =>
         /\ Undisturbed(c) \/ AttendedAt(c)'
         /\ client'[c].async \/ (client[c].co = "waits" /\ client'[c].async = client[c].async)
  BY <1>2 DEF Still
<1> QED BY <1>3, ServedStep

\* The same when no more than one client, resumed by a new frame, is unlinked.
LEMMA ServedUnlinked ==
  ASSUME SInv, Attended, Roused, setup' = setup, NEW b, KeepsBelow(b),
         Height > 0 => Down[Height].op \notin {"resume", "waiters", "freeClient", "erase"},
         \A p \in Fresh(b) : Down'[p].op # "erase",
         \A k \in Coalesced : pending'[k].waiters = pending[k].waiters,
         NEW d, Unlinks(d), d \in Clients => AttendedAt(d)'
  PROVE  Attended' /\ Roused'
<1>1. ASSUME NEW c \in Clients, client'[c].co = "waits"
      PROVE  \/ Still(c)
             \/ /\ AttendedAt(c)'
                /\ \/ client'[c].async
                   \/ client[c].co = "waits" /\ client'[c].async = client[c].async
  <2>1. Stays(c) /\ (c # d => client'[c].ep = client[c].ep)
    BY DEF Unlinks
  <2>2. client[c].co = "waits" /\ client'[c].gen = client[c].gen
        /\ client'[c].async = client[c].async
    BY <1>1, <2>1 DEF Stays
  <2> QED BY <2>1, <2>2 DEF Still
<1> QED BY <1>1, ServedQuietly

LEMMA FailStep ==
  ASSUME FailAbove, NEW b, KeepsBelow(b),
         Height > 0 /\ Failing(Down[Height]) => \A p \in Fresh(b) : Failing(Down'[p]),
         \A p, q \in Fresh(b) : p < q /\ Down'[p].op = "erase" => Failing(Down'[q])
  PROVE  FailAbove'
<1> SUFFICES ASSUME NEW p \in Depth', NEW q \in Depth', p < q, Down'[p].op = "erase"
             PROVE  Failing(Down'[q])
  BY DEF FailAbove, Failing
<1>0. b \in Nat /\ Height \in Nat /\ Height' \in Nat /\ p \in Int /\ q \in Int
  BY DEF KeepsBelow, Depth
<1>1. CASE q \in Fresh(b) /\ p \in Fresh(b)
  BY <1>1
<1>2. CASE q \in Fresh(b) /\ p \in 1 .. b
  <2>1. p \in Depth /\ Height \in Depth /\ p < Height /\ Height > 0 /\ Down'[p] = Down[p]
    BY <1>0, <1>2 DEF KeepsBelow, Depth
  <2>2. Failing(Down[Height])
    BY <2>1 DEF FailAbove
  <2> QED BY <1>2, <2>1, <2>2
<1>3. CASE q \in 1 .. b
  <2>1. p \in 1 .. b
    BY <1>0, <1>3 DEF Depth
  <2>2. p \in Depth /\ q \in Depth /\ Down'[p] = Down[p] /\ Down'[q] = Down[q]
    BY <1>0, <1>3, <2>1 DEF KeepsBelow, Depth
  <2>3. Failing(Down[q])
    BY <2>2 DEF FailAbove
  <2> QED BY <2>2, <2>3
<1>4. /\ q \in Fresh(b) \/ q \in 1 .. b
      /\ p \in Fresh(b) \/ p \in 1 .. b
  BY <1>0 DEF Fresh, Depth, KeepsBelow
<1> QED BY <1>1, <1>2, <1>3, <1>4


-------------------------------------------------------------------------------
(* The handlers on the stack. *)

\* A step that pushes no erase, when the frame on top is no failure.
LEMMA FailNothing ==
  ASSUME FailAbove, NEW b, KeepsBelow(b),
         Height > 0 => Down[Height].op \notin {"run", "resume", "waiters", "unpin", "release",
                                               "notify", "free", "erase"},
         \A p \in Fresh(b) : Down'[p].op # "erase"
  PROVE  FailAbove'
<1>1. Height > 0 => ~Failing(Down[Height])
  BY DEF Failing
<1> QED BY <1>1, FailStep

LEMMA ResumeServed ==
  ASSUME SInv, ServedInv, setup' = setup, Resume
  PROVE  ServedInv'
<1>h. PICK h, c, a : h = Height /\ c = Down[h].on /\ a = Down[h].arg
  OBVIOUS
<1>0. Typed /\ Attended /\ Roused /\ FailAbove
  BY DEF SInv, ServedInv
<1>1. /\ h \in Nat \ {0} /\ KeepsBelow(h - 1) /\ Down[h].op = "resume"
      /\ c \in Clients \cup {None} /\ a \in Reqs \cup {None} /\ pending' = pending
      /\ \/ /\ c \in Clients /\ client[c].async /\ client'[c].co = "runs"
            /\ client'[c].ep = client[c].ep
            /\ \A d \in Clients \ {c} : client'[d] = client[d]
            /\ Fresh(h - 1) = {h}
            /\ Down'[h] = Frame("run", c, IF a = None THEN "failed" ELSE "ok")
         \/ ~(c \in Clients /\ client[c].async) /\ client' = client /\ Fresh(h - 1) = {}
  BY <1>0, <1>h, ResumeFacts
<1>2. /\ \A p \in Fresh(h - 1) : /\ Down'[p].op = "run"
                                 /\ a = None => Down'[p].arg = "failed"
  BY <1>1 DEF Frame
<1>3. FailAbove'
  <2>1. Failing(Down[h]) => a = None
    BY <1>1, <1>h DEF Failing
  <2>2. Failing(Down[h]) => \A p \in Fresh(h - 1) : Failing(Down'[p])
    BY <1>2, <2>1 DEF Failing
  <2> QED BY <1>0, <1>1, <1>h, <1>2, <2>2, FailStep
<1>4. \A k : Erasing(k)' <=> Erasing(k)
  BY <1>1, <1>2, <1>h, ErasingSame
<1>5. ASSUME NEW d \in Clients, client'[d].co = "waits"
      PROVE  /\ Undisturbed(d) \/ AttendedAt(d)'
             /\ client'[d].async
                \/ (client[d].co = "waits" /\ client'[d].async = client[d].async)
  <2>1. client'[d] = client[d]
    BY <1>1, <1>5
  <2>2. client[d].co = "waits" /\ Still(d)
    BY <1>5, <2>1 DEF Still
  <2>3. CASE d # c
    <3>1. ~Woken(h, d)
      BY <1>1, <1>h, <2>3 DEF Woken, Owes
    <3>2. \A k \in Coalesced : ~Erasing(k) /\ Parked(k, d) => ~Erasing(k)' /\ Parked(k, d)'
      BY <1>1, <1>4, <2>1 DEF Parked
    <3> QED BY <1>h, <2>1, <2>2, <3>1, <3>2 DEF Undisturbed
  <2>4. CASE d = c
    <3>1. ~client[d].async
      BY <1>1, <1>5, <2>4
    <3>2. Going(d)
      BY <1>0, <2>2, <3>1 DEF Roused
    <3>3. PICK p \in Depth : Down[p].op = "freeClient" /\ Down[p].on = d
      BY <3>2 DEF Going
    <3>4. p # h
      BY <1>1, <3>3
    <3>5. p \in Depth' /\ Down'[p] = Down[p]
      BY <1>1, <1>h, <3>4 DEF KeepsBelow, Depth
    <3>6. AttendedAt(d)'
      BY <3>3, <3>5 DEF AttendedAt, Going
    <3> QED BY <2>1, <2>2, <3>6
  <2> QED BY <2>3, <2>4
<1>6. Attended' /\ Roused'
  BY <1>0, <1>1, <1>h, <1>5, ServedStep
<1> QED BY <1>3, <1>6 DEF ServedInv

LEMMA WaitersServed ==
  ASSUME SInv, ServedInv, setup' = setup, Waiters
  PROVE  ServedInv'
<1>h. PICK h, w, a : h = Height /\ w = Down[h].on /\ a = Down[h].arg
  OBVIOUS
<1>0. Typed /\ Attended /\ Roused /\ FailAbove
  BY DEF SInv, ServedInv
<1>1. /\ h \in Nat \ {0} /\ KeepsBelow(h - 1) /\ Down[h].op = "waiters"
      /\ w \in Seq(Tokens) /\ pending' = pending
      /\ \/ w = <<>> /\ client' = client /\ Fresh(h - 1) = {}
         \/ /\ w # <<>> /\ client' = client /\ client[Head(w).on].gen # Head(w).gen
            /\ Fresh(h - 1) = {h} /\ Down'[h] = Frame("waiters", Tail(w), a)
         \/ /\ w # <<>> /\ Unlinks(Head(w).on) /\ client[Head(w).on].gen = Head(w).gen
            /\ Fresh(h - 1) = {h, h + 1} /\ Down'[h] = Frame("waiters", Tail(w), a)
            /\ Down'[h + 1] = Frame("resume", Head(w).on, a)
  BY <1>0, <1>h, WaitersFacts
<1>2. \A p \in Fresh(h - 1) : Down'[p].op \in {"waiters", "resume"} /\ Down'[p].arg = a
  BY <1>1 DEF Frame
<1>3. FailAbove'
  <2>1. Failing(Down[h]) => a = None
    BY <1>1, <1>h DEF Failing
  <2>2. Failing(Down[h]) => \A p \in Fresh(h - 1) : Failing(Down'[p])
    BY <1>2, <2>1 DEF Failing
  <2> QED BY <1>0, <1>1, <1>h, <1>2, <2>2, FailStep
<1>4. \A k : Erasing(k)' <=> Erasing(k)
  BY <1>1, <1>2, <1>h, ErasingSame
<1>5. ASSUME NEW d \in Clients, client'[d].co = "waits"
      PROVE  /\ Undisturbed(d) \/ AttendedAt(d)'
             /\ client'[d].async
                \/ (client[d].co = "waits" /\ client'[d].async = client[d].async)
  <2>1. /\ client[d].co = "waits" /\ client'[d].gen = client[d].gen
        /\ client'[d].async = client[d].async
        /\ \/ client'[d].ep = client[d].ep
           \/ w # <<>> /\ d = Head(w).on /\ h + 1 \in Fresh(h - 1)
              /\ Down'[h + 1] = Frame("resume", d, a)
    BY <1>1, <1>5 DEF Unlinks, Stays
  <2>2. CASE Woken(h, d)
    <3>1. Waits(w, d, client[d].gen)
      BY <1>1, <1>h, <2>2 DEF Woken, Owes
    <3>2. w # <<>>
      BY <3>1, WaitsEmpty
    <3>3. \/ Waits(Tail(w), d, client[d].gen)
          \/ Head(w).on = d /\ Head(w).gen = client[d].gen
      BY <1>1, <3>1, <3>2, WaitsTail
    <3>4. CASE Waits(Tail(w), d, client[d].gen)
      <4>1. h \in Fresh(h - 1) /\ Down'[h].op = "waiters" /\ Down'[h].on = Tail(w)
        BY <1>1, <3>2 DEF Frame
      <4>2. Woken(h, d)' /\ h \in Depth'
        BY <1>1, <2>1, <3>4, <4>1 DEF Woken, Owes, Fresh, Depth
      <4>3. AttendedAt(d)'
        BY <4>2 DEF AttendedAt
      <4> QED BY <2>1, <4>3
    <3>5. CASE Head(w).on = d /\ Head(w).gen = client[d].gen
      <4>1. /\ h + 1 \in Fresh(h - 1) /\ Down'[h + 1].op = "resume"
            /\ Down'[h + 1].on = d
        BY <1>1, <3>2, <3>5 DEF Frame
      <4>2. AttendedAt(d)'
        BY <1>1, <4>1, FreshWakes
      <4> QED BY <2>1, <4>2
    <3> QED BY <3>3, <3>4, <3>5
  <2>3. CASE ~Woken(h, d)
    <3>1. CASE client'[d].ep = client[d].ep
      <4>1. \A k \in Coalesced : ~Erasing(k) /\ Parked(k, d) => ~Erasing(k)' /\ Parked(k, d)'
        BY <1>1, <1>4, <2>1 DEF Parked
      <4> QED BY <1>h, <2>1, <2>3, <3>1, <4>1 DEF Undisturbed, Still
    <3>2. CASE h + 1 \in Fresh(h - 1) /\ Down'[h + 1] = Frame("resume", d, a)
      <4>1. Down'[h + 1].op = "resume" /\ Down'[h + 1].on = d
        BY <3>2 DEF Frame
      <4>2. AttendedAt(d)'
        BY <1>1, <3>2, <4>1, FreshWakes
      <4> QED BY <2>1, <4>2
    <3> QED BY <2>1, <3>1, <3>2
  <2> QED BY <2>2, <2>3
<1>6. Attended' /\ Roused'
  BY <1>0, <1>1, <1>h, <1>5, ServedStep
<1> QED BY <1>3, <1>6 DEF ServedInv


LEMMA ReleaseSlotFacts ==
  ASSUME SInv, ReleaseSlot, NEW h, h = Height
  PROVE  /\ h \in Nat \ {0} /\ KeepsBelow(h - 1) /\ Down[h].op = "unpin"
         /\ client' = client /\ pending' = pending /\ batch' = batch
         /\ slot' = slot \/ Pinning
         /\ \/ Fresh(h - 1) = {}
            \/ /\ Pinning /\ Fresh(h - 1) = {h}
               /\ \E s \in Slots : Down'[h] = Frame("release", s, None)
<1>0. Typed
  BY DEF SInv
<1>1. /\ stack # <<>> /\ h \in Nat \ {0} /\ Top = Down[h] /\ Down[h] \in FrameType
      /\ Down[h].op = "unpin" /\ h \in Depth
  BY <1>0, Tops DEF ReleaseSlot
<1>s. PICK s : s = Top.arg.slot
  OBVIOUS
<1>2. client' = client /\ pending' = pending /\ batch' = batch
  BY DEF ReleaseSlot
<1>3. \/ slot' = slot /\ stack' = Tail(stack)
      \/ HandleValid(Top.arg) /\ stack' \in {Tail(stack), <<Frame("release", s, None)>> \o Tail(stack)}
  BY <1>s DEF ReleaseSlot
<1>4. ASSUME HandleValid(Top.arg)
      PROVE  Pinning /\ s \in Slots
  <2>1. Top.arg \in Pins /\ s # None /\ slot[s].reserved
    BY <1>1, <1>4, <1>s, FrameFacts DEF HandleValid
  <2>2. s \in Slots
    BY <1>s, <2>1 DEF Pins
  <2> QED BY <2>1, <2>2 DEF SInv, Pinned
<1>5. CASE stack' = Tail(stack)
  <2>1. KeepsBelow(h - 1) /\ Fresh(h - 1) = {}
    BY <1>0, <1>1, <1>5, Pops
  <2> QED BY <1>1, <1>2, <1>3, <1>4, <2>1
<1>6. CASE HandleValid(Top.arg) /\ stack' = <<Frame("release", s, None)>> \o Tail(stack)
  <2>f. PICK f : f = Frame("release", s, None)
    OBVIOUS
  <2>1. f \in FrameType
    BY <1>4, <1>6, <2>f, FrameTypes DEF SlotOps
  <2>2. KeepsBelow(h - 1) /\ Fresh(h - 1) = {h} /\ Down'[h] = f
    BY <1>0, <1>1, <1>6, <2>f, <2>1, Pushes1
  <2> QED BY <1>1, <1>2, <1>4, <1>6, <2>f, <2>2
<1> QED BY <1>3, <1>5, <1>6

\* A handler that serves nobody, on the top of the stack.
LEMMA MuteServed ==
  ASSUME SInv, ServedInv, setup' = setup, NEW b, KeepsBelow(b),
         Height > 0 => Down[Height].op \notin {"resume", "waiters", "freeClient", "erase"},
         \A p \in Fresh(b) : Down'[p].op # "erase" /\ Failing(Down'[p]),
         \A k \in Coalesced : pending'[k].waiters = pending[k].waiters,
         client' = client
  PROVE  ServedInv'
<1>1. Attended /\ Roused /\ FailAbove
  BY DEF ServedInv
<1>2. FailAbove'
  BY <1>1, FailStep
<1>3. \A c \in Clients : client'[c].co = "waits" => Still(c)
  BY DEF Still
<1>4. Attended' /\ Roused'
  BY <1>1, <1>3, ServedQuietly
<1> QED BY <1>2, <1>4 DEF ServedInv

LEMMA ReleaseSlotServed ==
  ASSUME SInv, ServedInv, setup' = setup, ReleaseSlot
  PROVE  ServedInv'
<1>h. PICK h : h = Height
  OBVIOUS
<1>1. /\ h \in Nat \ {0} /\ KeepsBelow(h - 1) /\ Down[h].op = "unpin"
      /\ client' = client /\ pending' = pending
      /\ \/ Fresh(h - 1) = {}
         \/ Fresh(h - 1) = {h} /\ \E s \in Slots : Down'[h] = Frame("release", s, None)
  BY <1>h, ReleaseSlotFacts
<1>2. \A p \in Fresh(h - 1) : Down'[p].op = "release"
  <2>1. CASE Fresh(h - 1) = {}
    BY <2>1
  <2>2. CASE Fresh(h - 1) = {h} /\ \E s \in Slots : Down'[h] = Frame("release", s, None)
    <3>1. Down'[h].op = "release"
      BY <2>2 DEF Frame
    <3> QED BY <2>2, <3>1
  <2> QED BY <1>1, <2>1, <2>2
<1>3. \A p \in Fresh(h - 1) : Down'[p].op # "erase" /\ Failing(Down'[p])
  BY <1>2 DEF Failing
<1> QED BY <1>1, <1>3, <1>h, MuteServed

LEMMA FreeSlotServed ==
  ASSUME SInv, ServedInv, setup' = setup, FreeSlot
  PROVE  ServedInv'
<1>h. PICK h, s : h = Height /\ s = Down[h].on
  OBVIOUS
<1>1. /\ h \in Nat \ {0} /\ KeepsBelow(h - 1) /\ Down[h].op = "free"
      /\ client' = client /\ pending' = pending /\ Fresh(h - 1) = {}
  BY <1>h, FreeSlotFacts DEF SInv
<1> QED BY <1>1, <1>h, MuteServed

LEMMA CloseSlotServed ==
  ASSUME SInv, ServedInv, setup' = setup, CloseSlot
  PROVE  ServedInv'
<1>h. PICK h, s : h = Height /\ s = Down[h].on
  OBVIOUS
<1>1. /\ h \in Nat \ {0} /\ KeepsBelow(h - 1) /\ Down[h].op = "close"
      /\ client' = client /\ pending' = pending /\ Fresh(h - 1) = {h}
      /\ Down'[h] = Frame("release", s, None)
  BY <1>h, CloseSlotFacts DEF SInv
<1>2. \A p \in Fresh(h - 1) : Down'[p].op # "erase" /\ Failing(Down'[p])
  BY <1>1 DEF Frame, Failing
<1> QED BY <1>1, <1>2, <1>h, MuteServed

\* ReleaseEndpoint: everything it leaves to do is part of the failure.
LEMMA ReleaseServed ==
  ASSUME SInv, ServedInv, setup' = setup, ReleaseEndpoint
  PROVE  ServedInv'
<1>h. PICK h, s, k : h = Height /\ s = Down[h].on /\ k = slot[s].key
  OBVIOUS
<1>0. Typed /\ Attended /\ Roused /\ FailAbove
  BY DEF SInv, ServedInv
<1>1. /\ h \in Nat \ {0} /\ KeepsBelow(h - 1) /\ Down[h].op = "release"
      /\ client' = client /\ pending' = pending
      /\ Down'[h] = Frame("free", s, None) /\ Down'[h + 1] = Frame("notify", s, None)
      /\ k = None => Fresh(h - 1) = {h, h + 1}
      /\ k # None => /\ Fresh(h - 1) = {h, h + 1, h + 2, h + 3} /\ k \in Coalesced
                     /\ Down'[h + 2] = Frame("erase", k, None)
                     /\ Down'[h + 3] = Frame("waiters", pending[k].waiters, None)
  BY <1>0, <1>h, ReleaseFacts
<1>2. \A p \in Fresh(h - 1) : Failing(Down'[p])
  BY <1>1 DEF Frame, Failing
<1>3. FailAbove'
  BY <1>0, <1>1, <1>h, <1>2, FailStep
<1>4. CASE k = None
  <2>1. \A p \in Fresh(h - 1) : Down'[p].op # "erase" /\ Failing(Down'[p])
    BY <1>1, <1>2, <1>4 DEF Frame
  <2> QED BY <1>1, <1>h, <2>1, MuteServed
<1>5. CASE k # None
  <2>1. \A l : Erasing(l)' => l = k \/ Erasing(l)
    <3>1. SUFFICES ASSUME NEW l, NEW p \in Depth', Down'[p].op = "erase", Down'[p].on = l
                   PROVE  l = k \/ Erasing(l)
      BY DEF Erasing
    <3>2. CASE p \in Fresh(h - 1)
      BY <1>1, <1>5, <3>1, <3>2 DEF Frame
    <3>3. CASE p \in 1 .. h - 1
      <4>1. p \in Depth /\ Down[p] = Down'[p]
        BY <1>1, <1>h, <3>3 DEF KeepsBelow, Depth
      <4> QED BY <3>1, <4>1 DEF Erasing
    <3> QED BY <1>1, <3>1, <3>2, <3>3 DEF Fresh, Depth, KeepsBelow
  <2>2. ASSUME NEW d \in Clients, client'[d].co = "waits"
        PROVE  /\ Undisturbed(d) \/ AttendedAt(d)'
               /\ client'[d].async
                  \/ (client[d].co = "waits" /\ client'[d].async = client[d].async)
    <3>1. client[d].co = "waits" /\ Still(d)
      BY <1>1, <2>2 DEF Still
    <3>2. CASE Parked(k, d)
      <4>1. h + 3 \in Depth' /\ Woken(h + 3, d)'
        BY <1>1, <1>5, <3>2 DEF Woken, Owes, Parked, Frame, Fresh, Depth
      <4>2. AttendedAt(d)'
        BY <4>1 DEF AttendedAt
      <4> QED BY <1>1, <3>1, <4>2
    <3>3. CASE ~Parked(k, d)
      <4>1. ~Woken(h, d)
        BY <1>1 DEF Woken, Owes
      <4>2. \A l \in Coalesced : ~Erasing(l) /\ Parked(l, d) => ~Erasing(l)' /\ Parked(l, d)'
        BY <1>1, <2>1, <3>3 DEF Parked
      <4> QED BY <1>1, <1>h, <3>1, <4>1, <4>2 DEF Undisturbed
    <3> QED BY <3>2, <3>3
  <2>3. Attended' /\ Roused'
    BY <1>0, <1>1, <1>h, <2>2, ServedStep
  <2> QED BY <1>3, <2>3 DEF ServedInv
<1> QED BY <1>4, <1>5

LEMMA EraseServed ==
  ASSUME SInv, ServedInv, setup' = setup, EraseEntry
  PROVE  ServedInv'
<1>h. PICK h, k : h = Height /\ k = Down[h].on
  OBVIOUS
<1>0. Typed /\ Attended /\ Roused /\ FailAbove
  BY DEF SInv, ServedInv
<1>1. /\ h \in Nat \ {0} /\ KeepsBelow(h - 1) /\ Down[h].op = "erase" /\ h \in Depth
      /\ k \in Coalesced /\ client' = client
      /\ \A l \in Coalesced : pending'[l] = IF l = k THEN NoEntry ELSE pending[l]
      /\ Fresh(h - 1) = {}
  BY <1>0, <1>h, EraseFacts
<1>2. FailAbove'
  BY <1>0, <1>1, <1>h, FailStep
<1>3. Erasing(k)
  BY <1>1, <1>h DEF Erasing
<1>4. \A l : Erasing(l)' => Erasing(l)
  BY <1>1, <1>h DEF Erasing, KeepsBelow, Fresh, Depth
<1>5. ASSUME NEW d \in Clients, client'[d].co = "waits"
      PROVE  /\ Undisturbed(d) \/ AttendedAt(d)'
             /\ client'[d].async
                \/ (client[d].co = "waits" /\ client'[d].async = client[d].async)
  <2>1. client[d].co = "waits" /\ Still(d) /\ ~Woken(h, d)
    BY <1>1, <1>h, <1>5 DEF Still, Woken, Owes
  <2>2. \A l \in Coalesced : ~Erasing(l) /\ Parked(l, d) => ~Erasing(l)' /\ Parked(l, d)'
    BY <1>1, <1>3, <1>4 DEF Parked
  <2> QED BY <1>1, <1>h, <2>1, <2>2 DEF Undisturbed
<1>6. Attended' /\ Roused'
  BY <1>0, <1>1, <1>h, <1>5, ServedStep
<1> QED BY <1>2, <1>6 DEF ServedInv


LEMMA NotifyServed ==
  ASSUME SInv, ServedInv, setup' = setup, NotifyClient
  PROVE  ServedInv'
<1>h. PICK h, s, c : h = Height /\ s = Down[h].on /\ c = slot[s].client
  OBVIOUS
<1>0. Typed /\ Attended /\ Roused /\ FailAbove
  BY DEF SInv, ServedInv
<1>1. /\ h \in Nat \ {0} /\ KeepsBelow(h - 1) /\ Down[h].op = "notify"
      /\ pending' = pending /\ Unlinks(c)
      /\ Fresh(h - 1) = {h} /\ Down'[h] = Frame("resume", c, None)
  BY <1>0, <1>h, NotifyFacts
<1>2. Down'[h].op = "resume" /\ Down'[h].on = c /\ Down'[h].arg = None
  BY <1>1 DEF Frame
<1>3. FailAbove'
  <2>1. \A p \in Fresh(h - 1) : Failing(Down'[p])
    BY <1>1, <1>2 DEF Failing
  <2> QED BY <1>0, <1>1, <1>h, <2>1, FailStep
<1>4. AttendedAt(c)'
  BY <1>1, <1>2, FreshWakes
<1>5. Attended' /\ Roused'
  BY <1>0, <1>1, <1>h, <1>2, <1>4, ServedUnlinked
<1> QED BY <1>3, <1>5 DEF ServedInv

LEMMA ParseErrorServed ==
  ASSUME SInv, ServedInv, setup' = setup, ParseError
  PROVE  ServedInv'
<1>h. PICK h, s, c : h = Height /\ s = Down[h].on /\ c = slot[s].client
  OBVIOUS
<1>0. Typed /\ Attended /\ Roused /\ FailAbove
  BY DEF SInv, ServedInv
<1>1. /\ h \in Nat \ {0} /\ KeepsBelow(h - 1) /\ Down[h].op = "parseError"
      /\ pending' = pending /\ Unlinks(c)
      /\ Fresh(h - 1) = {h, h + 1}
      /\ Down'[h] = Frame("close", s, None) /\ Down'[h + 1] = Frame("resume", c, None)
  BY <1>0, <1>h, ParseErrorFacts
<1>2. Down'[h].op = "close" /\ Down'[h + 1].op = "resume" /\ Down'[h + 1].on = c
  BY <1>1 DEF Frame
<1>n. \A p \in Fresh(h - 1) : Down'[p].op # "erase"
  BY <1>1, <1>2
<1>3. FailAbove'
  BY <1>0, <1>1, <1>h, <1>n, FailNothing
<1>4. AttendedAt(c)'
  BY <1>1, <1>2, FreshWakes
<1>5. Attended' /\ Roused'
  BY <1>0, <1>1, <1>h, <1>n, <1>4, ServedUnlinked
<1> QED BY <1>3, <1>5 DEF ServedInv

\* CompleteSingleSlotRequest: the waiters leave the map for the stack.
LEMMA CompleteServed ==
  ASSUME SInv, ServedInv, setup' = setup, Complete
  PROVE  ServedInv'
<1>h. PICK s, c, k, o, a : /\ s = Down[Height].on /\ c = slot[s].client /\ k = slot[s].key
                           /\ o = slot[s].owes /\ a = Down[Height].arg
  OBVIOUS
<1>0. Typed /\ Placed /\ Attended /\ Roused /\ FailAbove
  BY DEF SInv, ServedInv
<1>1. /\ Height = 1 /\ KeepsBelow(0) /\ Down[1].op = "complete"
      /\ k = None => pending' = pending
      /\ \A l \in Coalesced : l # k => pending'[l] = pending[l]
      /\ Unlinks(c)
      /\ Fresh(0) = {1, 2, 3}
      /\ Down'[1] = Frame("resume", c, o) /\ Down'[2] = Frame("finish", s, a)
      /\ Down'[3] = Frame("waiters", WaitersOf(k), o)
  BY <1>0, <1>h, CompleteFacts
<1>2. /\ Down'[1].op = "resume" /\ Down'[1].on = c /\ Down'[2].op = "finish"
      /\ Down'[3].op = "waiters"
      /\ k # None => Down'[3].on = pending[k].waiters
  BY <1>1 DEF Frame, WaitersOf
<1>n. \A p \in Fresh(0) : Down'[p].op # "erase"
  BY <1>1, <1>2
<1>3. FailAbove'
  BY <1>0, <1>1, <1>n, FailNothing
<1>4. AttendedAt(c)'
  BY <1>1, <1>2, FreshWakes
<1>6. \A l : Erasing(l)' <=> Erasing(l)
  BY <1>1, <1>n, ErasingSame
<1>5. ASSUME NEW d \in Clients, client'[d].co = "waits"
      PROVE  /\ Undisturbed(d) \/ AttendedAt(d)'
             /\ client'[d].async
                \/ (client[d].co = "waits" /\ client'[d].async = client[d].async)
  <2>1. /\ client[d].co = "waits" /\ client'[d].gen = client[d].gen
        /\ client'[d].async = client[d].async
        /\ client'[d].ep = IF d = c THEN None ELSE client[d].ep
    BY <1>1, <1>5 DEF Unlinks, Stays
  <2>2. CASE k # None /\ Parked(k, d)
    <3>1. Woken(3, d)' /\ 3 \in Depth'
      BY <1>1, <1>2, <2>1, <2>2 DEF Woken, Owes, Parked, Fresh, Depth
    <3>2. AttendedAt(d)'
      BY <3>1 DEF AttendedAt
    <3> QED BY <2>1, <3>2
  <2>3. CASE d = c
    BY <1>4, <2>1, <2>3
  <2>4. CASE d # c /\ ~(k # None /\ Parked(k, d))
    <3>1. Still(d) /\ ~Woken(1, d)
      BY <1>1, <2>1, <2>4 DEF Still, Woken, Owes
    <3>2. \A l \in Coalesced : ~Erasing(l) /\ Parked(l, d) => ~Erasing(l)' /\ Parked(l, d)'
      BY <1>1, <1>6, <2>1, <2>4 DEF Parked
    <3> QED BY <1>1, <2>1, <3>1, <3>2 DEF Undisturbed
  <2> QED BY <2>2, <2>3, <2>4
<1>7. Attended' /\ Roused'
  BY <1>0, <1>1, <1>5, ServedStep
<1> QED BY <1>3, <1>7 DEF ServedInv

LEMMA FinishServed ==
  ASSUME SInv, ServedInv, setup' = setup, Finish
  PROVE  ServedInv'
<1>h. PICK h, s : h = Height /\ s = Down[h].on
  OBVIOUS
<1>0. Attended /\ Roused /\ FailAbove
  BY DEF ServedInv
<1>1. /\ h = 2 /\ KeepsBelow(1) /\ Down[2].op = "finish"
      /\ client' = client /\ pending' = pending
      /\ Fresh(1) = {} \/ (Fresh(1) = {2} /\ Down'[2] = Frame("release", s, None))
  BY <1>h, FinishFacts
<1>2. \A p \in Fresh(1) : Down'[p].op # "erase" /\ Failing(Down'[p])
  <2>1. CASE Fresh(1) = {}
    BY <2>1
  <2>2. CASE Fresh(1) = {2} /\ Down'[2] = Frame("release", s, None)
    BY <2>2 DEF Frame, Failing
  <2> QED BY <1>1, <2>1, <2>2
<1> QED BY <1>1, <1>2, <1>h, MuteServed

\* ReleaseClient: the client is unlinked from its slot, and goes.
LEMMA DetachServed ==
  ASSUME SInv, ServedInv, setup' = setup, Detach
  PROVE  ServedInv'
<1>h. PICK h, c, e : h = Height /\ c = Down[h].on /\ e = client[c].ep
  OBVIOUS
<1>0. Attended /\ Roused /\ FailAbove
  BY DEF ServedInv
<1>1. /\ h = 2 /\ KeepsBelow(1) /\ Down[2].op = "detach" /\ c \in Clients
      /\ Down[1].op = "freeClient" /\ Down[1].on = c
      /\ Unlinks(c) /\ pending' = pending
      /\ Fresh(1) = {} \/ (Fresh(1) = {2} /\ Down'[2] = Frame("release", e, None))
  BY <1>h, DetachFacts
<1>2. \A p \in Fresh(1) : Down'[p].op # "erase"
  <2>1. CASE Fresh(1) = {}
    BY <2>1
  <2>2. CASE Fresh(1) = {2} /\ Down'[2] = Frame("release", e, None)
    BY <2>2 DEF Frame
  <2> QED BY <1>1, <2>1, <2>2
<1>3. FailAbove'
  BY <1>0, <1>1, <1>h, <1>2, FailNothing
<1>4. AttendedAt(c)'
  <2>1. 1 \in Depth' /\ Down'[1] = Down[1]
    BY <1>1, <1>h DEF KeepsBelow, Depth
  <2> QED BY <1>1, <2>1 DEF AttendedAt, Going
<1>5. Attended' /\ Roused'
  BY <1>0, <1>1, <1>h, <1>2, <1>4, ServedUnlinked
<1> QED BY <1>3, <1>5 DEF ServedInv

LEMMA FreeClientServed ==
  ASSUME SInv, ServedInv, setup' = setup, FreeClient
  PROVE  ServedInv'
<1>h. PICK h, c : h = Height /\ c = Down[h].on
  OBVIOUS
<1>0. Typed /\ Attended /\ Roused /\ FailAbove
  BY DEF SInv, ServedInv
<1>1. /\ h \in Nat \ {0} /\ KeepsBelow(h - 1) /\ Down[h].op = "freeClient" /\ c \in Clients
      /\ pending' = pending /\ Fresh(h - 1) = {} /\ client'[c].co = "none"
      /\ \A d \in Clients \ {c} : client'[d] = client[d]
  BY <1>0, <1>h, FreeClientFacts
<1>3. FailAbove'
  BY <1>0, <1>1, <1>h, FailNothing
<1>4. \A k : Erasing(k)' <=> Erasing(k)
  BY <1>1, <1>h, ErasingSame
<1>5. ASSUME NEW d \in Clients, client'[d].co = "waits"
      PROVE  /\ Undisturbed(d) \/ AttendedAt(d)'
             /\ client'[d].async
                \/ (client[d].co = "waits" /\ client'[d].async = client[d].async)
  <2>1. client'[d] = client[d]
    BY <1>1, <1>5
  <2>2. client[d].co = "waits" /\ Still(d) /\ ~Woken(h, d)
    BY <1>1, <1>5, <1>h, <2>1 DEF Still, Woken, Owes
  <2>3. \A k \in Coalesced : ~Erasing(k) /\ Parked(k, d) => ~Erasing(k)' /\ Parked(k, d)'
    BY <1>1, <1>4, <2>1 DEF Parked
  <2> QED BY <1>h, <2>1, <2>2, <2>3 DEF Undisturbed
<1>6. Attended' /\ Roused'
  BY <1>0, <1>1, <1>h, <1>5, ServedStep
<1> QED BY <1>3, <1>6 DEF ServedInv


-------------------------------------------------------------------------------
(* The coroutine that runs. *)

\* Nothing is erased below a coroutine that calls.
LEMMA CallsErases ==
  ASSUME SInv, ServedInv, ~Retries, NEW c \in Clients, Calls(c)
  PROVE  \A k : ~Erasing(k)
<1>1. /\ Height \in Nat /\ Height \in Depth /\ Down[Height].op = "run" /\ ~Failing(Down[Height])
  BY CallsFacts
<1>2. SUFFICES ASSUME NEW p \in Depth, Down[p].op = "erase" PROVE FALSE
  BY DEF Erasing
<1>3. p < Height
  BY <1>1, <1>2 DEF Depth
<1> QED BY <1>1, <1>2, <1>3 DEF ServedInv, FailAbove

LEMMA SendRefusedServed ==
  ASSUME SInv, ServedInv, setup' = setup, NEW c \in Clients, SendRefused(c)
  PROVE  ServedInv'
<1>h. PICK h : h = Height
  OBVIOUS
<1>1. /\ KeepsBelow(h - 1) /\ Fresh(h - 1) = {h} /\ Down'[h] = Frame("run", c, "failed")
      /\ client' = client /\ pending' = pending
  BY <1>h, SendRefusedFacts
<1>2. Down[h].op = "run"
  BY <1>h, CallsFacts DEF SendRefused
<1>3. \A p \in Fresh(h - 1) : Down'[p].op # "erase" /\ Failing(Down'[p])
  BY <1>1 DEF Frame, Failing
<1> QED BY <1>1, <1>2, <1>3, <1>h, MuteServed

LEMMA SendUnserializableServed ==
  ASSUME SInv, ServedInv, setup' = setup, NEW c \in Clients, NEW s \in Slots,
         SendUnserializable(c, s)
  PROVE  ServedInv'
<1>h. PICK h, r : h = Height /\ r = IF Holds(c, s) THEN slot[s] ELSE Lease(slot[s])
  OBVIOUS
<1>1. /\ KeepsBelow(h - 1) /\ Fresh(h - 1) = {h, h + 1}
      /\ Down'[h] = Frame("run", c, "failed") /\ Down'[h + 1] = Frame("release", s, None)
      /\ client' = client /\ pending' = pending
  BY <1>h, SendUnserializableFacts
<1>2. Down[h].op = "run"
  BY <1>h, CallsFacts DEF SendUnserializable
<1>3. \A p \in Fresh(h - 1) : Down'[p].op # "erase" /\ Failing(Down'[p])
  BY <1>1 DEF Frame, Failing
<1> QED BY <1>1, <1>2, <1>3, <1>h, MuteServed

\* A step of a coroutine that changes no client as far as waking goes.
LEMMA CoroutineServed ==
  ASSUME SInv, ServedInv, setup' = setup, NEW h, h = Height, KeepsBelow(h - 1),
         Height > 0, Down[h].op = "run",
         \A p \in Fresh(h - 1) : Down'[p].op # "erase" /\ (Failing(Down[h]) => Failing(Down'[p])),
         \A k \in Coalesced : pending'[k].waiters = pending[k].waiters,
         \A d \in Clients : client'[d].co = "waits" => Stays(d) /\ client'[d].ep = client[d].ep
  PROVE  ServedInv'
<1>1. Attended /\ Roused /\ FailAbove
  BY DEF ServedInv
<1>2. FailAbove'
  BY <1>1, FailStep
<1>3. \A d \in Clients : client'[d].co = "waits" => Still(d)
  BY DEF Still, Stays
<1>4. Attended' /\ Roused'
  BY <1>1, <1>3, ServedQuietly
<1> QED BY <1>2, <1>4 DEF ServedInv

LEMMA ReserveServed ==
  ASSUME SInv, ServedInv, setup' = setup, NEW c \in Clients, NEW s \in Slots, ReserveSlot(c, s)
  PROVE  ServedInv'
<1>h. PICK h : h = Height
  OBVIOUS
<1>1. /\ KeepsBelow(h - 1) /\ Fresh(h - 1) = {h} /\ Down'[h] = Down[h]
      /\ pending' = pending /\ \A d \in Clients : Stays(d) /\ client'[d].ep = client[d].ep
  BY <1>h, ReserveSlotFacts
<1>2. Down[h].op = "run" /\ h \in Nat \ {0}
  BY <1>h, CallsFacts DEF ReserveSlot
<1>3. \A p \in Fresh(h - 1) : Down'[p].op # "erase" /\ (Failing(Down[h]) => Failing(Down'[p]))
  BY <1>1, <1>2
<1> QED BY <1>1, <1>2, <1>3, <1>h, CoroutineServed

LEMMA UnpinsServed ==
  ASSUME SInv, ServedInv, setup' = setup, NEW c \in Clients, Unpins(c)
  PROVE  ServedInv'
<1>h. PICK h, g : h = Height /\ g = Down[h]
  OBVIOUS
<1>1. /\ KeepsBelow(h - 1) /\ Fresh(h - 1) = {h, h + 1} /\ Down'[h] = g
      /\ Down'[h + 1] = Frame("unpin", c, client[c].pin)
      /\ pending' = pending /\ \A d \in Clients : Stays(d) /\ client'[d].ep = client[d].ep
  BY <1>h, UnpinsFacts
<1>2. Down[h].op = "run" /\ h \in Nat \ {0}
  <2>1. Typed /\ Running("run")
    BY DEF SInv, Unpins, Runs
  <2> QED BY <1>h, <2>1, Tops
<1>3. \A p \in Fresh(h - 1) : Down'[p].op # "erase" /\ (Failing(Down[h]) => Failing(Down'[p]))
  <2>1. Down'[h + 1].op = "unpin"
    BY <1>1 DEF Frame
  <2>2. Failing(Down'[h + 1])
    BY <2>1 DEF Failing
  <2> QED BY <1>1, <1>2, <1>h, <2>1, <2>2
<1> QED BY <1>1, <1>2, <1>3, <1>h, CoroutineServed

LEMMA ReturnsServed ==
  ASSUME SInv, ServedInv, setup' = setup, NEW c \in Clients, Returns(c)
  PROVE  ServedInv'
<1>h. PICK h : h = Height
  OBVIOUS
<1>1. /\ KeepsBelow(h - 1) /\ Fresh(h - 1) = {} /\ pending' = pending
      /\ client'[c].co = "done" /\ \A d \in Clients \ {c} : client'[d] = client[d]
  BY <1>h, ReturnsFacts
<1>2. Down[h].op = "run" /\ h \in Nat \ {0}
  <2>1. Typed /\ Running("run")
    BY DEF SInv, Returns, Runs
  <2> QED BY <1>h, <2>1, Tops
<1>3. \A d \in Clients : client'[d].co = "waits" => Stays(d) /\ client'[d].ep = client[d].ep
  BY <1>1 DEF Stays
<1> QED BY <1>1, <1>2, <1>3, <1>h, CoroutineServed


LEMMA SendServed ==
  ASSUME SInv, ServedInv, setup' = setup, NEW c \in Clients, NEW req \in Reqs, NEW s \in Slots,
         Send(c, req, s)
  PROVE  ServedInv'
<1>h. PICK h, key, r : /\ h = Height /\ key = (IF Holds(c, s) THEN None ELSE KeyOf(req))
                       /\ r = (IF Holds(c, s) THEN slot[s] ELSE Lease(slot[s]))
  OBVIOUS
<1>0. Attended /\ Roused /\ FailAbove
  BY DEF ServedInv
<1>1. /\ Calls(c) /\ KeepsBelow(h - 1)
      /\ \A d \in Clients \ {c} : client'[d] = client[d]
      /\ client'[c].async
      /\ \A k \in Coalesced : pending'[k].waiters = pending[k].waiters
      /\ \/ /\ client'[c].co = "waits" /\ client'[c].ep = s /\ Fresh(h - 1) = {}
         \/ /\ client'[c].co = client[c].co
            /\ Fresh(h - 1) = {h, h + 1} /\ Down'[h] = Frame("run", c, "failed")
            /\ \E why \in {None, "refused"} : Down'[h + 1] = Frame("release", s, why)
  BY <1>h, SendFacts
<1>2. Down[h].op = "run" /\ client[c].co = "runs"
  BY <1>1, <1>h, CallsFacts
<1>3. \A p \in Fresh(h - 1) : Down'[p].op # "erase" /\ Failing(Down'[p])
  BY <1>1 DEF Frame, Failing
<1>4. FailAbove'
  BY <1>0, <1>1, <1>h, <1>3, FailStep
<1>5. ASSUME NEW d \in Clients, client'[d].co = "waits"
      PROVE  \/ Still(d)
             \/ /\ AttendedAt(d)'
                /\ \/ client'[d].async
                   \/ client[d].co = "waits" /\ client'[d].async = client[d].async
  <2>1. CASE d = c
    <3>1. client'[c].ep = s /\ s # None
      BY <1>1, <1>2, <1>5, <2>1, SetsAssumption
    <3>2. AttendedAt(d)'
      BY <2>1, <3>1 DEF AttendedAt
    <3> QED BY <1>1, <2>1, <3>2
  <2>2. CASE d # c
    <3>1. client'[d] = client[d]
      BY <1>1, <2>2
    <3> QED BY <1>5, <3>1 DEF Still
  <2> QED BY <2>1, <2>2
<1>6. Attended' /\ Roused'
  BY <1>0, <1>1, <1>2, <1>3, <1>5, <1>h, ServedQuietly
<1> QED BY <1>4, <1>6 DEF ServedInv

\* A request is coalesced only while its entry stays.
LEMMA SendCoalescedServed ==
  ASSUME SInv, ServedInv, setup' = setup, ~Retries \/ Coalesced = {},
         NEW c \in Clients, NEW req, SendCoalesced(c, req)
  PROVE  ServedInv'
<1>h. PICK h : h = Height
  OBVIOUS
<1>0. Attended /\ Roused /\ FailAbove /\ Typed
  BY DEF ServedInv, SInv
<1>1. /\ KeepsBelow(h - 1) /\ Fresh(h - 1) = {} /\ req \in Coalesced
      /\ \A k \in Coalesced \ {req} : pending'[k].waiters = pending[k].waiters
      /\ pending'[req].waiters = Append(pending[req].waiters, Source(c, client[c].gen))
      /\ \A d \in Clients \ {c} : client'[d] = client[d]
      /\ client'[c].co = "waits" /\ client'[c].async /\ client'[c].gen = client[c].gen
  BY <1>h, SendCoalescedFacts
<1>2. Down[h].op = "run" /\ Calls(c) /\ Down[h].on = c
  <2>1. Calls(c)
    BY DEF SendCoalesced
  <2> QED BY <1>h, <2>1, CallsFacts
<1>3. \A k : ~Erasing(k)
  BY <1>1, <1>2, CallsErases
<1>4. \A k : ~Erasing(k)'
  BY <1>1, <1>2, <1>3, <1>h, ErasingSame
<1>5. FailAbove'
  BY <1>0, <1>1, <1>h, FailStep
<1>6. \A d \in Clients : \A k \in Coalesced :
         /\ Waits(pending[k].waiters, d, client[d].gen) =>
               Waits(pending'[k].waiters, d, client[d].gen)
         /\ k = req /\ d = c => Waits(pending'[k].waiters, d, client[d].gen)
  <2>1. SUFFICES ASSUME NEW d \in Clients, NEW k \in Coalesced
                 PROVE  /\ Waits(pending[k].waiters, d, client[d].gen) =>
                              Waits(pending'[k].waiters, d, client[d].gen)
                        /\ k = req /\ d = c => Waits(pending'[k].waiters, d, client[d].gen)
    OBVIOUS
  <2>2. CASE k # req
    BY <1>1, <2>2
  <2>3. CASE k = req
    <3>1. /\ pending[k].waiters \in Seq(Tokens) /\ client[d].gen \in Nat
          /\ client[c].gen \in Nat
      BY <1>0 DEF Typed, ClientShape
    <3>2. Waits(Append(pending[k].waiters, Source(c, client[c].gen)), d, client[d].gen) <=>
             \/ Waits(pending[k].waiters, d, client[d].gen)
             \/ c = d /\ client[c].gen = client[d].gen
      BY <3>1, WaitsAppend
    <3> QED BY <1>1, <2>3, <3>2
  <2> QED BY <2>2, <2>3
<1>7. ASSUME NEW d \in Clients, client'[d].co = "waits"
      PROVE  /\ Undisturbed(d) \/ AttendedAt(d)'
             /\ client'[d].async
                \/ (client[d].co = "waits" /\ client'[d].async = client[d].async)
  <2>1. CASE d = c
    <3>1. Parked(req, d)'
      BY <1>1, <1>6, <2>1 DEF Parked
    <3>2. req \in Coalesced'
      BY <1>1, SetupKept
    <3>3. AttendedAt(d)'
      BY <1>4, <3>1, <3>2 DEF AttendedAt
    <3> QED BY <1>1, <2>1, <3>3
  <2>2. CASE d # c
    <3>1. client'[d] = client[d]
      BY <1>1, <2>2
    <3>2. client[d].co = "waits" /\ Still(d) /\ ~Woken(h, d)
      BY <1>2, <1>7, <2>2, <3>1 DEF Still, Woken, Owes
    <3>3. \A k \in Coalesced : ~Erasing(k) /\ Parked(k, d) => ~Erasing(k)' /\ Parked(k, d)'
      BY <1>4, <1>6, <3>1 DEF Parked
    <3> QED BY <1>h, <3>1, <3>2, <3>3 DEF Undisturbed
  <2> QED BY <2>1, <2>2
<1>8. Attended' /\ Roused'
  BY <1>0, <1>1, <1>2, <1>h, <1>7, ServedStep
<1> QED BY <1>5, <1>8 DEF ServedInv


-------------------------------------------------------------------------------
(* The event loop. *)

LEMMA CallsAlone ==
  ASSUME NEW s, NEW r, NEW x, Effect(s, r, x)
  PROVE  x.calls \o <<>> = x.calls
<1>1. \/ x.calls = <<>>
      \/ \E f : x.calls = <<f>>
      \/ \E f, g : x.calls = <<f, g>>
  BY DEF Effect, CallsFrom
<1>2. CASE x.calls = <<>>
  <2>1. <<>> \in Seq({})
    OBVIOUS
  <2> QED BY <1>2, <2>1, ConcatEmptySeq
<1>3. CASE \E f : x.calls = <<f>>
  <2>1. PICK f : x.calls = <<f>>
    BY <1>3
  <2>2. x.calls \in Seq({f})
    BY <2>1
  <2> QED BY <2>2, ConcatEmptySeq
<1>4. CASE \E f, g : x.calls = <<f, g>>
  <2>1. PICK f, g : x.calls = <<f, g>>
    BY <1>4
  <2>2. x.calls \in Seq({f, g})
    BY <2>1
  <2> QED BY <2>2, ConcatEmptySeq
<1> QED BY <1>1, <1>2, <1>3, <1>4

\* What the loop makes of an event of slot s, or of its timer: an Effect.
Happens(s, x) ==
    /\ Effect(s, slot[s], x)
    /\ slot' = [slot EXCEPT ![s] = x.slot] /\ stack' = x.calls
    /\ pending' = IF x.registers = None THEN pending
                  ELSE [pending EXCEPT ![x.registers].by = s]
    /\ client' = IF x.unlinks THEN [client EXCEPT ![slot[s].client].ep = None] ELSE client

LEMMA EventFacts ==
  ASSUME SInv, NEW s \in Slots, EndpointEvent(s)
  PROVE  stack = <<>> /\ \E x \in HandleEndpointEvent(s, slot[s]) : Happens(s, x)
<1>1. stack = <<>> /\ Apply(s, HandleEndpointEvent(s, slot[s]), <<>>)
  BY DEF EndpointEvent, Take
<1>2. SlotShape(slot[s]) /\ Wired(slot[s])
  BY DEF SInv, Typed
<1>3. PICK x \in HandleEndpointEvent(s, slot[s]) :
        /\ slot' = [slot EXCEPT ![s] = x.slot] /\ stack' = x.calls \o <<>>
        /\ pending' = IF x.registers = None THEN pending
                      ELSE [pending EXCEPT ![x.registers].by = s]
        /\ client' = IF x.unlinks THEN [client EXCEPT ![slot[s].client].ep = None] ELSE client
  BY <1>1 DEF Apply
<1>4. Effect(s, slot[s], x)
  BY <1>2, HandleEndpointEventEffect
<1>5. x.calls \o <<>> = x.calls
  BY <1>4, CallsAlone
<1> QED BY <1>1, <1>3, <1>4, <1>5 DEF Happens

LEMMA ExpiryFacts ==
  ASSUME SInv, NEW s \in Slots, SlotExpires(s)
  PROVE  /\ stack = <<>> /\ slot[s].timer # "none"
         /\ \E x \in HandleExpiry(s, [slot[s] EXCEPT !.timer = "none"]) : Happens(s, x)
<1>e. PICK effects : effects = HandleExpiry(s, [slot[s] EXCEPT !.timer = "none"])
  OBVIOUS
<1>1. stack = <<>> /\ slot[s].timer # "none" /\ Apply(s, effects, <<>>)
  BY <1>e DEF SlotExpires, Take
<1>2. SlotShape(slot[s]) /\ Wired(slot[s])
  BY DEF SInv, Typed
<1>3. PICK x \in effects :
        /\ slot' = [slot EXCEPT ![s] = x.slot] /\ stack' = x.calls \o <<>>
        /\ pending' = IF x.registers = None THEN pending
                      ELSE [pending EXCEPT ![x.registers].by = s]
        /\ client' = IF x.unlinks THEN [client EXCEPT ![slot[s].client].ep = None] ELSE client
  BY <1>1 DEF Apply
<1>4. Effect(s, slot[s], x)
  BY <1>e, <1>2, HandleExpiryEffect
<1>5. x.calls \o <<>> = x.calls
  BY <1>4, CallsAlone
<1> QED BY <1>1, <1>e, <1>3, <1>4, <1>5 DEF Happens

\* The same for a slot the loop connects: one that is prewarmed, or one whose
\* reconnect is due.
Opens(s, r, y, z) ==
    /\ SlotShape(r) /\ Wired(r) /\ r.client = None /\ r.key = None /\ ~r.reserved
    /\ r.leased /\ ~r.onconn /\ ~r.awaiting
    /\ y \in WrapConnect(r) /\ Attempted(s, y, z)
    /\ slot' = [slot EXCEPT ![s] = z.slot] /\ stack' = z.calls
    /\ client' = client /\ pending' = pending

LEMMA AttemptAlone ==
  ASSUME NEW s, NEW r, SlotShape(r), Wired(r), r.client = None, r.key = None, ~r.reserved,
         r.leased, ~r.onconn, ~r.awaiting, NEW y \in WrapConnect(r), NEW z,
         Attempted(s, y, z)
  PROVE  z.calls \o <<>> = z.calls
<1>1. CallsFrom(s, z.slot, z.calls)
  BY ConnectOutcome
<1>2. z.calls = <<>> \/ \E f : z.calls = <<f>>
  BY <1>1 DEF CallsFrom
<1>3. CASE z.calls = <<>>
  <2>1. <<>> \in Seq({})
    OBVIOUS
  <2> QED BY <1>3, <2>1, ConcatEmptySeq
<1>4. CASE \E f : z.calls = <<f>>
  <2>1. PICK f : z.calls = <<f>>
    BY <1>4
  <2>2. z.calls \in Seq({f})
    BY <2>1
  <2> QED BY <2>2, ConcatEmptySeq
<1> QED BY <1>2, <1>3, <1>4

LEMMA PrewarmFacts ==
  ASSUME SInv, NEW s \in Slots, PrewarmSlot(s)
  PROVE  stack = <<>> /\ ~slot[s].leased /\ \E y, z : Opens(s, Lease(slot[s]), y, z)
<1>r. PICK r : r = Lease(slot[s])
  OBVIOUS
<1>1. stack = <<>> /\ ~slot[s].leased
  BY DEF PrewarmSlot, FreeSlots
<1>2. /\ slot[s].client = None /\ slot[s].key = None /\ ~slot[s].reserved
      /\ ~Dialling(slot[s]) /\ SlotShape(slot[s]) /\ Wired(slot[s])
  <2>1. Typed /\ slot[s].client = None /\ slot[s].key = None /\ ~slot[s].reserved
        /\ ~Dialling(slot[s])
    BY <1>1, QuietFacts
  <2> QED BY <2>1 DEF Typed
<1>3. /\ SlotShape(r) /\ Wired(r) /\ r.client = None /\ r.key = None /\ ~r.reserved
      /\ r.leased /\ ~r.onconn /\ ~r.awaiting
  BY <1>r, <1>2 DEF Lease, SlotShape, SlotFields, Wired, Dialling, IsConnecting
<1>4. PICK y \in WrapConnect(r) :
        Apply(s, IF y.status = "PENDING" THEN {Does(y.slot, <<>>)}
                 ELSE HandleConnectFailure(s, y.slot, FALSE, y.status # "SSL_FAILURE"),
              <<>>)
  BY <1>r DEF PrewarmSlot
<1>e. PICK effects : effects = IF y.status = "PENDING" THEN {Does(y.slot, <<>>)}
                 ELSE HandleConnectFailure(s, y.slot, FALSE, y.status # "SSL_FAILURE")
  OBVIOUS
<1>5. PICK z \in effects :
        /\ slot' = [slot EXCEPT ![s] = z.slot]
        /\ stack' = z.calls \o <<>>
        /\ pending' = IF z.registers = None THEN pending
                      ELSE [pending EXCEPT ![z.registers].by = s]
        /\ client' = IF z.unlinks THEN [client EXCEPT ![slot[s].client].ep = None]
                     ELSE client
  BY <1>4, <1>e DEF Apply
<1>6. Attempted(s, y, z)
  BY <1>e DEF Attempted
<1>7. ~z.unlinks /\ z.registers = None
  BY <1>3, <1>6, ConnectOutcome
<1>8. z.calls \o <<>> = z.calls
  BY <1>3, <1>6, AttemptAlone
<1>9. Opens(s, r, y, z)
  BY <1>3, <1>5, <1>6, <1>7, <1>8 DEF Opens
<1> QED BY <1>1, <1>9, <1>r

LEMMA ReconnectFacts ==
  ASSUME SInv, NEW x \in reconnects, HandleReconnects(x), NEW s, s = x.on
  PROVE  /\ stack = <<>> /\ s \in Slots
         /\ \/ slot' = slot /\ client' = client /\ pending' = pending /\ stack' = stack
            \/ /\ slot[s].awaiting
               /\ \E y, z : Opens(s, [slot[s] EXCEPT !.awaiting = FALSE], y, z)
<1>0. stack = <<>> /\ Typed /\ s \in Slots
  BY DEF HandleReconnects, Take, SInv, Typed
<1>r. PICK r : r = [slot[s] EXCEPT !.awaiting = FALSE]
  OBVIOUS
<1>1. CASE ~slot[s].awaiting \/ slot[s].gen # x.gen
  <2>1. slot' = slot /\ client' = client /\ pending' = pending /\ stack' = stack
    BY <1>1 DEF HandleReconnects
  <2> QED BY <1>0, <2>1
<1>2. CASE ~(~slot[s].awaiting \/ slot[s].gen # x.gen)
  <2>1. /\ slot[s].leased /\ slot[s].client = None /\ slot[s].key = None
        /\ ~slot[s].reserved /\ SlotShape(slot[s]) /\ Wired(slot[s]) /\ ~slot[s].onconn
        /\ slot[s].awaiting
    <3>1. slot[s].awaiting
      BY <1>2
    <3>2. SlotShape(slot[s]) /\ Wired(slot[s])
      BY <1>0 DEF Typed
    <3>3. slot[s].client = None /\ Dialling(slot[s])
      BY <1>0, <3>1, QuietFacts DEF Dialling
    <3>4. slot[s].leased /\ slot[s].key = None /\ ~slot[s].reserved
      BY <1>0, <3>3, QuietFacts
    <3> QED BY <3>1, <3>2, <3>3, <3>4 DEF Wired
  <2>2. /\ SlotShape(r) /\ Wired(r) /\ r.client = None /\ r.key = None /\ ~r.reserved
        /\ r.leased /\ ~r.onconn /\ ~r.awaiting
    BY <1>r, <2>1 DEF SlotShape, SlotFields, Wired
  <2>3. PICK y \in WrapConnect(r) :
          \E z \in IF y.status = "PENDING" THEN {Does(y.slot, <<>>)}
                   ELSE HandleConnectFailure(s, y.slot, FALSE, y.status # "SSL_FAILURE") :
            /\ slot' = [slot EXCEPT ![s] = z.slot]
            /\ stack' = z.calls
            /\ client' = client /\ pending' = pending
    BY <1>r, <1>2 DEF HandleReconnects
  <2>e. PICK effects : effects = IF y.status = "PENDING" THEN {Does(y.slot, <<>>)}
                   ELSE HandleConnectFailure(s, y.slot, FALSE, y.status # "SSL_FAILURE")
    OBVIOUS
  <2>4. PICK z \in effects :
            /\ slot' = [slot EXCEPT ![s] = z.slot]
            /\ stack' = z.calls
            /\ client' = client /\ pending' = pending
    BY <2>3, <2>e
  <2>5. Attempted(s, y, z)
    BY <2>e DEF Attempted
  <2>6. Opens(s, r, y, z)
    BY <2>2, <2>4, <2>5 DEF Opens
  <2> QED BY <1>0, <2>1, <2>6, <1>r
<1> QED BY <1>1, <1>2


\* What a handler of the loop leaves to be done.
LEMMA LoopCalls ==
  ASSUME stack = <<>>, NEW s \in Slots, NEW q, CallsFrom(s, q, stack')
  PROVE  /\ KeepsBelow(0) /\ Height = 0
         /\ \/ Fresh(0) = {}
            \/ /\ Fresh(0) = {1} /\ Down'[1].on = s
               /\ Down'[1].op \in {"release", "complete", "parseError"}
               /\ Down'[1].op = "complete" => HasRequestInFlight(q)
<1>1. CASE stack' = <<>>
  <2>1. Frame("release", s, None) \in FrameType
    BY FrameTypes DEF SlotOps
  <2> QED BY <1>1, <2>1, Starts
<1>2. ASSUME NEW o \in {"release", "complete", "parseError"},
             NEW a \in {None, "refused", "KEEP_ALIVE", "CLOSE"}, stack' = <<Frame(o, s, a)>>
      PROVE  /\ KeepsBelow(0) /\ Height = 0
             /\ Fresh(0) = {1} /\ Down'[1].on = s
             /\ Down'[1].op = o
  <2>f. PICK f : f = Frame(o, s, a)
    OBVIOUS
  <2>1. f \in FrameType
    BY <2>f, FrameTypes DEF SlotOps
  <2>2. KeepsBelow(0) /\ Height = 0 /\ Fresh(0) = {1} /\ Down'[1] = f
    BY <1>2, <2>f, <2>1, Starts
  <2> QED BY <2>2, <2>f DEF Frame
<1>3. CASE \E w \in {None, "refused"} : stack' = <<Frame("release", s, w)>>
  BY <1>2, <1>3
<1>4. CASE HasRequestInFlight(q) /\ \E v \in {"KEEP_ALIVE", "CLOSE"} : stack' = <<Frame("complete", s, v)>>
  BY <1>2, <1>4
<1>5. CASE stack' = <<Frame("parseError", s, None)>>
  BY <1>2, <1>5
<1> QED BY <1>1, <1>3, <1>4, <1>5 DEF CallsFrom

\* An event that serves nobody.
LEMMA LoopServed ==
  ASSUME SInv, ServedInv, setup' = setup, KeepsBelow(0), Height = 0,
         \A p \in Fresh(0) : Down'[p].op # "erase",
         \A k \in Coalesced : pending'[k].waiters = pending[k].waiters,
         \A d \in Clients : client'[d].co = "waits" => \/ Stays(d) /\ client'[d].ep = client[d].ep
                                                       \/ AttendedAt(d)' /\ Stays(d)
  PROVE  ServedInv'
<1>1. Attended /\ Roused /\ FailAbove
  BY DEF ServedInv
<1>2. FailAbove'
  BY <1>1, FailNothing
<1>3. \A d \in Clients : client'[d].co = "waits" =>
         \/ Still(d)
         \/ /\ AttendedAt(d)'
            /\ \/ client'[d].async
               \/ client[d].co = "waits" /\ client'[d].async = client[d].async
  BY DEF Still, Stays
<1>4. Attended' /\ Roused'
  BY <1>1, <1>3, ServedQuietly
<1> QED BY <1>2, <1>4 DEF ServedInv

LEMMA HappensServed ==
  ASSUME SInv, ServedInv, setup' = setup, stack = <<>>, NEW s \in Slots, NEW x, Happens(s, x)
  PROVE  ServedInv'
<1>0. Typed
  BY DEF SInv
<1>1. \A k \in Coalesced : pending'[k].waiters = pending[k].waiters
  <2>1. pending' = pending \/ pending' = [pending EXCEPT ![x.registers].by = s]
    BY DEF Happens
  <2>k. PICK k : k = x.registers
    OBVIOUS
  <2>2. CASE pending' = pending
    BY <2>2
  <2>3. CASE pending' = [pending EXCEPT ![k].by = s]
    <3>1. pending \in [Coalesced -> [by : Slots \cup {None}, waiters : Seq(Tokens)]]
      BY <1>0 DEF Typed
    <3> QED BY <2>3, <3>1
  <2> QED BY <2>1, <2>k, <2>2, <2>3
<1>2. CASE ~x.unlinks
  <2>1. CallsFrom(s, x.slot, stack') /\ client' = client
    BY <1>2 DEF Happens, Effect
  <2>2. /\ KeepsBelow(0) /\ Height = 0
        /\ \A p \in Fresh(0) : Down'[p].op # "erase"
    <3>1. /\ KeepsBelow(0) /\ Height = 0
          /\ \/ Fresh(0) = {}
             \/ /\ Fresh(0) = {1} /\ Down'[1].on = s
                /\ Down'[1].op \in {"release", "complete", "parseError"}
      BY <2>1, LoopCalls
    <3> QED BY <3>1
  <2>3. \A d \in Clients : Stays(d) /\ client'[d].ep = client[d].ep
    BY <2>1, UnlinksNone
  <2> QED BY <1>1, <2>2, <2>3, LoopServed
<1>3. CASE x.unlinks
  <2>c. PICK c : c = slot[s].client
    OBVIOUS
  <2>f. PICK f, g : f = Frame("resume", c, None) /\ g = Frame("close", s, None)
    OBVIOUS
  <2>1. stack' = <<f, g>> /\ client' = [client EXCEPT ![c].ep = None]
    BY <1>3, <2>c, <2>f DEF Happens, Effect
  <2>2. c \in Clients \cup {None} /\ f \in FrameType /\ g \in FrameType
    <3>1. c \in Clients \cup {None}
      BY <1>0, <2>c DEF Typed, SlotShape
    <3> QED BY <2>f, <3>1, FrameTypes DEF SlotOps
  <2>3. /\ KeepsBelow(0) /\ Height = 0 /\ Fresh(0) = {1, 2} /\ Down'[1] = g /\ Down'[2] = f
    BY <2>1, <2>2, Starts
  <2>4. Unlinks(c)
    BY <1>0, <2>1, <2>2, UnlinksOne
  <2>5. Down'[1].op = "close" /\ Down'[2].op = "resume" /\ Down'[2].on = c
    BY <2>3, <2>f DEF Frame
  <2>6. AttendedAt(c)'
    BY <2>3, <2>5, FreshWakes
  <2>7. \A p \in Fresh(0) : Down'[p].op # "erase"
    BY <2>3, <2>5
  <2>8. \A d \in Clients : \/ Stays(d) /\ client'[d].ep = client[d].ep
                           \/ AttendedAt(d)' /\ Stays(d)
    BY <2>4, <2>6 DEF Unlinks
  <2> QED BY <1>1, <2>3, <2>7, <2>8, LoopServed
<1> QED BY <1>2, <1>3

LEMMA OpensServed ==
  ASSUME SInv, ServedInv, setup' = setup, stack = <<>>, NEW s \in Slots, NEW r, NEW y, NEW z,
         Opens(s, r, y, z)
  PROVE  ServedInv'
<1>1. CallsFrom(s, z.slot, stack') /\ client' = client /\ pending' = pending
  <2>1. CallsFrom(s, z.slot, z.calls)
    BY ConnectOutcome DEF Opens
  <2> QED BY <2>1 DEF Opens
<1>2. /\ KeepsBelow(0) /\ Height = 0
      /\ \A p \in Fresh(0) : Down'[p].op # "erase"
  <2>1. /\ KeepsBelow(0) /\ Height = 0
        /\ \/ Fresh(0) = {}
           \/ /\ Fresh(0) = {1} /\ Down'[1].on = s
              /\ Down'[1].op \in {"release", "complete", "parseError"}
    BY <1>1, LoopCalls
  <2> QED BY <2>1
<1>3. \A d \in Clients : Stays(d) /\ client'[d].ep = client[d].ep
  BY <1>1, UnlinksNone
<1> QED BY <1>1, <1>2, <1>3, LoopServed

\* Nothing happens, or one client is accepted, starts or ends a request.
LEMMA IdlesServed ==
  ASSUME SInv, ServedInv, setup' = setup, stack' = stack, pending' = pending, Height = 0,
         NEW e \in Clients, client'[e].co # "waits" \/ client'[e] = client[e],
         \A d \in Clients \ {e} : client'[d] = client[d]
  PROVE  ServedInv'
<1>1. KeepsBelow(0) /\ Fresh(0) = {}
  <2>1. Height' = 0
    BY DEF Height
  <2> QED BY <2>1 DEF KeepsBelow, Fresh
<1>2. \A d \in Clients : client'[d].co = "waits" => Stays(d) /\ client'[d].ep = client[d].ep
  BY DEF Stays
<1> QED BY <1>1, <1>2, LoopServed


LEMMA ReconnectServed ==
  ASSUME SInv, ServedInv, setup' = setup, NEW x \in reconnects, HandleReconnects(x)
  PROVE  ServedInv'
<1>s. PICK s : s = x.on
  OBVIOUS
<1>1. /\ stack = <<>> /\ s \in Slots
      /\ \/ slot' = slot /\ client' = client /\ pending' = pending /\ stack' = stack
         \/ \E y, z : Opens(s, [slot[s] EXCEPT !.awaiting = FALSE], y, z)
  BY <1>s, ReconnectFacts
<1>2. CASE client' = client /\ pending' = pending /\ stack' = stack
  <2>1. KeepsBelow(0) /\ Fresh(0) = {} /\ Height = 0
    <3>1. Height = 0 /\ Height' = 0
      BY <1>1, <1>2 DEF Height
    <3> QED BY <3>1 DEF KeepsBelow, Fresh
  <2>2. \A d \in Clients : Stays(d) /\ client'[d].ep = client[d].ep
    BY <1>2, UnlinksNone
  <2> QED BY <1>2, <2>1, <2>2, LoopServed
<1>3. CASE \E y, z : Opens(s, [slot[s] EXCEPT !.awaiting = FALSE], y, z)
  <2>1. PICK r, y, z : Opens(s, r, y, z)
    BY <1>3
  <2> QED BY <1>1, <2>1, OpensServed
<1> QED BY <1>1, <1>2, <1>3

\* A request starts its coroutine.
LEMMA RequestServed ==
  ASSUME SInv, ServedInv, setup' = setup, NEW c \in Clients, RequestArrives(c)
  PROVE  ServedInv'
<1>f. PICK f : f = Frame("run", c, "ok")
  OBVIOUS
<1>1. /\ stack = <<>> /\ stack' = <<f>> /\ pending' = pending
      /\ client' = [client EXCEPT ![c].co = "runs"]
  BY <1>f DEF RequestArrives, Take
<1>2. f \in FrameType /\ Typed
  BY <1>f, FrameTypes DEF SInv
<1>3. KeepsBelow(0) /\ Height = 0 /\ Fresh(0) = {1} /\ Down'[1] = f
  BY <1>1, <1>2, Starts
<1>4. \A p \in Fresh(0) : Down'[p].op # "erase"
  BY <1>3, <1>f DEF Frame
<1>5. client'[c].co = "runs" /\ \A d \in Clients \ {c} : client'[d] = client[d]
  BY <1>1, <1>2 DEF Typed, ClientShape, ClientFields
<1>6. \A d \in Clients : client'[d].co = "waits" => Stays(d) /\ client'[d].ep = client[d].ep
  BY <1>5 DEF Stays
<1> QED BY <1>1, <1>3, <1>4, <1>6, LoopServed

\* The connection of a client goes: asyncData first.
LEMMA ClientClosesServed ==
  ASSUME SInv, ServedInv, setup' = setup, NEW c \in Clients, ClientCloses(c)
  PROVE  ServedInv'
<1>f. PICK e, f, g : /\ e = Frame("unpin", c, client[c].pin) /\ f = Frame("detach", c, None)
                     /\ g = Frame("freeClient", c, None)
  OBVIOUS
<1>0. Attended /\ Roused /\ FailAbove /\ Typed
  BY DEF ServedInv, SInv
<1>1. /\ stack = <<>> /\ stack' = <<e, f, g>> /\ pending' = pending
      /\ client' = [client EXCEPT ![c].async = FALSE, ![c].pin = NoPin]
  BY <1>f DEF ClientCloses, Take
<1>2. e \in FrameType /\ f \in FrameType /\ g \in FrameType
  <2>1. client[c].pin \in Pins
    BY <1>0 DEF Typed, ClientShape
  <2> QED BY <1>f, <2>1, FrameTypes
<1>3. /\ KeepsBelow(0) /\ Height = 0 /\ Fresh(0) = {1, 2, 3}
      /\ Down'[1] = g /\ Down'[2] = f /\ Down'[3] = e /\ Height' = 3
  BY <1>1, <1>2, Starts
<1>4. \A p \in Fresh(0) : Down'[p].op # "erase"
  BY <1>3, <1>f DEF Frame
<1>5. FailAbove'
  BY <1>0, <1>3, <1>4, FailNothing
<1>6. Going(c)'
  BY <1>3, <1>f DEF Going, Depth, Frame
<1>7. \A k : Erasing(k)' <=> Erasing(k)
  BY <1>3, <1>4, ErasingSame
<1>8. \A d \in Clients \ {c} : client'[d] = client[d]
  BY <1>0, <1>1 DEF Typed
<1>9. ASSUME NEW d \in Clients, client'[d].co = "waits"
      PROVE  /\ Undisturbed(d) \/ AttendedAt(d)'
             /\ \/ client'[d].async \/ Going(d)'
                \/ client[d].co = "waits" /\ client'[d].async = client[d].async
  <2>1. CASE d = c
    BY <1>6, <2>1 DEF AttendedAt
  <2>2. CASE d # c
    <3>1. client'[d] = client[d]
      BY <1>8, <2>2
    <3>2. \A k \in Coalesced : ~Erasing(k) /\ Parked(k, d) => ~Erasing(k)' /\ Parked(k, d)'
      BY <1>1, <1>7, <3>1 DEF Parked
    <3> QED BY <1>3, <1>9, <3>1, <3>2 DEF Undisturbed, Still
  <2> QED BY <2>1, <2>2
<1>10. Attended' /\ Roused'
  BY <1>0, <1>3, <1>9, ServedStep
<1> QED BY <1>5, <1>10 DEF ServedInv

LEMMA LoopStepServed ==
  ASSUME SInv, ServedInv, setup' = setup, LoopStep
  PROVE  ServedInv'
<1>0. Typed
  BY DEF SInv
<1>1. ASSUME NEW s \in Slots, PrewarmSlot(s)
      PROVE  ServedInv'
  <2>1. stack = <<>> /\ \E y, z : Opens(s, Lease(slot[s]), y, z)
    BY <1>1, PrewarmFacts
  <2>2. PICK r, y, z : Opens(s, r, y, z)
    BY <2>1
  <2> QED BY <2>1, <2>2, OpensServed
<1>2. ASSUME NEW s \in Slots, EndpointEvent(s)
      PROVE  ServedInv'
  <2>1. stack = <<>> /\ \E x : Happens(s, x)
    BY <1>2, EventFacts
  <2> QED BY <2>1, HappensServed
<1>3. ASSUME NEW s \in Slots, SlotExpires(s)
      PROVE  ServedInv'
  <2>1. stack = <<>> /\ \E x : Happens(s, x)
    BY <1>3, ExpiryFacts
  <2> QED BY <2>1, HappensServed
<1>4. ASSUME StaleEvent
      PROVE  ServedInv'
  <2>1. /\ stack = <<>> /\ stack' = stack /\ client' = client /\ pending' = pending
    BY <1>4 DEF StaleEvent, Take
  <2>2. KeepsBelow(0) /\ Fresh(0) = {} /\ Height = 0
    <3>1. Height = 0 /\ Height' = 0
      BY <2>1 DEF Height
    <3> QED BY <3>1 DEF KeepsBelow, Fresh
  <2>3. \A d \in Clients : Stays(d) /\ client'[d].ep = client[d].ep
    BY <2>1, UnlinksNone
  <2> QED BY <2>1, <2>2, <2>3, LoopServed
<1>5. ASSUME NEW c \in Clients, ClientAccepted(c) \/ ResponseSent(c)
      PROVE  ServedInv'
  <2>1. stack = <<>> /\ stack' = stack /\ pending' = pending
    BY <1>5 DEF ClientAccepted, ResponseSent, Take
  <2>2. client'[c].co # "waits" /\ \A d \in Clients \ {c} : client'[d] = client[d]
    <3>1. CASE ClientAccepted(c)
      BY <1>0, <3>1 DEF ClientAccepted, NoClient, Typed
    <3>2. CASE ResponseSent(c)
      BY <1>0, <3>2 DEF ResponseSent, Typed, ClientShape, ClientFields
    <3> QED BY <1>5, <3>1, <3>2
  <2>3. Height = 0
    BY <2>1 DEF Height
  <2> QED BY <2>1, <2>2, <2>3, IdlesServed
<1> QED BY <1>1, <1>2, <1>3, <1>4, <1>5, ReconnectServed, RequestServed, ClientClosesServed
        DEF LoopStep


-------------------------------------------------------------------------------
(* No client is forgotten. *)

\* Handlers that call again after a failure share no requests, and hold nothing.
Patient == ~Retries \/ (~Pinning /\ Coalesced = {})

LEMMA HandlerServed ==
  ASSUME SInv, ServedInv, setup' = setup, HandlerStep
  PROVE  ServedInv'
BY DetachServed, FreeClientServed, ReleaseSlotServed, ResumeServed, WaitersServed,
   CompleteServed, FinishServed, ParseErrorServed, CloseSlotServed, ReleaseServed,
   EraseServed, NotifyServed, FreeSlotServed DEF HandlerStep

LEMMA CoroutineStepServed ==
  ASSUME SInv, ServedInv, setup' = setup, Patient, NEW c \in Clients, CoroutineStep(c)
  PROVE  ServedInv'
<1>1. ~Retries \/ Coalesced = {}
  BY DEF Patient
<1> QED BY <1>1, SendRefusedServed, SendCoalescedServed, SendServed, SendUnserializableServed,
           ReserveServed, UnpinsServed, ReturnsServed DEF CoroutineStep

LEMMA ServedSame ==
  ASSUME SInv, ServedInv, UNCHANGED <<vars, setup>>
  PROVE  ServedInv'
<1>1. /\ client' = client /\ pending' = pending /\ stack' = stack /\ setup' = setup
  BY DEF vars
<1>2. /\ Down' = Down /\ Depth' = Depth /\ Coalesced' = Coalesced
  BY <1>1, SetupKept DEF Down, Depth, Height
<1>3. /\ \A p, c : Woken(p, c)' <=> Woken(p, c)
      /\ \A k, c : Parked(k, c)' <=> Parked(k, c)
      /\ \A k : Erasing(k)' <=> Erasing(k)
      /\ \A c : Going(c)' <=> Going(c)
  BY <1>1, <1>2 DEF Woken, Parked, Erasing, Going
<1>4. Attended' /\ Roused'
  BY <1>1, <1>2, <1>3 DEF ServedInv, Attended, AttendedAt, Roused
<1>5. FailAbove'
  BY <1>2 DEF ServedInv, FailAbove, Failing
<1> QED BY <1>4, <1>5 DEF ServedInv

LEMMA ServedInit ==
  ASSUME Init
  PROVE  ServedInv
<1>1. stack = <<>> /\ client = [c \in Clients |-> [NoClient EXCEPT !.live = TRUE, !.gen = 1]]
  BY DEF Init
<1>2. Depth = {}
  BY <1>1 DEF Depth, Height
<1>3. \A c \in Clients : client[c].co = "none"
  BY <1>1 DEF NoClient
<1> QED BY <1>2, <1>3 DEF ServedInv, Attended, Roused, FailAbove

LEMMA PatientTame ==
  ASSUME Patient
  PROVE  Tame
BY DEF Patient, Tame

LEMMA ServedHolds == Spec => [](Patient => SInv /\ ServedInv)
<1>1. Init => (Patient => SInv /\ ServedInv)
  BY InitInv, ServedInit
<1>2. (Patient => SInv /\ ServedInv) /\ [Next]_<<vars, setup>>
         => (Patient => SInv /\ ServedInv)'
  <2> SUFFICES ASSUME Patient => SInv /\ ServedInv, [Next]_<<vars, setup>>, Patient'
               PROVE  SInv' /\ ServedInv'
    OBVIOUS
  <2>1. setup' = setup
    BY DEF Next, vars
  <2>2. Patient /\ SInv /\ ServedInv /\ Tame
    BY <2>1, SetupKept, PatientTame DEF Patient
  <2>3. SInv'
    BY <2>2, NextInv
  <2>4. CASE Next
    <3>1. LoopStep \/ HandlerStep \/ \E c \in Clients : CoroutineStep(c)
      BY <2>4 DEF Next
    <3>2. ServedInv'
      BY <2>1, <2>2, <3>1, LoopStepServed, HandlerServed, CoroutineStepServed
    <3> QED BY <2>3, <3>2
  <2>5. CASE UNCHANGED <<vars, setup>>
    BY <2>2, <2>3, <2>5, ServedSame
  <2> QED BY <2>4, <2>5
<1> QED BY <1>1, <1>2, PTL DEF Spec

\* No request is forgotten: when the event loop waits, every suspended client is
\* served by a slot, or parked under a key that is in flight (SendPayload,
\* ReleaseEndpoint with FailCoalesceWaiters, CompleteSingleSlotRequest).  Handlers
\* that call again after a failure are let in only where nothing is coalesced: the
\* entry such a call would join is erased under it (run ep_retrying_waiter).
THEOREM NoneLost == Spec => [](Patient => NoLostClient)
<1>1. SInv /\ ServedInv => NoLostClient
  <2> SUFFICES ASSUME SInv, ServedInv, stack = <<>>, NEW c \in Clients, client[c].co = "waits"
               PROVE  \/ \E s \in Slots : slot[s].client = c
                      \/ \E k \in Coalesced : /\ pending[k].by # None
                                              /\ \E i \in 1 .. Len(pending[k].waiters) :
                                                   pending[k].waiters[i] = Source(c, client[c].gen)
    BY DEF NoLostClient, Quiet
  <2>1. Depth = {} /\ Typed /\ \A k : ~Erasing(k)
    BY QuietFacts
  <2>2. AttendedAt(c)
    BY DEF ServedInv, Attended
  <2>3. CASE client[c].ep # None
    <3>1. client[c].ep \in Slots
      BY <2>1, <2>3 DEF Typed, ClientShape
    <3> QED BY <3>1 DEF SInv, Linked
  <2>4. CASE \E k \in Coalesced : Parked(k, c)
    <3>1. PICK k \in Coalesced : Parked(k, c)
      BY <2>4
    <3>w. PICK w, g : w = pending[k].waiters /\ g = client[c].gen
      OBVIOUS
    <3>2. w \in Seq(Tokens) /\ Waits(w, c, g)
      BY <2>1, <3>1, <3>w DEF Typed, Parked
    <3>3. PICK j \in 1 .. Len(w) : w[j].on = c /\ w[j].gen = g
      BY <3>2 DEF Waits
    <3>4. w[j] \in Tokens
      BY <3>2
    <3>5. w[j] = Source(c, g)
      BY <3>3, <3>4 DEF Tokens, Source
    <3>6. pending[k].by # None
      <4>1. w # <<>>
        BY <3>2, WaitsEmpty
      <4> QED BY <3>1, <3>w, <4>1 DEF SInv, ParkedOnce
    <3> QED BY <3>1, <3>w, <3>3, <3>5, <3>6
  <2> QED BY <2>1, <2>2, <2>3, <2>4 DEF AttendedAt, Going
<1>2. (Patient => SInv /\ ServedInv) => (Patient => NoLostClient)
  BY <1>1
<1> QED BY <1>2, ServedHolds, PTL


-------------------------------------------------------------------------------
(* The gauge of leased slots, where nothing is pinned and every event is      *)
(* handled before the next is asked for.                                      *)

Plain == ~Pinning /\ MaxEvents = 1

Freeing(s) == \E p \in Depth : Down[p].op = "free" /\ Down[p].on = s

\* A slot that has not been given up.
Busy(r) == r.leased \/ r.pooledIdle

\* A leased slot is counted, until ReleaseEndpoint uncounts it to free it; a slot
\* that is neither leased nor pooled has no events and no timer any more; and the
\* answer to an aborted request is still awaited on a leased slot.
CountedAt(s) ==
    /\ slot[s].inUse = IF slot[s].leased /\ ~Freeing(s) THEN 1 ELSE 0
    /\ ~(slot[s].leased /\ slot[s].pooledIdle)
    /\ Freeing(s) => ~slot[s].pooledIdle /\ slot[s].timer = "none"
    /\ ~Busy(slot[s]) /\ ~Freeing(s) => slot[s].ev = "ACCEPT" /\ slot[s].timer = "none"
    /\ slot[s].aborted => slot[s].leased /\ ~Dialling(slot[s])

\* What the slot of a frame must still be when the frame goes on.
Backed(f) ==
    /\ f.op \in {"complete", "finish"} => slot[f.on].leased
    /\ f.op \in {"release", "close", "parseError"} => Busy(slot[f.on])

CountInv ==
    /\ batch = <<>>
    /\ \A s \in Slots : CountedAt(s)
    /\ \A p \in Depth : Backed(Down[p])

\* One frame at a time works on a slot, but for the last two of a release.
LEMMA Alone ==
  ASSUME SInv, ~Pinning, NEW p \in Depth, NEW q \in Depth, p < q,
         Down[p].op \in SlotOps, Down[q].op \in SlotOps, Down[p].on = Down[q].on
  PROVE  q = p + 1 /\ Down[p].op = "free" /\ Down[q].op = "notify"
  BY DEF SInv, NotTaken

LEMMA FreeingSame ==
  ASSUME NEW b, KeepsBelow(b), NEW s,
         Height > 0 /\ Down[Height].op = "free" => Down[Height].on # s,
         \A p \in Fresh(b) : Down'[p].op = "free" => Down'[p].on # s
  PROVE  Freeing(s)' <=> Freeing(s)
<1>1. Freeing(s) => Freeing(s)'
  BY DEF Freeing, KeepsBelow, Depth
<1>2. Freeing(s)' => Freeing(s)
  BY DEF Freeing, KeepsBelow, Depth, Fresh
<1> QED BY <1>1, <1>2

\* What is left to show when a step changes slot t and the top of the stack.
LEMMA CountStep ==
  ASSUME CountInv, batch' = batch, NEW b, KeepsBelow(b), NEW t,
         \A s \in Slots \ {t} : slot'[s] = slot[s],
         Height > 0 /\ Down[Height].op = "free" => Down[Height].on = t,
         \A p \in Fresh(b) : Down'[p].op = "free" => Down'[p].on = t,
         t \in Slots => CountedAt(t)',
         \A p \in 1 .. b : Down[p].op \in SlotOps => Down[p].on \in Slots,
         \A p \in 1 .. b : Down[p].op \in SlotOps /\ Down[p].on = t => Backed(Down[p])',
         \A p \in Fresh(b) : Backed(Down[p])'
  PROVE  CountInv'
<1>1. ASSUME NEW s \in Slots
      PROVE  CountedAt(s)'
  <2>1. CASE s # t
    <3>1. Freeing(s)' <=> Freeing(s)
      BY <2>1, FreeingSame
    <3>2. slot'[s] = slot[s]
      BY <2>1
    <3> QED BY <3>1, <3>2 DEF CountInv, CountedAt
  <2> QED BY <2>1
<1>2. ASSUME NEW p \in Depth'
      PROVE  Backed(Down[p])'
  <2>1. CASE p \in Fresh(b)
    BY <2>1
  <2>2. CASE p \notin Fresh(b)
    <3>1. p \in 1 .. b /\ p \in Depth /\ Down'[p] = Down[p]
      BY <2>2 DEF KeepsBelow, Fresh, Depth
    <3>2. CASE Down[p].op \in SlotOps
      <4>1. CASE Down[p].on # t
        <5>1. slot'[Down[p].on] = slot[Down[p].on]
          BY <3>1, <3>2, <4>1
        <5>2. Backed(Down[p])
          BY <3>1 DEF CountInv
        <5> QED BY <3>1, <5>1, <5>2 DEF Backed
      <4>2. CASE Down[p].on = t
        BY <3>1, <3>2, <4>2
      <4> QED BY <4>1, <4>2
    <3>3. CASE Down[p].op \notin SlotOps
      BY <3>1, <3>3 DEF Backed, SlotOps
    <3> QED BY <3>2, <3>3
  <2> QED BY <2>1, <2>2
<1> QED BY <1>1, <1>2 DEF CountInv

\* ... and when no slot changes, and nothing on the stack will touch one.
LEMMA CountApart ==
  ASSUME SInv, CountInv, batch' = batch, NEW b, KeepsBelow(b), slot' = slot,
         Height > 0 => Down[Height].op # "free",
         \A p \in Fresh(b) : Down'[p].op \notin SlotOps
  PROVE  CountInv'
<1>1. \A p \in 1 .. b : Down[p].op \in SlotOps => Down[p].on \in Slots
  <2>1. \A p \in 1 .. b : p \in Depth
    BY DEF KeepsBelow, Depth
  <2> QED BY <2>1, FramesTyped, FrameFacts DEF SInv
<1>2. None \notin Slots
  BY SetsAssumption
<1>3. \A p \in Fresh(b) : Backed(Down[p])' /\ Down'[p].op # "free"
  BY DEF Backed, SlotOps
<1>4. \A p \in 1 .. b : ~(Down[p].op \in SlotOps /\ Down[p].on = None)
  BY <1>1, <1>2
<1> QED BY <1>1, <1>2, <1>3, <1>4, CountStep


\* The handlers and coroutines that touch no slot.
LEMMA WakingCounts ==
  ASSUME SInv, CountInv, Resume \/ Waiters
  PROVE  CountInv'
<1>h. PICK h, c, a : h = Height /\ c = Down[h].on /\ a = Down[h].arg
  OBVIOUS
<1>0. Typed
  BY DEF SInv
<1>1. CASE Resume
  <2>1. /\ h \in Nat \ {0} /\ KeepsBelow(h - 1) /\ Down[h].op = "resume"
        /\ slot' = slot /\ batch' = batch
        /\ \/ /\ Fresh(h - 1) = {h}
              /\ Down'[h] = Frame("run", c, IF a = None THEN "failed" ELSE "ok")
           \/ Fresh(h - 1) = {}
    BY <1>h, <1>0, <1>1, ResumeFacts
  <2>2. \A p \in Fresh(h - 1) : Down'[p].op = "run"
    BY <2>1 DEF Frame
  <2> QED BY <1>h, <2>1, <2>2, CountApart DEF SlotOps
<1>2. CASE Waiters
  <2>1. /\ h \in Nat \ {0} /\ KeepsBelow(h - 1) /\ Down[h].op = "waiters"
        /\ slot' = slot /\ batch' = batch
        /\ \/ Fresh(h - 1) = {}
           \/ Fresh(h - 1) = {h} /\ Down'[h] = Frame("waiters", Tail(c), a)
           \/ /\ Fresh(h - 1) = {h, h + 1} /\ Down'[h] = Frame("waiters", Tail(c), a)
              /\ Down'[h + 1] = Frame("resume", Head(c).on, a)
    BY <1>h, <1>0, <1>2, WaitersFacts
  <2>2. \A p \in Fresh(h - 1) : Down'[p].op \in {"waiters", "resume"}
    BY <2>1 DEF Frame
  <2> QED BY <1>h, <2>1, <2>2, CountApart DEF SlotOps
<1> QED BY <1>1, <1>2

LEMMA QuietCounts ==
  ASSUME SInv, CountInv, ~Pinning, EraseEntry \/ FreeClient \/ ReleaseSlot
  PROVE  CountInv'
<1>h. PICK h, c : h = Height /\ c = Down[h].on
  OBVIOUS
<1>0. Typed
  BY DEF SInv
<1>1. /\ h \in Nat \ {0} /\ KeepsBelow(h - 1) /\ Down[h].op \in {"erase", "freeClient", "unpin"}
      /\ slot' = slot /\ batch' = batch /\ Fresh(h - 1) = {}
  <2>1. CASE EraseEntry
    BY <1>h, <1>0, <2>1, EraseFacts
  <2>2. CASE FreeClient
    BY <1>h, <1>0, <2>2, FreeClientFacts
  <2>3. CASE ReleaseSlot
    BY <1>h, <2>3, ReleaseSlotFacts
  <2> QED BY <2>1, <2>2, <2>3
<1> QED BY <1>1, <1>h, CountApart

LEMMA CoroutineCounts ==
  ASSUME SInv, CountInv, NEW c \in Clients,
         \/ SendRefused(c) \/ (\E req \in Reqs : SendCoalesced(c, req))
         \/ Unpins(c) \/ Returns(c)
  PROVE  CountInv'
<1>h. PICK h, g : h = Height /\ g = Down[h]
  OBVIOUS
<1>1. Runs(c)
  BY DEF SendRefused, SendCoalesced, Calls, Unpins, Returns
<1>2. h \in Nat \ {0} /\ g.op = "run"
  BY <1>h, <1>1, RunsFacts
<1>3. /\ KeepsBelow(h - 1) /\ slot' = slot /\ batch' = batch
      /\ \/ Fresh(h - 1) = {}
         \/ Fresh(h - 1) = {h} /\ Down'[h] = Frame("run", c, "failed")
         \/ /\ Fresh(h - 1) = {h, h + 1} /\ Down'[h] = g
            /\ Down'[h + 1] = Frame("unpin", c, client[c].pin)
  <2>1. CASE SendRefused(c)
    BY <1>h, <2>1, SendRefusedFacts
  <2>2. CASE \E req \in Reqs : SendCoalesced(c, req)
    BY <1>h, <2>2, SendCoalescedFacts
  <2>3. CASE Unpins(c)
    BY <1>h, <2>3, UnpinsFacts
  <2>4. CASE Returns(c)
    BY <1>h, <2>4, ReturnsFacts
  <2> QED BY <2>1, <2>2, <2>3, <2>4
<1>4. \A p \in Fresh(h - 1) : Down'[p].op \in {"run", "unpin"}
  BY <1>2, <1>3 DEF Frame
<1> QED BY <1>h, <1>2, <1>3, <1>4, CountApart DEF SlotOps

\* A batch is one event.
LEMMA TakeOne ==
  ASSUME Plain, CountInv, NEW x, Take(x)
  PROVE  stack = <<>> /\ batch' = batch /\ x \in Readable \cup {Source(None, 0)}
BY DEF Plain, CountInv, Take

LEMMA ClientsCount ==
  ASSUME SInv, CountInv, Plain, NEW c \in Clients,
         ClientAccepted(c) \/ RequestArrives(c) \/ ResponseSent(c) \/ ClientCloses(c)
  PROVE  CountInv'
<1>0. Typed
  BY DEF SInv
<1>f. PICK e, f, g, k : /\ e = Frame("unpin", c, client[c].pin) /\ f = Frame("detach", c, None)
                        /\ g = Frame("freeClient", c, None) /\ k = Frame("run", c, "ok")
  OBVIOUS
<1>1. stack = <<>> /\ batch' = batch /\ slot' = slot
  BY TakeOne DEF ClientAccepted, RequestArrives, ResponseSent, ClientCloses
<1>2. stack' = <<>> \/ stack' = <<k>> \/ stack' = <<e, f, g>>
  BY <1>1, <1>f DEF ClientAccepted, RequestArrives, ResponseSent, ClientCloses
<1>3. e \in FrameType /\ f \in FrameType /\ g \in FrameType /\ k \in FrameType
  <2>1. client[c].pin \in Pins
    BY <1>0 DEF Typed, ClientShape
  <2> QED BY <1>f, <2>1, FrameTypes
<1>4. /\ KeepsBelow(0) /\ Height = 0
      /\ \/ Fresh(0) = {}
         \/ Fresh(0) = {1} /\ Down'[1] = k
         \/ Fresh(0) = {1, 2, 3} /\ Down'[1] = g /\ Down'[2] = f /\ Down'[3] = e
  BY <1>1, <1>2, <1>3, Starts
<1>5. \A p \in Fresh(0) : Down'[p].op \in {"run", "unpin", "detach", "freeClient"}
  BY <1>4, <1>f DEF Frame
<1> QED BY <1>1, <1>4, <1>5, CountApart DEF SlotOps

\* Without a batch no event is stale.
LEMMA StaleCounts ==
  ASSUME CountInv, StaleEvent
  PROVE  FALSE
BY DEF CountInv, StaleEvent


\* A step that leaves what the gauge is about as it is.
Alike(r, q) ==
    /\ Kept(r, q) /\ q.timer = r.timer /\ q.aborted = r.aborted
    /\ q.ev = r.ev /\ q.onconn = r.onconn /\ q.awaiting = r.awaiting

LEMMA CountAlike ==
  ASSUME SInv, CountInv, batch' = batch, NEW b, KeepsBelow(b), NEW t \in Slots,
         \A s \in Slots \ {t} : slot'[s] = slot[s], Alike(slot[t], slot'[t]),
         Height > 0 => Down[Height].op # "free",
         \A p \in Fresh(b) : Down'[p].op # "free" /\ Backed(Down[p])'
  PROVE  CountInv'
<1>1. Freeing(t)' <=> Freeing(t)
  BY FreeingSame
<1>2. CountedAt(t)'
  <2>1. CountedAt(t)
    BY DEF CountInv
  <2> QED BY <1>1, <2>1 DEF CountedAt, Alike, Kept, Busy, Dialling, IsConnecting
<1>3. \A p \in 1 .. b : Down[p].op \in SlotOps => Down[p].on \in Slots
  <2>1. \A p \in 1 .. b : p \in Depth
    BY DEF KeepsBelow, Depth
  <2> QED BY <2>1, FramesTyped, FrameFacts DEF SInv
<1>4. ASSUME NEW p \in 1 .. b, Down[p].op \in SlotOps, Down[p].on = t
      PROVE  Backed(Down[p])'
  <2>1. Backed(Down[p]) /\ Down'[p] = Down[p]
    BY DEF CountInv, KeepsBelow, Depth
  <2> QED BY <1>4, <2>1 DEF Backed, Alike, Kept, Busy
<1> QED BY <1>2, <1>3, <1>4, CountStep

LEMMA NotifyCounts ==
  ASSUME SInv, CountInv, NotifyClient
  PROVE  CountInv'
<1>h. PICK h, s, c : h = Height /\ s = Down[h].on /\ c = slot[s].client
  OBVIOUS
<1>0. Typed
  BY DEF SInv
<1>1. /\ h \in Nat \ {0} /\ KeepsBelow(h - 1) /\ Down[h].op = "notify" /\ s \in Slots
      /\ slot' = [slot EXCEPT ![s].client = None] /\ batch' = batch
      /\ Fresh(h - 1) = {h} /\ Down'[h] = Frame("resume", c, None)
  BY <1>h, <1>0, NotifyFacts
<1>2. Alike(slot[s], slot'[s]) /\ \A t \in Slots \ {s} : slot'[t] = slot[t]
  BY <1>0, <1>1 DEF Typed, SlotShape, SlotFields, Alike, Kept
<1>3. \A p \in Fresh(h - 1) : Down'[p].op # "free" /\ Backed(Down[p])'
  <2>1. Down'[h].op = "resume"
    BY <1>1 DEF Frame
  <2> QED BY <1>1, <2>1 DEF Backed
<1> QED BY <1>1, <1>2, <1>3, <1>h, CountAlike

LEMMA CloseSlotCounts ==
  ASSUME SInv, CountInv, CloseSlot
  PROVE  CountInv'
<1>h. PICK h, s : h = Height /\ s = Down[h].on
  OBVIOUS
<1>0. Typed
  BY DEF SInv
<1>1. /\ h \in Nat \ {0} /\ KeepsBelow(h - 1) /\ Down[h].op = "close" /\ h \in Depth
      /\ s \in Slots /\ batch' = batch
      /\ slot' = [slot EXCEPT ![s] = [slot[s] EXCEPT !.shutting = TRUE, !.ssl = FALSE]]
      /\ Fresh(h - 1) = {h} /\ Down'[h] = Frame("release", s, None)
  BY <1>h, <1>0, CloseSlotFacts
<1>2. Alike(slot[s], slot'[s]) /\ \A t \in Slots \ {s} : slot'[t] = slot[t]
  BY <1>0, <1>1 DEF Typed, SlotShape, SlotFields, Alike, Kept
<1>3. Busy(slot[s])
  BY <1>1, <1>h DEF CountInv, Backed
<1>4. \A p \in Fresh(h - 1) : Down'[p].op # "free" /\ Backed(Down[p])'
  <2>1. Down'[h].op = "release" /\ Down'[h].on = s
    BY <1>1 DEF Frame
  <2> QED BY <1>1, <1>2, <1>3, <2>1 DEF Backed, Busy, Alike, Kept
<1> QED BY <1>1, <1>2, <1>4, <1>h, CountAlike

LEMMA ParseErrorCounts ==
  ASSUME SInv, CountInv, ParseError
  PROVE  CountInv'
<1>h. PICK h, s, c : h = Height /\ s = Down[h].on /\ c = slot[s].client
  OBVIOUS
<1>0. Typed
  BY DEF SInv
<1>1. /\ h \in Nat \ {0} /\ KeepsBelow(h - 1) /\ Down[h].op = "parseError"
      /\ s \in Slots /\ batch' = batch
      /\ slot' = [slot EXCEPT ![s].client = None]
      /\ Fresh(h - 1) = {h, h + 1}
      /\ Down'[h] = Frame("close", s, None) /\ Down'[h + 1] = Frame("resume", c, None)
  BY <1>h, <1>0, ParseErrorFacts
<1>2. Alike(slot[s], slot'[s]) /\ \A t \in Slots \ {s} : slot'[t] = slot[t]
  BY <1>0, <1>1 DEF Typed, SlotShape, SlotFields, Alike, Kept
<1>3. Busy(slot[s])
  BY <1>1, <1>h DEF CountInv, Backed, Depth
<1>4. \A p \in Fresh(h - 1) : Down'[p].op # "free" /\ Backed(Down[p])'
  <2>1. Down'[h].op = "close" /\ Down'[h].on = s /\ Down'[h + 1].op = "resume"
    BY <1>1 DEF Frame
  <2> QED BY <1>1, <1>2, <1>3, <2>1 DEF Backed, Busy, Alike, Kept
<1> QED BY <1>1, <1>2, <1>4, <1>h, CountAlike

LEMMA CompleteCounts ==
  ASSUME SInv, CountInv, Complete
  PROVE  CountInv'
<1>h. PICK s, c, k, o, a : /\ s = Down[Height].on /\ c = slot[s].client /\ k = slot[s].key
                           /\ o = slot[s].owes /\ a = Down[Height].arg
  OBVIOUS
<1>0. Typed /\ Placed
  BY DEF SInv
<1>1. /\ Height = 1 /\ KeepsBelow(0) /\ Down[1].op = "complete"
      /\ s \in Slots /\ batch' = batch
      /\ slot' = [slot EXCEPT ![s] = Completed(slot[s])]
      /\ Fresh(0) = {1, 2, 3}
      /\ Down'[1] = Frame("resume", c, o) /\ Down'[2] = Frame("finish", s, a)
      /\ Down'[3] = Frame("waiters", WaitersOf(k), o)
  BY <1>h, <1>0, CompleteFacts
<1>2. Alike(slot[s], slot'[s]) /\ \A t \in Slots \ {s} : slot'[t] = slot[t]
  BY <1>0, <1>1 DEF Typed, SlotShape, SlotFields, Alike, Kept, Completed
<1>3. slot[s].leased
  BY <1>1, <1>h DEF CountInv, Backed, Depth
<1>4. \A p \in Fresh(0) : Down'[p].op # "free" /\ Backed(Down[p])'
  <2>1. Down'[1].op = "resume" /\ Down'[2].op = "finish" /\ Down'[2].on = s /\ Down'[3].op = "waiters"
    BY <1>1 DEF Frame
  <2> QED BY <1>1, <1>2, <1>3, <2>1 DEF Backed, Alike, Kept
<1> QED BY <1>1, <1>2, <1>4, CountAlike


LEMMA FreeSlotCounts ==
  ASSUME SInv, CountInv, ~Pinning, FreeSlot
  PROVE  CountInv'
<1>h. PICK h, s : h = Height /\ s = Down[h].on
  OBVIOUS
<1>0. Typed
  BY DEF SInv
<1>1. /\ h \in Nat \ {0} /\ KeepsBelow(h - 1) /\ Down[h].op = "free" /\ h \in Depth
      /\ s \in Slots /\ slot' = [slot EXCEPT ![s] = Reset(slot[s])] /\ batch' = batch
      /\ Fresh(h - 1) = {}
  BY <1>h, <1>0, FreeSlotFacts
<1>2. \A p \in 1 .. h - 1 : ~(Down[p].op \in SlotOps /\ Down[p].on = s)
  <2>1. \A p \in 1 .. h - 1 : p \in Depth /\ p < h
    BY <1>1, <1>h DEF Depth
  <2> QED BY <1>1, <1>h, <2>1, Alone DEF SlotOps
<1>3. Freeing(s) /\ ~Freeing(s)'
  <2>1. Freeing(s)
    BY <1>1, <1>h DEF Freeing
  <2>2. ASSUME NEW p \in Depth', Down'[p].op = "free", Down'[p].on = s
        PROVE  FALSE
    <3>1. p \in 1 .. h - 1 /\ Down'[p] = Down[p]
      BY <1>1 DEF KeepsBelow, Fresh, Depth
    <3> QED BY <1>2, <2>2, <3>1 DEF SlotOps
  <2> QED BY <2>1, <2>2 DEF Freeing
<1>4. \A t \in Slots \ {s} : slot'[t] = slot[t]
  BY <1>0, <1>1 DEF Typed
<1>5. /\ ~slot'[s].leased /\ slot'[s].pooledIdle = slot[s].pooledIdle /\ slot'[s].ev = "ACCEPT"
      /\ slot'[s].inUse = slot[s].inUse /\ slot'[s].timer = slot[s].timer /\ ~slot'[s].aborted
  BY <1>0, <1>1 DEF Typed, Reset, Closed
<1>6. CountedAt(s)'
  <2>1. CountedAt(s)
    BY <1>1 DEF CountInv
  <2> QED BY <1>3, <1>5, <2>1 DEF CountedAt, Busy
<1>7. \A p \in 1 .. h - 1 : Down[p].op \in SlotOps => Down[p].on \in Slots
  <2>1. \A p \in 1 .. h - 1 : p \in Depth
    BY <1>1, <1>h DEF Depth
  <2> QED BY <1>0, <2>1, FramesTyped, FrameFacts
<1> QED BY <1>1, <1>2, <1>4, <1>6, <1>7, <1>h, CountStep

LEMMA ReleaseCounts ==
  ASSUME SInv, CountInv, ~Pinning, ReleaseEndpoint
  PROVE  CountInv'
<1>h. PICK h, s, k : h = Height /\ s = Down[h].on /\ k = slot[s].key
  OBVIOUS
<1>0. Typed
  BY DEF SInv
<1>1. /\ h \in Nat \ {0} /\ KeepsBelow(h - 1) /\ Down[h].op = "release"
      /\ s \in Slots /\ batch' = batch
      /\ slot' = [slot EXCEPT ![s] = Released(slot[s])]
      /\ Down'[h] = Frame("free", s, None) /\ Down'[h + 1] = Frame("notify", s, None)
      /\ \/ Fresh(h - 1) = {h, h + 1}
         \/ /\ Fresh(h - 1) = {h, h + 1, h + 2, h + 3}
            /\ Down'[h + 2] = Frame("erase", k, None)
            /\ Down'[h + 3] = Frame("waiters", pending[k].waiters, None)
  BY <1>h, <1>0, ReleaseFacts
<1>2. h \in Depth /\ \A p \in 1 .. h - 1 : ~(Down[p].op \in SlotOps /\ Down[p].on = s)
  <2>1. h \in Depth /\ \A p \in 1 .. h - 1 : p \in Depth /\ p < h
    BY <1>1, <1>h DEF Depth
  <2> QED BY <1>1, <1>h, <2>1, Alone DEF SlotOps
<1>3. ~Freeing(s) /\ Freeing(s)'
  <2>1. ASSUME NEW p \in Depth, Down[p].op = "free", Down[p].on = s
        PROVE  FALSE
    <3>1. p \in 1 .. h - 1
      BY <1>1, <1>h, <2>1 DEF Depth
    <3> QED BY <1>2, <2>1, <3>1 DEF SlotOps
  <2>2. h \in Depth' /\ Down'[h].op = "free" /\ Down'[h].on = s
    <3>1. h \in Fresh(h - 1)
      BY <1>1
    <3> QED BY <1>1, <3>1 DEF Fresh, Depth, Frame
  <2> QED BY <2>1, <2>2 DEF Freeing
<1>4. \A t \in Slots \ {s} : slot'[t] = slot[t]
  BY <1>0, <1>1 DEF Typed
<1>r. PICK r, q : r = slot[s] /\ q = slot'[s]
  OBVIOUS
<1>5. /\ q.leased = r.leased /\ ~q.pooledIdle /\ q.timer = "none" /\ q.aborted = r.aborted
      /\ q.ev = r.ev /\ q.onconn = r.onconn /\ q.awaiting = r.awaiting
      /\ r.pooledIdle => q.inUse = r.inUse - 0
      /\ ~r.pooledIdle => q.inUse = r.inUse - 1
  <2>1. q = Released(r) /\ DOMAIN r = SlotFields
    BY <1>0, <1>1, <1>r DEF Typed, SlotShape
  <2> QED BY <2>1 DEF Released, SlotFields
<1>6. Busy(r)
  BY <1>1, <1>2, <1>h, <1>r DEF CountInv, Backed
<1>7. CountedAt(s)'
  <2>1. CountedAt(s)
    BY <1>1 DEF CountInv
  <2> QED BY <1>3, <1>5, <1>6, <1>r, <2>1 DEF CountedAt, Busy, Dialling, IsConnecting
<1>8. \A p \in 1 .. h - 1 : Down[p].op \in SlotOps => Down[p].on \in Slots
  <2>1. \A p \in 1 .. h - 1 : p \in Depth
    BY <1>1, <1>h DEF Depth
  <2> QED BY <1>0, <2>1, FramesTyped, FrameFacts
<1>9. ASSUME NEW p \in Fresh(h - 1)
      PROVE  /\ Down'[p].op = "free" => Down'[p].on = s
             /\ Backed(Down[p])'
  <2>1. /\ Down'[h].op = "free" /\ Down'[h].on = s /\ Down'[h + 1].op = "notify"
        /\ \/ Fresh(h - 1) = {h, h + 1}
           \/ /\ Fresh(h - 1) = {h, h + 1, h + 2, h + 3}
              /\ Down'[h + 2].op = "erase" /\ Down'[h + 3].op = "waiters"
    BY <1>1 DEF Frame
  <2> QED BY <2>1 DEF Backed
<1> QED BY <1>1, <1>2, <1>4, <1>7, <1>8, <1>9, <1>h, CountStep

LEMMA DetachCounts ==
  ASSUME SInv, CountInv, Detach
  PROVE  CountInv'
<1>h. PICK h, c, e : h = Height /\ c = Down[h].on /\ e = client[c].ep
  OBVIOUS
<1>0. Typed /\ Carried
  BY DEF SInv
<1>1. /\ h = 2 /\ KeepsBelow(1) /\ Down[2].op = "detach" /\ c \in Clients
      /\ Down[1].op = "freeClient" /\ batch' = batch
      /\ \/ slot' = slot /\ Fresh(1) = {}
         \/ /\ e \in Slots /\ slot[e].client = c /\ Fresh(1) = {}
            /\ LET r == [slot[e] EXCEPT !.client = None, !.deferred = None]
               IN  /\ ~IsConnecting(r)
                   /\ slot' = [slot EXCEPT ![e] = [r EXCEPT !.aborted = TRUE]]
         \/ /\ e \in Slots /\ slot[e].client = c
            /\ LET r == [slot[e] EXCEPT !.client = None, !.deferred = None]
               IN  slot' = [slot EXCEPT ![e] = [r EXCEPT !.shutting = TRUE, !.ssl = FALSE]]
            /\ Fresh(1) = {2} /\ Down'[2] = Frame("release", e, None)
  BY <1>h, DetachFacts
<1>2. CASE slot' = slot /\ Fresh(1) = {}
  BY <1>1, <1>2, <1>h, CountApart
<1>3. CASE e \in Slots /\ slot[e].client = c
  <2>1. slot[e].leased /\ ~slot[e].awaiting
    <3>1. slot[e].client # None
      BY <1>1, <1>3, SetsAssumption
    <3> QED BY <1>0, <1>3, <3>1 DEF Carried
  <2>r. PICK r : r = [slot[e] EXCEPT !.client = None, !.deferred = None]
    OBVIOUS
  <2>2. Alike(slot[e], r) /\ DOMAIN r = SlotFields
    BY <1>0, <1>3, <2>r DEF Typed, SlotShape, SlotFields, Alike, Kept
  <2>3. CASE ~IsConnecting(r) /\ slot' = [slot EXCEPT ![e] = [r EXCEPT !.aborted = TRUE]] /\ Fresh(1) = {}
    <3>1. /\ slot'[e].leased = r.leased /\ slot'[e].inUse = r.inUse
          /\ slot'[e].pooledIdle = r.pooledIdle /\ slot'[e].ev = r.ev
          /\ slot'[e].onconn = r.onconn /\ slot'[e].awaiting = r.awaiting
      BY <1>0, <1>3, <2>2, <2>3 DEF Typed, SlotFields
    <3>2. ~Freeing(e) /\ ~Freeing(e)'
      <4>1. ~Freeing(e)
        <5>1. \A p \in Depth : p = 1 \/ p = 2
          BY <1>1, <1>h DEF Depth
        <5> QED BY <1>1, <5>1 DEF Freeing
      <4>2. Freeing(e)' <=> Freeing(e)
        BY <1>1, <1>h, <2>3, FreeingSame
      <4> QED BY <4>1, <4>2
    <3>3. CountedAt(e)
      BY <1>3 DEF CountInv
    <3>4. CountedAt(e)'
      BY <2>1, <2>2, <2>3, <3>1, <3>2, <3>3
         DEF CountedAt, Alike, Kept, Busy, Dialling, IsConnecting
    <3>5. \A t \in Slots \ {e} : slot'[t] = slot[t]
      BY <1>0, <2>3 DEF Typed
    <3>6. \A p \in 1 .. 1 : Down[p].op \notin SlotOps
      BY <1>1 DEF SlotOps
    <3> QED BY <1>1, <1>h, <2>3, <3>4, <3>5, <3>6, CountStep
  <2>4. CASE /\ slot' = [slot EXCEPT ![e] = [r EXCEPT !.shutting = TRUE, !.ssl = FALSE]]
             /\ Fresh(1) = {2} /\ Down'[2] = Frame("release", e, None)
    <3>1. Alike(slot[e], slot'[e])
      BY <1>0, <1>3, <2>2, <2>4 DEF Typed, SlotFields, Alike, Kept
    <3>2. \A t \in Slots \ {e} : slot'[t] = slot[t]
      BY <1>0, <2>4 DEF Typed
    <3>3. \A p \in Fresh(1) : Down'[p].op # "free" /\ Backed(Down[p])'
      <4>1. Down'[2].op = "release" /\ Down'[2].on = e
        BY <2>4 DEF Frame
      <4> QED BY <2>1, <2>4, <3>1, <4>1 DEF Backed, Busy, Alike, Kept
    <3> QED BY <1>1, <1>3, <1>h, <3>1, <3>2, <3>3, CountAlike
  <2> QED BY <1>1, <1>2, <2>r, <2>3, <2>4
<1> QED BY <1>1, <1>2, <1>3


\* Finish keeps its slot leased, or gives it to the pool.
LEMMA FinishKeeps ==
  ASSUME NEW s, NEW r, SlotShape(r), Wired(r), r.client = None, ~Dialling(r), ~r.reserved,
         NEW arg, NEW x \in FinishEffects(s, r, arg)
  PROVE  /\ Kept(r, x.slot) \/ Pooled(r, x.slot)
         /\ x.slot.aborted => r.aborted /\ Kept(r, x.slot)
<1>1. CASE arg = "CLOSE"
  <2> DEFINE q == [r EXCEPT !.owes = None]
  <2>1. /\ SlotShape(q) /\ Wired(q) /\ Kept(r, q) /\ ~q.awaiting /\ ~q.onconn
        /\ q.aborted = r.aborted
    BY DEF SlotShape, SlotFields, Wired, Kept, Dialling, IsConnecting
  <2>2. x \in CloseGently(s, q, FALSE)
    BY <1>1 DEF FinishEffects
  <2> HIDE DEF q
  <2>3. Effect(s, q, x) /\ Kept(q, x.slot)
    BY <2>1, <2>2, CloseGentlyEffect
  <2> QED BY <2>1, <2>3 DEF Effect, Kept
<1>2. CASE arg # "CLOSE"
  <2> DEFINE a == [r EXCEPT !.aborted = FALSE, !.owes = None]
             e == EnterState(a, "RECV")
             q == ReturnToPool(e)
  <2>1. /\ SlotShape(a) /\ Kept(r, a) /\ ~a.awaiting /\ ~a.onconn /\ ~a.aborted
        /\ a.client = None /\ ~a.reserved
    BY DEF SlotShape, SlotFields, Kept, Dialling, IsConnecting
  <2>2. x \in {Does(q, <<>>), CloseForce(s, q)}
    BY <1>2 DEF FinishEffects
  <2> HIDE DEF a
  <2>3. /\ SlotShape(e) /\ Same(a, e) /\ Kept(a, e) /\ e.ev \in {"RECV", "FATAL"}
        /\ ~e.onconn /\ ~e.awaiting
    BY <2>1, EnterStateMoves
  <2>4. Wired(e)
    BY <2>3 DEF Wired
  <2> HIDE DEF e
  <2>5. /\ SlotShape(q) /\ Wired(q) /\ Same(e, q)
        /\ Kept(e, q) \/ (e.client = None => Pooled(e, q))
    BY <2>3, <2>4, ReturnToPoolMoves
  <2> HIDE DEF q
  <2>6. (Kept(r, q) \/ Pooled(r, q)) /\ ~q.aborted
    BY <2>1, <2>3, <2>5 DEF Same, Kept, Pooled
  <2>7. CASE x = Does(q, <<>>)
    BY <2>6, <2>7 DEF Does
  <2>8. CASE x = CloseForce(s, q)
    <3>1. Moves(q, q)
      BY <2>5, MovesSelf
    <3>2. Same(q, x.slot) /\ Kept(q, x.slot)
      BY <2>8, <3>1, CloseForEffect DEF CloseForce
    <3> QED BY <2>6, <3>2 DEF Same, Kept, Pooled
  <2> QED BY <2>2, <2>7, <2>8
<1> QED BY <1>1, <1>2

\* A slot that is leased and counted, or pooled and not.
Settled(r) ==
    \/ r.leased /\ r.inUse = 1 /\ ~r.pooledIdle
    \/ ~r.leased /\ r.inUse = 0 /\ r.pooledIdle

LEMMA KeptSettled ==
  ASSUME NEW r, NEW q, Settled(r), Kept(r, q) \/ (r.leased /\ Pooled(r, q))
  PROVE  Settled(q) /\ (r.leased /\ Kept(r, q) => q.leased)
<1>1. CASE Kept(r, q)
  BY <1>1 DEF Kept, Settled
<1>2. CASE r.leased /\ Pooled(r, q)
  <2>1. r.inUse = 1
    BY <1>2 DEF Settled
  <2>2. q.inUse = 1 - 1 /\ ~q.leased /\ q.pooledIdle
    BY <1>2, <2>1 DEF Pooled
  <2>3. Settled(q)
    BY <2>2 DEF Settled
  <2>4. ~Kept(r, q)
    BY <1>2, <2>2 DEF Kept
  <2> QED BY <2>3, <2>4
<1> QED BY <1>1, <1>2

LEMMA SettledAt ==
  ASSUME CountInv, NEW s \in Slots, ~Freeing(s), Busy(slot[s])
  PROVE  Settled(slot[s])
BY DEF CountInv, CountedAt, Busy, Settled

\* A step leaves the slot of the only frame that works on it settled.
LEMMA CountKept ==
  ASSUME SInv, CountInv, batch' = batch, NEW b, KeepsBelow(b), NEW t \in Slots, NEW q,
         \A s \in Slots \ {t} : slot'[s] = slot[s], slot'[t] = q,
         \A p \in 1 .. b : ~(Down[p].op \in SlotOps /\ Down[p].on = t),
         Height > 0 => Down[Height].op # "free",
         Settled(q), q.aborted => q.leased /\ ~Dialling(q),
         \A p \in Fresh(b) : /\ Down'[p].op # "free"
                             /\ Down'[p].op \in {"complete", "finish"} =>
                                   Down'[p].on = t /\ q.leased
                             /\ Down'[p].op \in {"release", "close", "parseError"} =>
                                   Down'[p].on = t
  PROVE  CountInv'
<1>1. ~Freeing(t)'
  <2>1. ASSUME NEW p \in Depth', Down'[p].op = "free", Down'[p].on = t
        PROVE  FALSE
    <3>1. p \notin Fresh(b)
      BY <2>1
    <3>2. p \in 1 .. b /\ Down'[p] = Down[p]
      BY <3>1 DEF KeepsBelow, Fresh, Depth
    <3> QED BY <2>1, <3>2 DEF SlotOps
  <2> QED BY <2>1 DEF Freeing
<1>2. Busy(q) /\ CountedAt(t)'
  BY <1>1 DEF CountedAt, Settled, Busy, Dialling, IsConnecting
<1>3. \A p \in 1 .. b : Down[p].op \in SlotOps => Down[p].on \in Slots
  <2>1. \A p \in 1 .. b : p \in Depth
    BY DEF KeepsBelow, Depth
  <2> QED BY <2>1, FramesTyped, FrameFacts DEF SInv
<1>4. \A p \in Fresh(b) : Backed(Down[p])'
  BY <1>2 DEF Backed
<1> QED BY <1>2, <1>3, <1>4, CountStep

LEMMA FinishCounts ==
  ASSUME SInv, CountInv, ~Pinning, Finish
  PROVE  CountInv'
<1>h. PICK h, s, r : h = Height /\ s = Down[h].on /\ r = slot[s]
  OBVIOUS
<1>0. Typed /\ Placed /\ Expected /\ Carried /\ Pinned
  BY DEF SInv
<1>1. /\ h = 2 /\ KeepsBelow(1) /\ Down[2].op = "finish" /\ s \in Slots /\ batch' = batch
      /\ \E x \in FinishEffects(s, slot[s], Down[2].arg) :
            /\ slot' = [slot EXCEPT ![s] = x.slot]
            /\ \/ Fresh(1) = {}
               \/ Fresh(1) = {2} /\ Down'[2] = Frame("release", s, None)
  BY <1>h, FinishFacts
<1>2. PICK x \in FinishEffects(s, r, Down[2].arg) :
            /\ slot' = [slot EXCEPT ![s] = x.slot]
            /\ \/ Fresh(1) = {}
               \/ Fresh(1) = {2} /\ Down'[2] = Frame("release", s, None)
  BY <1>1, <1>h
<1>3. Down[1].op = "resume" /\ 2 \in Depth
  BY <1>0, <1>1, <1>h DEF Placed, Depth
<1>4. /\ SlotShape(r) /\ Wired(r) /\ r.client = None /\ r.key = None /\ ~Dialling(r)
      /\ ~r.reserved /\ r.leased
  <2>1. SlotShape(r) /\ Wired(r) /\ ~r.reserved
    BY <1>0, <1>1, <1>h DEF Typed, Pinned
  <2>2. r.client = None /\ r.key = None /\ ~Dialling(r)
    BY <1>0, <1>1, <1>3, <1>h DEF Expected
  <2>3. r.leased
    BY <1>1, <1>3, <1>h DEF CountInv, Backed
  <2> QED BY <2>1, <2>2, <2>3
<1>5. ~Freeing(s)
  BY <1>1, <1>3, <1>h DEF Freeing, Depth
<1>6. Settled(r)
  BY <1>1, <1>4, <1>5, <1>h, SettledAt DEF Busy
<1>7. /\ Kept(r, x.slot) \/ Pooled(r, x.slot)
      /\ x.slot.aborted => r.aborted /\ Kept(r, x.slot)
      /\ ~Dialling(x.slot)
  BY <1>4, FinishKeeps, FinishEffect
<1>11. Settled(x.slot) /\ (x.slot.aborted => x.slot.leased)
  BY <1>4, <1>6, <1>7, KeptSettled
<1>8. slot'[s] = x.slot /\ \A t \in Slots \ {s} : slot'[t] = slot[t]
  BY <1>0, <1>1, <1>2 DEF Typed
<1>9. \A p \in 1 .. 1 : ~(Down[p].op \in SlotOps /\ Down[p].on = s)
  BY <1>3 DEF SlotOps
<1>10. \A p \in Fresh(1) : Down'[p].op = "release" /\ Down'[p].on = s
  BY <1>2 DEF Frame
<1> QED BY <1>1, <1>7, <1>8, <1>9, <1>10, <1>11, <1>h, CountKept


\* A connection attempt leaves its slot leased, or pools it when it is up at once.
LEMMA AttemptKeeps ==
  ASSUME NEW s, NEW r, SlotShape(r), Wired(r), r.client = None, ~r.onconn, ~r.awaiting,
         NEW y \in WrapConnect(r), NEW z, Attempted(s, y, z)
  PROVE  (Kept(r, z.slot) \/ Pooled(r, z.slot)) /\ z.slot.aborted = r.aborted
<1>1. /\ Moves(r, y.slot) /\ ~y.slot.awaiting
      /\ y.status # "PENDING" => Kept(r, y.slot)
  BY WrapConnectMoves
<1>2. /\ SlotShape(y.slot) /\ Wired(y.slot) /\ Same(r, y.slot)
      /\ Kept(r, y.slot) \/ Pooled(r, y.slot)
  BY <1>1 DEF Moves
<1>3. CASE y.status = "PENDING" /\ z = Does(y.slot, <<>>)
  <2>1. z.slot = y.slot
    BY <1>3 DEF Does
  <2> QED BY <1>2, <2>1 DEF Same
<1>4. CASE /\ y.status # "PENDING"
           /\ z \in HandleConnectFailure(s, y.slot, FALSE, y.status # "SSL_FAILURE")
  <2>1. Effect(s, y.slot, z)
    BY <1>1, <1>2, <1>4, HandleConnectFailureEffect
  <2>2. Kept(r, y.slot)
    BY <1>1, <1>4
  <2>3. (Kept(y.slot, z.slot) \/ Pooled(y.slot, z.slot)) /\ z.slot.aborted = y.slot.aborted
    BY <2>1 DEF Effect
  <2> QED BY <1>2, <2>2, <2>3 DEF Same, Kept, Pooled
<1> QED BY <1>3, <1>4 DEF Attempted

LEMMA OpensCounts ==
  ASSUME SInv, CountInv, batch' = batch, stack = <<>>, NEW s \in Slots, NEW r, NEW y, NEW z,
         Opens(s, r, y, z), Settled(r), ~r.aborted
  PROVE  CountInv'
<1>q. PICK q : q = z.slot
  OBVIOUS
<1>0. Typed /\ r.leased
  BY DEF SInv, Opens
<1>1. /\ CallsFrom(s, q, stack') /\ q.client = None
      /\ slot' = [slot EXCEPT ![s] = q]
  <2>1. CallsFrom(s, z.slot, z.calls) /\ z.slot.client = None
    BY ConnectOutcome DEF Opens
  <2> QED BY <1>q, <2>1 DEF Opens
<1>2. (Kept(r, q) \/ Pooled(r, q)) /\ ~q.aborted
  BY <1>q, AttemptKeeps DEF Opens
<1>3. Settled(q)
  BY <1>0, <1>2, KeptSettled
<1>4. /\ KeepsBelow(0) /\ Height = 0
      /\ \/ Fresh(0) = {}
         \/ /\ Fresh(0) = {1} /\ Down'[1].on = s
            /\ Down'[1].op \in {"release", "complete", "parseError"}
            /\ Down'[1].op = "complete" => HasRequestInFlight(q)
  BY <1>1, LoopCalls
<1>5. \A p \in Fresh(0) : Down'[p].op \in {"release", "parseError"} /\ Down'[p].on = s
  BY <1>1, <1>2, <1>4 DEF HasRequestInFlight
<1>6. slot'[s] = q /\ \A t \in Slots \ {s} : slot'[t] = slot[t]
  BY <1>0, <1>1 DEF Typed
<1> QED BY <1>2, <1>3, <1>4, <1>5, <1>6, CountKept

LEMMA HappensCounts ==
  ASSUME SInv, CountInv, batch' = batch, stack = <<>>, NEW s \in Slots, NEW x,
         Happens(s, x), Calm(slot[s], x), Busy(slot[s])
  PROVE  CountInv'
<1>r. PICK r, q : r = slot[s] /\ q = x.slot
  OBVIOUS
<1>0. Typed /\ Carried
  BY DEF SInv
<1>1. Settled(r) /\ (r.aborted => r.leased /\ ~Dialling(r)) /\ ~Freeing(s)
  <2>1. ~Freeing(s)
    BY QuietFacts DEF Freeing
  <2>2. CountedAt(s)
    BY DEF CountInv
  <2> QED BY <1>r, <2>1, <2>2, SettledAt DEF CountedAt
<1>2. /\ Kept(r, q) \/ Pooled(r, q)
      /\ q.aborted = r.aborted
      /\ ~Dialling(r) => Kept(r, q) /\ ~Dialling(q) /\ ~x.unlinks
  BY <1>r DEF Happens, Effect, Calm
<1>3. ~r.leased => Kept(r, q) /\ ~Dialling(q) /\ ~x.unlinks /\ r.client = None /\ ~r.aborted
  <2>1. ~r.leased => ~Dialling(r) /\ r.client = None
    BY <1>r, QuietFacts
  <2> QED BY <1>1, <1>2, <2>1
<1>4. Settled(q) /\ (r.leased /\ Kept(r, q) => q.leased)
  BY <1>1, <1>2, <1>3, KeptSettled
<1>5. q.aborted => q.leased /\ ~Dialling(q)
  BY <1>1, <1>2, <1>4
<1>6. slot'[s] = q /\ \A t \in Slots \ {s} : slot'[t] = slot[t]
  BY <1>0, <1>r DEF Typed, Happens
<1>7. CASE x.unlinks
  <2>f. PICK f, g : f = Frame("resume", r.client, None) /\ g = Frame("close", s, None)
    OBVIOUS
  <2>1. stack' = <<f, g>>
    BY <1>7, <1>r, <2>f DEF Happens, Effect
  <2>2. f \in FrameType /\ g \in FrameType
    <3>1. r.client \in Clients \cup {None}
      BY <1>0, <1>r DEF Typed, SlotShape
    <3> QED BY <2>f, <3>1, FrameTypes DEF SlotOps
  <2>3. KeepsBelow(0) /\ Fresh(0) = {1, 2} /\ Height = 0 /\ Down'[1] = g /\ Down'[2] = f
    BY <2>1, <2>2, Starts
  <2>4. Down'[1].op = "close" /\ Down'[1].on = s /\ Down'[2].op = "resume"
    BY <2>f, <2>3 DEF Frame
  <2>5. \A p \in Fresh(0) : \/ Down'[p].op = "close" /\ Down'[p].on = s
                            \/ Down'[p].op = "resume"
    BY <2>3, <2>4
  <2> QED BY <1>4, <1>5, <1>6, <2>3, <2>5, CountKept
<1>8. CASE ~x.unlinks
  <2>1. CallsFrom(s, q, stack') /\ q.client = r.client
    BY <1>8, <1>r DEF Happens, Effect
  <2>2. /\ KeepsBelow(0) /\ Height = 0
        /\ \/ Fresh(0) = {}
           \/ /\ Fresh(0) = {1} /\ Down'[1].on = s
              /\ Down'[1].op \in {"release", "complete", "parseError"}
              /\ Down'[1].op = "complete" => HasRequestInFlight(q)
    BY <2>1, LoopCalls
  <2>3. HasRequestInFlight(q) => q.leased
    <3>1. CASE q.client # None
      <4>1. r.leased
        BY <1>0, <1>r, <2>1, <3>1 DEF Carried
      <4>2. Kept(r, q)
        BY <1>2, <2>1, <3>1 DEF Pooled
      <4> QED BY <1>4, <4>1, <4>2
    <3>2. CASE q.aborted
      BY <1>5, <3>2
    <3> QED BY <3>1, <3>2 DEF HasRequestInFlight
  <2>4. \A p \in Fresh(0) : /\ Down'[p].op \in {"release", "complete", "parseError"}
                            /\ Down'[p].on = s
                            /\ Down'[p].op = "complete" => q.leased
    BY <2>2, <2>3
  <2> QED BY <1>4, <1>5, <1>6, <2>2, <2>4, CountKept
<1> QED BY <1>7, <1>8


LEMMA LeaseSettles ==
  ASSUME SInv, CountInv, NEW s \in Slots, ~slot[s].leased, ~Freeing(s),
         NEW r, r = Lease(slot[s])
  PROVE  Settled(r) /\ r.leased /\ ~r.aborted
<1>1. DOMAIN slot[s] = SlotFields
  BY DEF SInv, Typed, SlotShape
<1>2. slot[s].inUse = 0 /\ ~slot[s].aborted
  BY DEF CountInv, CountedAt
<1>3. r.leased /\ ~r.pooledIdle /\ r.aborted = slot[s].aborted /\ r.inUse = slot[s].inUse + 1
  BY <1>1 DEF Lease, SlotFields
<1>4. r.inUse = 1
  BY <1>2, <1>3
<1> QED BY <1>2, <1>3, <1>4 DEF Settled

LEMMA NothingFreed ==
  ASSUME SInv, stack = <<>>
  PROVE  \A s : ~Freeing(s)
BY QuietFacts DEF Freeing

LEMMA PrewarmCounts ==
  ASSUME SInv, CountInv, NEW s \in Slots, PrewarmSlot(s)
  PROVE  CountInv'
<1>r. PICK r : r = Lease(slot[s])
  OBVIOUS
<1>1. stack = <<>> /\ ~slot[s].leased /\ \E y, z : Opens(s, r, y, z)
  BY <1>r, PrewarmFacts
<1>2. PICK y, z : Opens(s, r, y, z)
  BY <1>1
<1>3. Settled(r) /\ ~r.aborted
  BY <1>r, <1>1, NothingFreed, LeaseSettles
<1>4. batch' = batch
  BY DEF PrewarmSlot
<1> QED BY <1>1, <1>2, <1>3, <1>4, OpensCounts

LEMMA ReconnectCounts ==
  ASSUME SInv, CountInv, Plain, NEW x \in reconnects, HandleReconnects(x)
  PROVE  CountInv'
<1>s. PICK s, r : s = x.on /\ r = [slot[s] EXCEPT !.awaiting = FALSE]
  OBVIOUS
<1>0. Typed
  BY DEF SInv
<1>1. /\ stack = <<>> /\ s \in Slots
      /\ \/ slot' = slot /\ stack' = stack
         \/ slot[s].awaiting /\ \E y, z : Opens(s, r, y, z)
  BY <1>s, ReconnectFacts
<1>2. batch' = batch
  BY TakeOne DEF HandleReconnects
<1>3. CASE slot' = slot /\ stack' = stack
  <2>1. Height = 0 /\ Height' = 0
    BY <1>1, <1>3 DEF Height
  <2>2. KeepsBelow(0) /\ Fresh(0) = {}
    BY <2>1 DEF KeepsBelow, Fresh
  <2> QED BY <1>2, <1>3, <2>1, <2>2, CountApart
<1>4. CASE slot[s].awaiting /\ \E y, z : Opens(s, r, y, z)
  <2>1. PICK y, z : Opens(s, r, y, z)
    BY <1>4
  <2>2. slot[s].leased
    BY <1>1, <1>4, QuietFacts DEF Dialling
  <2>3. Settled(slot[s]) /\ ~slot[s].aborted
    <3>1. Settled(slot[s])
      BY <1>1, <2>2, NothingFreed, SettledAt DEF Busy
    <3>2. ~slot[s].aborted
      BY <1>1, <1>4 DEF CountInv, CountedAt, Dialling
    <3> QED BY <3>1, <3>2
  <2>4. /\ r.leased = slot[s].leased /\ r.inUse = slot[s].inUse
        /\ r.pooledIdle = slot[s].pooledIdle /\ r.aborted = slot[s].aborted
    BY <1>0, <1>1, <1>s DEF Typed, SlotShape, SlotFields
  <2>5. Settled(r) /\ ~r.aborted
    BY <2>3, <2>4 DEF Settled
  <2> QED BY <1>1, <1>2, <2>1, <2>5, OpensCounts
<1> QED BY <1>1, <1>3, <1>4

LEMMA EventCounts ==
  ASSUME SInv, CountInv, Plain, NEW s \in Slots, EndpointEvent(s)
  PROVE  CountInv'
<1>1. PICK x \in HandleEndpointEvent(s, slot[s]) : Happens(s, x)
  BY EventFacts
<1>2. stack = <<>> /\ batch' = batch /\ Source(s, slot[s].gen) \in Readable \cup {Source(None, 0)}
  BY TakeOne DEF EndpointEvent
<1>3. Calm(slot[s], x)
  BY HandleEndpointEventEffect DEF SInv, Typed
<1>4. slot[s].ev # "ACCEPT"
  <2>1. PICK e \in Readable \cup {Source(None, 0)} : e = Source(s, slot[s].gen)
    BY <1>2
  <2>2. e.on = s
    BY <2>1 DEF Source
  <2>3. s # None /\ s \notin Clients
    BY SetsAssumption
  <2>4. PICK t \in {u \in Slots : slot[u].ev # "ACCEPT"} : e = Source(t, slot[t].gen)
    BY <2>2, <2>3 DEF Readable, Source
  <2> QED BY <2>2, <2>4 DEF Source
<1>5. Busy(slot[s])
  BY <1>2, <1>4, NothingFreed DEF CountInv, CountedAt
<1> QED BY <1>1, <1>2, <1>3, <1>5, HappensCounts

LEMMA ExpiryCounts ==
  ASSUME SInv, CountInv, Plain, NEW s \in Slots, SlotExpires(s)
  PROVE  CountInv'
<1>1. slot[s].timer # "none" /\ \E x \in HandleExpiry(s, [slot[s] EXCEPT !.timer = "none"]) : Happens(s, x)
  BY ExpiryFacts
<1>2. PICK x \in HandleExpiry(s, [slot[s] EXCEPT !.timer = "none"]) : Happens(s, x)
  BY <1>1
<1>3. stack = <<>> /\ batch' = batch
  BY TakeOne DEF SlotExpires
<1>4. Calm(slot[s], x)
  BY HandleExpiryEffect DEF SInv, Typed
<1>5. Busy(slot[s])
  BY <1>1, <1>3, NothingFreed DEF CountInv, CountedAt
<1> QED BY <1>2, <1>3, <1>4, <1>5, HappensCounts

\* The slot a coroutine takes.
LEMMA TakesFresh ==
  ASSUME SInv, CountInv, ~Pinning, NEW c \in Clients, NEW s \in Slots, Takes(c, s)
  PROVE  /\ ~Holds(c, s) /\ ~slot[s].leased /\ ~Freeing(s)
         /\ \A p \in Depth : ~(Down[p].op \in SlotOps /\ Down[p].on = s)
<1>1. \A p \in Depth : ~(Down[p].op \in SlotOps /\ Down[p].on = s)
  BY TakesUntouched
<1>2. ~Freeing(s)
  BY <1>1 DEF Freeing, SlotOps
<1>3. ~Holds(c, s)
  BY TakesUntouched DEF SInv, Pinned
<1> QED BY <1>1, <1>2, <1>3, TakesUntouched

LEMMA SendCounts ==
  ASSUME SInv, CountInv, ~Pinning, NEW c \in Clients, NEW req \in Reqs, NEW s \in Slots,
         Send(c, req, s)
  PROVE  CountInv'
<1>h. PICK h, key, r : /\ h = Height /\ key = (IF Holds(c, s) THEN None ELSE KeyOf(req))
                       /\ r = (IF Holds(c, s) THEN slot[s] ELSE Lease(slot[s]))
  OBVIOUS
<1>0. Typed
  BY DEF SInv
<1>1. /\ Calls(c) /\ Takes(c, s) /\ KeepsBelow(h - 1) /\ batch' = batch
      /\ \E q : /\ slot' = [slot EXCEPT ![s] = q]
                /\ Kept(r, q) /\ q.aborted = r.aborted
                /\ \/ Fresh(h - 1) = {}
                   \/ /\ Fresh(h - 1) = {h, h + 1} /\ Down'[h] = Frame("run", c, "failed")
                      /\ \E why \in {None, "refused"} :
                            Down'[h + 1] = Frame("release", s, why)
  BY <1>h, SendFacts
<1>2. PICK q : /\ slot' = [slot EXCEPT ![s] = q]
               /\ Kept(r, q) /\ q.aborted = r.aborted
               /\ \/ Fresh(h - 1) = {}
                  \/ /\ Fresh(h - 1) = {h, h + 1} /\ Down'[h] = Frame("run", c, "failed")
                     /\ \E why \in {None, "refused"} :
                           Down'[h + 1] = Frame("release", s, why)
  BY <1>1
<1>3. h \in Nat \ {0} /\ Down[h].op = "run"
  BY <1>1, <1>h, CallsFacts
<1>4. /\ ~Holds(c, s) /\ ~slot[s].leased /\ ~Freeing(s)
      /\ \A p \in Depth : ~(Down[p].op \in SlotOps /\ Down[p].on = s)
  BY <1>1, TakesFresh
<1>5. Settled(r) /\ r.leased /\ ~r.aborted
  BY <1>4, <1>h, LeaseSettles
<1>6. Settled(q) /\ ~q.aborted
  BY <1>2, <1>5, KeptSettled
<1>7. slot'[s] = q /\ \A t \in Slots \ {s} : slot'[t] = slot[t]
  BY <1>0, <1>2 DEF Typed
<1>8. \A p \in 1 .. h - 1 : ~(Down[p].op \in SlotOps /\ Down[p].on = s)
  BY <1>3, <1>4, <1>h DEF Depth
<1>9. \A p \in Fresh(h - 1) : \/ Down'[p].op = "run"
                              \/ Down'[p].op = "release" /\ Down'[p].on = s
  BY <1>2 DEF Frame
<1> QED BY <1>1, <1>3, <1>6, <1>7, <1>8, <1>9, <1>h, CountKept

LEMMA UnserializableCounts ==
  ASSUME SInv, CountInv, ~Pinning, NEW c \in Clients, NEW s \in Slots,
         SendUnserializable(c, s)
  PROVE  CountInv'
<1>h. PICK h, r : h = Height /\ r = (IF Holds(c, s) THEN slot[s] ELSE Lease(slot[s]))
  OBVIOUS
<1>0. Typed
  BY DEF SInv
<1>1. /\ KeepsBelow(h - 1) /\ Fresh(h - 1) = {h, h + 1} /\ batch' = batch
      /\ Down'[h] = Frame("run", c, "failed") /\ Down'[h + 1] = Frame("release", s, None)
      /\ Takes(c, s)
      /\ slot'[s] = Shut(r) /\ \A t \in Slots \ {s} : slot'[t] = slot[t]
  BY <1>h, SendUnserializableFacts
<1>2. Calls(c)
  BY DEF SendUnserializable
<1>3. h \in Nat \ {0} /\ Down[h].op = "run"
  BY <1>2, <1>h, CallsFacts
<1>4. /\ ~Holds(c, s) /\ ~slot[s].leased /\ ~Freeing(s)
      /\ \A p \in Depth : ~(Down[p].op \in SlotOps /\ Down[p].on = s)
  BY <1>1, TakesFresh
<1>5. Settled(r) /\ r.leased /\ ~r.aborted
  BY <1>4, <1>h, LeaseSettles
<1>q. PICK q : q = Shut(r)
  OBVIOUS
<1>6. Settled(q) /\ ~q.aborted
  <2>1. DOMAIN r = SlotFields
    BY <1>0, <1>4, <1>h DEF Typed, SlotShape, SlotFields, Lease
  <2>2. Kept(r, q) /\ q.aborted = r.aborted
    BY <1>q, <2>1 DEF SlotFields, Kept, Shut
  <2> QED BY <1>5, <2>2, KeptSettled
<1>7. slot'[s] = q /\ \A t \in Slots \ {s} : slot'[t] = slot[t]
  BY <1>0, <1>1, <1>q DEF Typed
<1>8. \A p \in 1 .. h - 1 : ~(Down[p].op \in SlotOps /\ Down[p].on = s)
  BY <1>3, <1>4, <1>h DEF Depth
<1>9. \A p \in Fresh(h - 1) : \/ Down'[p].op = "run"
                              \/ Down'[p].op = "release" /\ Down'[p].on = s
  BY <1>1 DEF Frame
<1> QED BY <1>1, <1>3, <1>6, <1>7, <1>8, <1>9, <1>h, CountKept


-------------------------------------------------------------------------------
(* The gauge is exact. *)

LEMMA HandlerCounts ==
  ASSUME SInv, CountInv, Plain, HandlerStep
  PROVE  CountInv'
<1>1. ~Pinning
  BY DEF Plain
<1> QED BY <1>1, WakingCounts, QuietCounts, NotifyCounts, CloseSlotCounts, ParseErrorCounts,
           CompleteCounts, FreeSlotCounts, ReleaseCounts, DetachCounts, FinishCounts
        DEF HandlerStep

LEMMA CoroutineStepCounts ==
  ASSUME SInv, CountInv, Plain, NEW c \in Clients, CoroutineStep(c)
  PROVE  CountInv'
<1>1. ~Pinning
  BY DEF Plain
<1>2. \A s \in Slots : ~ReserveSlot(c, s)
  BY <1>1 DEF ReserveSlot
<1> QED BY <1>1, <1>2, CoroutineCounts, SendCounts, UnserializableCounts DEF CoroutineStep

LEMMA LoopStepCounts ==
  ASSUME SInv, CountInv, Plain, LoopStep
  PROVE  CountInv'
BY PrewarmCounts, EventCounts, StaleCounts, ExpiryCounts, ReconnectCounts, ClientsCount
   DEF LoopStep

LEMMA CountSame ==
  ASSUME CountInv, UNCHANGED <<vars, setup>>
  PROVE  CountInv'
<1>1. slot' = slot /\ batch' = batch /\ stack' = stack
  BY DEF vars
<1>2. /\ \A s : Freeing(s)' <=> Freeing(s)
      /\ Depth' = Depth /\ Down' = Down
  BY <1>1 DEF Freeing, Depth, Down, Height
<1>3. \A s \in Slots : CountedAt(s)'
  BY <1>1, <1>2 DEF CountInv, CountedAt
<1>4. \A p \in Depth' : Backed(Down[p])'
  BY <1>1, <1>2 DEF CountInv, Backed
<1> QED BY <1>1, <1>3, <1>4 DEF CountInv

LEMMA CountInit ==
  ASSUME Init
  PROVE  CountInv
<1>1. stack = <<>> /\ slot = [s \in Slots |-> Closed] /\ batch = <<>>
  BY DEF Init
<1>2. Depth = {}
  BY <1>1 DEF Depth, Height
<1>3. \A s : ~Freeing(s)
  BY <1>2 DEF Freeing
<1>4. \A s \in Slots : CountedAt(s)
  BY <1>1, <1>3 DEF CountedAt, Closed, Busy, Dialling, IsConnecting
<1> QED BY <1>1, <1>2, <1>4 DEF CountInv

LEMMA CountHolds == Spec => [](Plain => SInv /\ CountInv)
<1>1. Init => (Plain => SInv /\ CountInv)
  BY InitInv, CountInit
<1>2. (Plain => SInv /\ CountInv) /\ [Next]_<<vars, setup>>
         => (Plain => SInv /\ CountInv)'
  <2> SUFFICES ASSUME Plain => SInv /\ CountInv, [Next]_<<vars, setup>>, Plain'
               PROVE  SInv' /\ CountInv'
    OBVIOUS
  <2>1. setup' = setup
    BY DEF Next, vars
  <2>2. Plain /\ Tame
    BY <2>1, SetupKept DEF Plain, Tame, MaxEvents
  <2>3. SInv /\ CountInv
    BY <2>2
  <2>4. SInv'
    BY <2>1, <2>2, <2>3, NextInv
  <2>5. CASE Next
    <3>1. LoopStep \/ HandlerStep \/ \E c \in Clients : CoroutineStep(c)
      BY <2>5 DEF Next
    <3>2. CountInv'
      BY <2>2, <2>3, <3>1, LoopStepCounts, HandlerCounts, CoroutineStepCounts
    <3> QED BY <2>4, <3>2
  <2>6. CASE UNCHANGED <<vars, setup>>
    BY <2>3, <2>4, <2>6, CountSame
  <2> QED BY <2>5, <2>6
<1> QED BY <1>1, <1>2, PTL DEF Spec

\* The gauge of leased slots is exact: slotsInUse, which GetEndpointConnection
\* raises and ReleaseEndpoint and ReturnEndpointToPool lower, counts a slot once
\* while it is leased and never twice.  A reserved handle dropped by the coroutine
\* that ReleaseEndpoint resumes and a late event of the same epoll_wait lower it
\* again, so both are left out.
THEOREM CountedHolds == Spec => []CountedOnce
<1>1. SInv /\ CountInv => InUseExact
  <2> SUFFICES ASSUME SInv, CountInv, NEW s \in Slots
               PROVE  slot[s].inUse = IF slot[s].leased /\ ~Handles("free", s) THEN 1 ELSE 0
    BY DEF InUseExact
  <2>1. Height \in Nat /\ Height = Len(stack)
    BY DEF SInv, Typed, Height
  <2>2. Freeing(s) => Handles("free", s)
    <3>1. SUFFICES ASSUME Freeing(s)
                   PROVE  Handles("free", s)
      OBVIOUS
    <3>2. PICK p \in Depth : Down[p].op = "free" /\ Down[p].on = s
      BY <3>1 DEF Freeing
    <3>3. PICK i : i = Height + 1 - p
      OBVIOUS
    <3>4. i \in 1 .. Len(stack) /\ Down[p] = stack[i]
      BY <2>1, <3>2, <3>3 DEF Depth, Down
    <3> QED BY <3>2, <3>4 DEF Handles
  <2>3. Handles("free", s) => Freeing(s)
    <3>1. SUFFICES ASSUME Handles("free", s)
                   PROVE  Freeing(s)
      OBVIOUS
    <3>2. PICK i \in 1 .. Len(stack) : stack[i].op = "free" /\ stack[i].on = s
      BY <3>1 DEF Handles
    <3>3. PICK p : p = Height + 1 - i
      OBVIOUS
    <3>4. p \in Depth /\ i = Height + 1 - p
      BY <2>1, <3>2, <3>3 DEF Depth
    <3>5. Down[p] = stack[i]
      BY <2>1, <3>2, <3>4 DEF Depth, Down
    <3> QED BY <3>2, <3>4, <3>5 DEF Freeing
  <2> QED BY <2>2, <2>3 DEF CountInv, CountedAt
<1>2. (Plain => SInv /\ CountInv) => CountedOnce
  BY <1>1 DEF Plain, CountedOnce
<1> QED BY <1>2, CountHolds, PTL

-------------------------------------------------------------------------------
(* What a client is resumed with.                                            *)

\* A slot that is connected answers the request q, or nothing; one that still
\* connects holds no other request back.
Fits(r, q) == r.owes \in {None, q} /\ (Dialling(r) => r.deferred \in {None, q})

\* What a slot answers is the request of its client, and the one that its key
\* stands for.  A request waits for onConnect where there is one, and while it
\* does the slot owes nothing.
AnswersAt(s) ==
    /\ ~OnConnect => slot[s].deferred = None
    /\ OnConnect /\ slot[s].owes # None => slot[s].alive /\ ~Dialling(slot[s])
    /\ slot[s].key # None => Fits(slot[s], slot[s].key)
    /\ slot[s].client # None => Fits(slot[s], client[slot[s].client].req)

\* The frames that bring an answer bring it to clients that asked for it.
FrameFits(p) ==
    /\ \A c \in Clients :
          Down[p].op = "resume" /\ Down[p].on = c /\ Down[p].arg # None /\ client[c].async
          => client[c].req = Down[p].arg
    /\ \A c \in Clients :
          Down[p].op = "waiters" /\ Down[p].arg # None /\ Waits(Down[p].on, c, client[c].gen)
          => client[c].req = Down[p].arg

\* A client is parked under the key of its own request.
TokensFit ==
    \A k \in Coalesced, c \in Clients : ~Erasing(k) /\ Parked(k, c) => client[c].req = k

\* While the endpoint is prewarmed no request has been sent.
Early ==
    warm > 0 => /\ \A c \in Clients : client[c].co = "none" /\ ~client[c].async
                /\ \A s \in Slots : slot[s].owes = None /\ slot[s].deferred = None

FitInv ==
    /\ Early /\ TokensFit
    /\ \A s \in Slots : AnswersAt(s)
    /\ \A p \in Depth : FrameFits(p)

\* A client whose request and connection are the same as before.
Fixed(d) ==
    /\ client'[d].gen = client[d].gen /\ client'[d].req = client[d].req
    /\ client'[d].async => client[d].async
\* A client that nothing below the top of the stack still has to answer.
Unasked(b, d) ==
    /\ \A s \in Slots : slot[s].client # d
    /\ \A p \in 1 .. b : ~Woken(p, d)' \/ (Down[p].op = "resume" /\ ~client'[d].async)
    /\ \A k \in Coalesced : ~Erasing(k)' /\ Parked(k, d)' => client'[d].req = k

\* What is left to show of a step on slot t and on the top of the stack.
LEMMA FitStep ==
  ASSUME Typed, FitInv, setup' = setup, Early', NEW b, KeepsBelow(b), NEW t,
         \A s \in Slots \ {t} : slot'[s] = slot[s],
         \A d \in Clients : Fixed(d) \/ Unasked(b, d),
         \A k \in Coalesced, d \in Clients : ~Erasing(k)' /\ Parked(k, d)' =>
            Unasked(b, d) \/ (~Erasing(k) /\ Parked(k, d)),
         t \in Slots => AnswersAt(t)',
         \A p \in Fresh(b) : FrameFits(p)'
  PROVE  FitInv'
<1>0. Coalesced' = Coalesced /\ OnConnect' = OnConnect
  BY SetupKept DEF OnConnect
<1>1. ASSUME NEW s \in Slots
      PROVE  AnswersAt(s)'
  <2>1. CASE s # t
    <3>1. slot'[s] = slot[s] /\ AnswersAt(s) /\ slot[s].client \in Clients \cup {None}
      BY <2>1 DEF FitInv, Typed, SlotShape
    <3>2. slot[s].client # None => client'[slot[s].client].req = client[slot[s].client].req
      BY <3>1 DEF Fixed, Unasked
    <3> QED BY <1>0, <3>1, <3>2 DEF AnswersAt, Fits, Dialling, IsConnecting
  <2> QED BY <2>1
<1>2. ASSUME NEW k \in Coalesced, NEW d \in Clients, ~Erasing(k)', Parked(k, d)'
      PROVE  client'[d].req = k
  <2>1. CASE Unasked(b, d)
    BY <1>2, <2>1 DEF Unasked
  <2>2. CASE ~Unasked(b, d)
    <3>1. ~Erasing(k) /\ Parked(k, d) /\ Fixed(d)
      BY <1>2, <2>2
    <3> QED BY <3>1 DEF FitInv, TokensFit, Fixed
  <2> QED BY <2>1, <2>2
<1>3. ASSUME NEW p \in Depth'
      PROVE  FrameFits(p)'
  <2>1. CASE p \in Fresh(b)
    BY <2>1
  <2>2. CASE p \notin Fresh(b)
    <3>1. p \in 1 .. b /\ Down'[p] = Down[p] /\ FrameFits(p)
      BY <2>2 DEF KeepsBelow, Fresh, Depth, FitInv
    <3>2. ASSUME NEW c \in Clients, Down[p].op = "resume", Down[p].on = c, Down[p].arg # None,
                 client'[c].async
          PROVE  client'[c].req = Down[p].arg
      <4>1. Woken(p, c)'
        BY <3>1, <3>2 DEF Woken, Owes
      <4>2. Fixed(c)
        BY <3>1, <3>2, <4>1 DEF Unasked
      <4> QED BY <3>1, <3>2, <4>2 DEF FrameFits, Fixed
    <3>3. ASSUME NEW c \in Clients, Down[p].op = "waiters", Down[p].arg # None,
                 Waits(Down[p].on, c, client'[c].gen)
          PROVE  client'[c].req = Down[p].arg
      <4>1. Woken(p, c)'
        BY <3>1, <3>3 DEF Woken, Owes
      <4>2. Fixed(c)
        BY <3>1, <3>3, <4>1 DEF Unasked
      <4> QED BY <3>1, <3>3, <4>2 DEF FrameFits, Fixed
    <3> QED BY <3>1, <3>2, <3>3 DEF FrameFits
  <2> QED BY <2>1, <2>2
<1> QED BY <1>0, <1>1, <1>2, <1>3 DEF FitInv, TokensFit


\* A slot that is left with no more to answer than it had.
Less(r, q) ==
    /\ q.owes \in {None, r.owes} /\ q.deferred \in {None, r.deferred}
    /\ q.key \in {None, r.key} /\ q.client \in {None, r.client}
    /\ q.owes # None => q.alive = r.alive
    /\ Dialling(q) => Dialling(r)

LEMMA ErasingMore ==
  ASSUME NEW b, KeepsBelow(b), Height > 0 => Down[Height].op # "erase", NEW k, Erasing(k)
  PROVE  Erasing(k)'
<1>1. PICK p \in Depth : Down[p].op = "erase" /\ Down[p].on = k
  BY DEF Erasing
<1>2. Height \in Nat /\ Height' \in Nat /\ p \in 1 .. Height /\ p # Height
  BY <1>1 DEF KeepsBelow, Depth
<1>3. p \in 1 .. b /\ p \in Depth' /\ Down'[p] = Down[p]
  BY <1>2 DEF KeepsBelow, Depth
<1> QED BY <1>1, <1>3 DEF Erasing

\* A slot with no more to answer goes on answering right.
LEMMA AnswersLess ==
  ASSUME Typed, FitInv, setup' = setup, NEW t \in Slots, Less(slot[t], slot'[t]),
         \A d \in Clients : client'[d].req = client[d].req
  PROVE  AnswersAt(t)'
<1>0. Coalesced' = Coalesced /\ OnConnect' = OnConnect
  BY SetupKept DEF OnConnect
<1>r. PICK r, q : r = slot[t] /\ q = slot'[t]
  OBVIOUS
<1>1. Less(r, q) /\ AnswersAt(t) /\ r.client \in Clients \cup {None}
  BY <1>r DEF FitInv, Typed, SlotShape
<1>2. r.client # None => client'[r.client].req = client[r.client].req
  BY <1>1
<1>3. /\ ~OnConnect => q.deferred = None
      /\ OnConnect /\ q.owes # None => q.alive /\ ~Dialling(q)
  BY <1>r, <1>1 DEF AnswersAt, Less
<1>4. q.key # None => Fits(q, q.key)
  BY <1>r, <1>1 DEF AnswersAt, Less, Fits
<1>5. q.client # None => Fits(q, client'[q.client].req)
  <2>1. SUFFICES ASSUME q.client # None
                 PROVE  Fits(q, client'[q.client].req)
    OBVIOUS
  <2>2. q.client = r.client /\ Fits(r, client[r.client].req)
    BY <1>r, <1>1, <2>1 DEF AnswersAt, Less
  <2> QED BY <1>1, <1>2, <2>1, <2>2 DEF Less, Fits
<1> QED BY <1>0, <1>r, <1>3, <1>4, <1>5 DEF AnswersAt, Fits, Dialling, IsConnecting

LEMMA EarlyLess ==
  ASSUME FitInv, warm' > 0 => warm > 0, NEW t, \A s \in Slots \ {t} : slot'[s] = slot[s],
         t \in Slots => /\ slot'[t].owes \in {None, slot[t].owes}
                        /\ slot'[t].deferred \in {None, slot[t].deferred},
         \A d \in Clients : /\ client[d].co = "none" => client'[d].co = "none"
                            /\ client'[d].async => client[d].async
  PROVE  Early'
<1> SUFFICES ASSUME warm' > 0
             PROVE  /\ \A c \in Clients : client'[c].co = "none" /\ ~client'[c].async
                    /\ \A s \in Slots : slot'[s].owes = None /\ slot'[s].deferred = None
  BY DEF Early
<1>1. /\ \A c \in Clients : client[c].co = "none" /\ ~client[c].async
      /\ \A s \in Slots : slot[s].owes = None /\ slot[s].deferred = None
  BY DEF FitInv, Early
<1>2. \A c \in Clients : client'[c].co = "none" /\ ~client'[c].async
  BY <1>1
<1>3. ASSUME NEW s \in Slots
      PROVE  slot'[s].owes = None /\ slot'[s].deferred = None
  BY <1>1
<1> QED BY <1>2, <1>3

\* A step that gives no slot and no client anything to answer.
LEMMA FitHandler ==
  ASSUME Typed, FitInv, setup' = setup, warm' = warm, NEW b, KeepsBelow(b), NEW t,
         \A s \in Slots \ {t} : slot'[s] = slot[s],
         t \in Slots => Less(slot[t], slot'[t]),
         \A d \in Clients : Stays(d),
         \A k \in Coalesced : pending'[k].waiters = pending[k].waiters,
         Height > 0 => Down[Height].op # "erase",
         \A p \in Fresh(b) : FrameFits(p)'
  PROVE  FitInv'
<1>1. \A d \in Clients : Fixed(d) /\ client'[d].req = client[d].req
  BY DEF Fixed, Stays
<1>2. Early'
  BY EarlyLess DEF Less, Stays
<1>3. t \in Slots => AnswersAt(t)'
  BY <1>1, AnswersLess
<1>4. \A k \in Coalesced, d \in Clients : ~Erasing(k)' /\ Parked(k, d)' =>
         Unasked(b, d) \/ (~Erasing(k) /\ Parked(k, d))
  <2>1. \A k \in Coalesced : ~Erasing(k)' => ~Erasing(k)
    BY ErasingMore
  <2> QED BY <2>1 DEF Stays, Parked
<1>5. \A d \in Clients : Fixed(d) \/ Unasked(b, d)
  BY <1>1
<1> QED BY <1>2, <1>3, <1>4, <1>5, FitStep

\* A frame that brings no answer.
LEMMA BringsNothing ==
  ASSUME NEW p, Down'[p].op \in {"resume", "waiters"} => Down'[p].arg = None
  PROVE  FrameFits(p)'
BY DEF FrameFits

\* The number of connections to prewarm is the loop's.
LEMMA HandlerWarm ==
  ASSUME HandlerStep \/ \E c \in Clients : CoroutineStep(c)
  PROVE  warm' = warm
<1>1. CASE HandlerStep
  BY <1>1 DEF HandlerStep, Detach, FreeClient, ReleaseSlot, Resume, Waiters, Complete, Finish,
              ParseError, CloseSlot, ReleaseEndpoint, EraseEntry, NotifyClient, FreeSlot
<1>2. CASE \E c \in Clients : CoroutineStep(c)
  BY <1>2 DEF CoroutineStep, SendRefused, SendCoalesced, Send, SendUnserializable, ReserveSlot,
              Unpins, Returns
<1> QED BY <1>1, <1>2


LEMMA NotifyFit ==
  ASSUME SInv, FitInv, setup' = setup, NotifyClient
  PROVE  FitInv'
<1>h. PICK h, s, c : h = Height /\ s = Down[h].on /\ c = slot[s].client
  OBVIOUS
<1>0. Typed /\ warm' = warm
  BY HandlerWarm DEF SInv, HandlerStep
<1>1. /\ h \in Nat \ {0} /\ KeepsBelow(h - 1) /\ Down[h].op = "notify" /\ s \in Slots
      /\ slot' = [slot EXCEPT ![s].client = None] /\ pending' = pending /\ Unlinks(c)
      /\ Fresh(h - 1) = {h} /\ Down'[h] = Frame("resume", c, None)
  BY <1>h, <1>0, NotifyFacts
<1>2. Less(slot[s], slot'[s]) /\ \A t \in Slots \ {s} : slot'[t] = slot[t]
  BY <1>0, <1>1 DEF Typed, SlotShape, SlotFields, Less, Dialling, IsConnecting
<1>3. \A p \in Fresh(h - 1) : FrameFits(p)'
  BY <1>1, BringsNothing DEF Frame
<1>4. \A d \in Clients : Stays(d)
  BY <1>1 DEF Unlinks
<1> QED BY <1>0, <1>1, <1>2, <1>3, <1>4, <1>h, FitHandler

LEMMA ParseErrorFit ==
  ASSUME SInv, FitInv, setup' = setup, ParseError
  PROVE  FitInv'
<1>h. PICK h, s, c : h = Height /\ s = Down[h].on /\ c = slot[s].client
  OBVIOUS
<1>0. Typed /\ warm' = warm
  BY HandlerWarm DEF SInv, HandlerStep
<1>1. /\ h \in Nat \ {0} /\ KeepsBelow(h - 1) /\ Down[h].op = "parseError" /\ s \in Slots
      /\ slot' = [slot EXCEPT ![s].client = None] /\ pending' = pending /\ Unlinks(c)
      /\ Fresh(h - 1) = {h, h + 1}
      /\ Down'[h] = Frame("close", s, None) /\ Down'[h + 1] = Frame("resume", c, None)
  BY <1>h, <1>0, ParseErrorFacts
<1>2. Less(slot[s], slot'[s]) /\ \A t \in Slots \ {s} : slot'[t] = slot[t]
  BY <1>0, <1>1 DEF Typed, SlotShape, SlotFields, Less, Dialling, IsConnecting
<1>3. \A p \in Fresh(h - 1) : FrameFits(p)'
  BY <1>1, BringsNothing DEF Frame
<1>4. \A d \in Clients : Stays(d)
  BY <1>1 DEF Unlinks
<1> QED BY <1>0, <1>1, <1>2, <1>3, <1>4, <1>h, FitHandler

LEMMA CloseSlotFit ==
  ASSUME SInv, FitInv, setup' = setup, CloseSlot
  PROVE  FitInv'
<1>h. PICK h, s : h = Height /\ s = Down[h].on
  OBVIOUS
<1>0. Typed /\ warm' = warm
  BY HandlerWarm DEF SInv, HandlerStep
<1>1. /\ h \in Nat \ {0} /\ KeepsBelow(h - 1) /\ Down[h].op = "close" /\ s \in Slots
      /\ slot' = [slot EXCEPT ![s] = [slot[s] EXCEPT !.shutting = TRUE, !.ssl = FALSE]]
      /\ client' = client /\ pending' = pending
      /\ Fresh(h - 1) = {h} /\ Down'[h] = Frame("release", s, None)
  BY <1>h, <1>0, CloseSlotFacts
<1>2. Less(slot[s], slot'[s]) /\ \A t \in Slots \ {s} : slot'[t] = slot[t]
  BY <1>0, <1>1 DEF Typed, SlotShape, SlotFields, Less, Dialling, IsConnecting
<1>3. \A p \in Fresh(h - 1) : FrameFits(p)'
  BY <1>1, BringsNothing DEF Frame
<1>4. \A d \in Clients : Stays(d)
  BY <1>1, UnlinksNone
<1> QED BY <1>0, <1>1, <1>2, <1>3, <1>4, <1>h, FitHandler

LEMMA FreeSlotFit ==
  ASSUME SInv, FitInv, setup' = setup, FreeSlot
  PROVE  FitInv'
<1>h. PICK h, s : h = Height /\ s = Down[h].on
  OBVIOUS
<1>0. Typed /\ warm' = warm
  BY HandlerWarm DEF SInv, HandlerStep
<1>1. /\ h \in Nat \ {0} /\ KeepsBelow(h - 1) /\ Down[h].op = "free"
      /\ s \in Slots /\ slot' = [slot EXCEPT ![s] = Reset(slot[s])]
      /\ client' = client /\ pending' = pending /\ Fresh(h - 1) = {}
  BY <1>h, <1>0, FreeSlotFacts
<1>2. Less(slot[s], slot'[s])
  <2>1. slot'[s] = Reset(slot[s])
    BY <1>0, <1>1 DEF Typed
  <2>2. /\ slot'[s].owes = None /\ slot'[s].deferred = slot[s].deferred
        /\ slot'[s].key = None /\ slot'[s].client = None
        /\ slot'[s].ev = "ACCEPT" /\ ~slot'[s].onconn /\ ~slot'[s].awaiting
    BY <2>1 DEF Reset, Closed
  <2> QED BY <2>2 DEF Less, Dialling, IsConnecting
<1>3. \A t \in Slots \ {s} : slot'[t] = slot[t]
  BY <1>0, <1>1 DEF Typed
<1>4. \A d \in Clients : Stays(d)
  BY <1>1, UnlinksNone
<1> QED BY <1>0, <1>1, <1>2, <1>3, <1>4, <1>h, FitHandler

LEMMA ReleaseFit ==
  ASSUME SInv, FitInv, setup' = setup, ReleaseEndpoint
  PROVE  FitInv'
<1>h. PICK h, s, k : h = Height /\ s = Down[h].on /\ k = slot[s].key
  OBVIOUS
<1>0. Typed /\ warm' = warm
  BY HandlerWarm DEF SInv, HandlerStep
<1>1. /\ h \in Nat \ {0} /\ KeepsBelow(h - 1) /\ Down[h].op = "release" /\ s \in Slots
      /\ slot' = [slot EXCEPT ![s] = Released(slot[s])]
      /\ client' = client /\ pending' = pending
      /\ Down'[h] = Frame("free", s, None) /\ Down'[h + 1] = Frame("notify", s, None)
      /\ \/ Fresh(h - 1) = {h, h + 1}
         \/ /\ Fresh(h - 1) = {h, h + 1, h + 2, h + 3}
            /\ Down'[h + 2] = Frame("erase", k, None)
            /\ Down'[h + 3] = Frame("waiters", pending[k].waiters, None)
  BY <1>h, <1>0, ReleaseFacts
<1>2. Less(slot[s], slot'[s]) /\ \A t \in Slots \ {s} : slot'[t] = slot[t]
  BY <1>0, <1>1 DEF Typed, SlotShape, SlotFields, Less, Dialling, IsConnecting, Released
<1>3. ASSUME NEW p \in Fresh(h - 1)
      PROVE  FrameFits(p)'
  <2>1. Down'[p].op \notin {"resume", "waiters"} \/ Down'[p].arg = None
    BY <1>1 DEF Frame
  <2> QED BY <2>1, BringsNothing
<1>4. \A d \in Clients : Stays(d)
  BY <1>1, UnlinksNone
<1> QED BY <1>0, <1>1, <1>2, <1>3, <1>4, <1>h, FitHandler

LEMMA FinishFit ==
  ASSUME SInv, FitInv, setup' = setup, Finish
  PROVE  FitInv'
<1>h. PICK h, s, r : h = Height /\ s = Down[h].on /\ r = slot[s]
  OBVIOUS
<1>0. Typed /\ Expected /\ Carried /\ warm' = warm
  BY HandlerWarm DEF SInv, HandlerStep
<1>1. /\ h = 2 /\ KeepsBelow(1) /\ Down[2].op = "finish" /\ s \in Slots
      /\ client' = client /\ pending' = pending
      /\ \E x \in FinishEffects(s, slot[s], Down[2].arg) :
            /\ slot' = [slot EXCEPT ![s] = x.slot]
            /\ \/ Fresh(1) = {}
               \/ Fresh(1) = {2} /\ Down'[2] = Frame("release", s, None)
  BY <1>h, FinishFacts
<1>2. PICK x \in FinishEffects(s, r, Down[2].arg) :
            /\ slot' = [slot EXCEPT ![s] = x.slot]
            /\ \/ Fresh(1) = {}
               \/ Fresh(1) = {2} /\ Down'[2] = Frame("release", s, None)
  BY <1>1, <1>h
<1>3. /\ SlotShape(r) /\ Wired(r) /\ r.client = None /\ r.key = None /\ ~Dialling(r)
      /\ ~r.leased => ~r.reserved
  <2>1. 2 \in Depth
    BY <1>1, <1>h DEF Depth
  <2> QED BY <1>0, <1>1, <1>h, <2>1 DEF Expected, Carried, Typed
<1>4. /\ x.slot.client = None /\ x.slot.key = None /\ ~Dialling(x.slot)
      /\ x.slot.owes = None /\ x.slot.deferred = r.deferred
  <2>a. PICK a : a = Down[2].arg
    OBVIOUS
  <2>1. x \in FinishEffects(s, r, a)
    BY <2>a
  <2>2. SlotShape(r) /\ Wired(r) /\ r.client = None /\ r.key = None /\ ~Dialling(r)
    BY <1>3
  <2>3. ~r.leased => ~r.reserved
    BY <1>3
  <2>4. /\ SlotShape(x.slot) /\ Wired(x.slot) /\ ~Dialling(x.slot)
        /\ x.slot.client = None /\ x.slot.key = None
        /\ x.slot.gen = r.gen /\ x.slot.reserved = r.reserved
        /\ x.slot.owes = None /\ x.slot.deferred = r.deferred
        /\ ~x.slot.leased => ~x.slot.reserved
        /\ x.calls = <<>> \/ x.calls = <<Frame("release", s, None)>>
        /\ ~x.again /\ x.registers = None /\ ~x.unlinks
    BY <2>1, <2>2, <2>3, FinishEffect
  <2> QED BY <2>4
<1>5. slot'[s] = x.slot /\ \A t \in Slots \ {s} : slot'[t] = slot[t]
  BY <1>0, <1>1, <1>2 DEF Typed
<1>6. Less(slot[s], slot'[s])
  BY <1>h, <1>4, <1>5 DEF Less
<1>7. \A p \in Fresh(1) : FrameFits(p)'
  BY <1>2, BringsNothing DEF Frame
<1>8. \A d \in Clients : Stays(d)
  BY <1>1, UnlinksNone
<1> QED BY <1>0, <1>1, <1>5, <1>6, <1>7, <1>8, <1>h, FitHandler

LEMMA DetachFit ==
  ASSUME SInv, FitInv, setup' = setup, Detach
  PROVE  FitInv'
<1>h. PICK h, c, e : h = Height /\ c = Down[h].on /\ e = client[c].ep
  OBVIOUS
<1>0. Typed /\ warm' = warm
  BY HandlerWarm DEF SInv, HandlerStep
<1>r. PICK r : r = [slot[e] EXCEPT !.client = None, !.deferred = None]
  OBVIOUS
<1>1. /\ h = 2 /\ KeepsBelow(1) /\ Down[2].op = "detach" /\ Unlinks(c) /\ pending' = pending
      /\ \/ e = None /\ slot' = slot /\ Fresh(1) = {}
         \/ /\ e \in Slots /\ slot' = [slot EXCEPT ![e] = [r EXCEPT !.aborted = TRUE]]
            /\ Fresh(1) = {}
         \/ /\ e \in Slots
            /\ slot' = [slot EXCEPT ![e] = [r EXCEPT !.shutting = TRUE, !.ssl = FALSE]]
            /\ Fresh(1) = {2} /\ Down'[2] = Frame("release", e, None)
  BY <1>h, <1>r, DetachFacts
<1>2. \A p \in Fresh(1) : FrameFits(p)'
  BY <1>1, BringsNothing DEF Frame
<1>3. \A d \in Clients : Stays(d)
  BY <1>1 DEF Unlinks
<1>4. \A t \in Slots \ {e} : slot'[t] = slot[t]
  BY <1>0, <1>1 DEF Typed
<1>5. ASSUME e \in Slots
      PROVE  Less(slot[e], slot'[e])
  <2>1. DOMAIN slot[e] = SlotFields /\ DOMAIN slot = Slots /\ e # None
    BY <1>0, <1>5, SetsAssumption DEF Typed, SlotShape
  <2>2. DOMAIN r = SlotFields /\ Less(slot[e], r)
    BY <1>r, <2>1 DEF SlotFields, Less, Dialling, IsConnecting
  <2>3. \/ slot'[e] = [r EXCEPT !.aborted = TRUE]
        \/ slot'[e] = [r EXCEPT !.shutting = TRUE, !.ssl = FALSE]
    BY <1>1, <1>5, <2>1
  <2>4. /\ slot'[e].owes = r.owes /\ slot'[e].deferred = r.deferred /\ slot'[e].key = r.key
        /\ slot'[e].client = r.client /\ slot'[e].alive = r.alive
        /\ slot'[e].ev = r.ev /\ slot'[e].onconn = r.onconn /\ slot'[e].awaiting = r.awaiting
    BY <2>2, <2>3 DEF SlotFields
  <2> QED BY <2>2, <2>4 DEF Less, Dialling, IsConnecting
<1> QED BY <1>0, <1>1, <1>2, <1>3, <1>4, <1>5, <1>h, FitHandler


\* ReleaseSlot takes the reservation back, and may pool or close the slot.
LEMMA ReleaseSlotLess ==
  ASSUME Typed, ReleaseSlot
  PROVE  \E t : /\ \A s \in Slots \ {t} : slot'[s] = slot[s]
                /\ t \in Slots => Less(slot[t], slot'[t]) /\ slot'[t].key = slot[t].key
<1>s. PICK s, r : s = Top.arg.slot /\ r = [slot[s] EXCEPT !.reserved = FALSE]
  OBVIOUS
<1>1. \/ slot' = slot
      \/ HandleValid(Top.arg) /\ slot' = [slot EXCEPT ![s] = r]
      \/ HandleValid(Top.arg) /\ slot' = [slot EXCEPT ![s] = ReturnToPool(r)]
  BY <1>s DEF ReleaseSlot
<1>2. CASE slot' = slot
  <2>1. None \notin Slots
    BY SetsAssumption
  <2> QED BY <1>2, <2>1
<1>3. CASE s \in Slots
  <2>1. SlotShape(slot[s]) /\ Wired(slot[s]) /\ DOMAIN slot = Slots
    BY <1>3 DEF Typed
  <2>2. /\ SlotShape(r) /\ Wired(r) /\ Less(slot[s], r) /\ r.key = slot[s].key
    BY <1>s, <2>1 DEF SlotShape, SlotFields, Wired, Less, Dialling, IsConnecting
  <2>3. Less(slot[s], ReturnToPool(r)) /\ ReturnToPool(r).key = slot[s].key
    <3>q. PICK q : q = ReturnToPool(r)
      OBVIOUS
    <3>1. /\ Same(r, q) /\ q.ev = r.ev /\ q.onconn = r.onconn /\ q.awaiting = r.awaiting
      BY <2>2, <3>q, ReturnToPoolMoves
    <3>2. q.alive = r.alive
      BY <2>2, <3>q DEF ReturnToPool, SlotShape, SlotFields
    <3> QED BY <2>2, <3>q, <3>1, <3>2 DEF Same, Less, Dialling, IsConnecting
  <2>4. CASE slot' = [slot EXCEPT ![s] = r]
    <3>1. slot'[s] = r /\ \A t \in Slots \ {s} : slot'[t] = slot[t]
      BY <1>3, <2>1, <2>4
    <3> QED BY <2>2, <3>1
  <2>5. CASE slot' = [slot EXCEPT ![s] = ReturnToPool(r)]
    <3>1. slot'[s] = ReturnToPool(r) /\ \A t \in Slots \ {s} : slot'[t] = slot[t]
      BY <1>3, <2>1, <2>5
    <3> QED BY <2>3, <3>1
  <2> QED BY <1>1, <1>2, <2>4, <2>5
<1>4. CASE HandleValid(Top.arg)
  <2>1. Running("unpin")
    BY DEF ReleaseSlot
  <2>2. Top \in FrameType /\ Top.op = "unpin"
    BY <2>1, Tops
  <2>3. s \in Slots
    BY <1>s, <1>4, <2>2, FrameFacts DEF HandleValid, Pins
  <2> QED BY <1>3, <2>3
<1> QED BY <1>1, <1>2, <1>4

LEMMA ReleaseSlotFit ==
  ASSUME SInv, FitInv, setup' = setup, ReleaseSlot
  PROVE  FitInv'
<1>h. PICK h : h = Height
  OBVIOUS
<1>0. Typed /\ warm' = warm
  BY HandlerWarm DEF SInv, HandlerStep
<1>1. /\ h \in Nat \ {0} /\ KeepsBelow(h - 1) /\ Down[h].op = "unpin"
      /\ client' = client /\ pending' = pending
      /\ \/ Fresh(h - 1) = {}
         \/ /\ Fresh(h - 1) = {h}
            /\ \E s \in Slots : Down'[h] = Frame("release", s, None)
  BY <1>h, ReleaseSlotFacts
<1>2. PICK t : /\ \A s \in Slots \ {t} : slot'[s] = slot[s]
               /\ t \in Slots => Less(slot[t], slot'[t])
  BY <1>0, ReleaseSlotLess
<1>3. ASSUME NEW p \in Fresh(h - 1)
      PROVE  FrameFits(p)'
  <2>1. PICK s : Down'[p] = Frame("release", s, None)
    BY <1>1
  <2>2. Down'[p].op = "release"
    BY <2>1 DEF Frame
  <2> QED BY <2>2, BringsNothing
<1>4. \A d \in Clients : Stays(d)
  BY <1>1, UnlinksNone
<1> QED BY <1>0, <1>1, <1>2, <1>3, <1>4, <1>h, FitHandler

\* The next waiter is brought the answer of its own request.
LEMMA WaitersFit ==
  ASSUME SInv, FitInv, setup' = setup, Waiters
  PROVE  FitInv'
<1>h. PICK h, w, a : h = Height /\ w = Down[h].on /\ a = Down[h].arg
  OBVIOUS
<1>0. Typed /\ warm' = warm /\ None \notin Slots
  BY HandlerWarm, SetsAssumption DEF SInv, HandlerStep
<1>1. /\ h \in Nat \ {0} /\ KeepsBelow(h - 1) /\ Down[h].op = "waiters"
      /\ w \in Seq(Tokens) /\ slot' = slot /\ pending' = pending
      /\ \/ w = <<>> /\ client' = client /\ Fresh(h - 1) = {}
         \/ /\ w # <<>> /\ client' = client
            /\ Fresh(h - 1) = {h} /\ Down'[h] = Frame("waiters", Tail(w), a)
         \/ /\ w # <<>> /\ Unlinks(Head(w).on) /\ client[Head(w).on].gen = Head(w).gen
            /\ Fresh(h - 1) = {h, h + 1} /\ Down'[h] = Frame("waiters", Tail(w), a)
            /\ Down'[h + 1] = Frame("resume", Head(w).on, a)
  BY <1>h, <1>0, WaitersFacts
<1>2. \A d \in Clients : Stays(d)
  BY <1>1, UnlinksNone DEF Unlinks
<1>3. ASSUME NEW c \in Clients, a # None, Waits(w, c, client[c].gen)
      PROVE  client'[c].req = a
  <2>1. FrameFits(h) /\ client'[c].req = client[c].req
    BY <1>1, <1>2, <1>h DEF FitInv, Depth, Stays
  <2> QED BY <1>1, <1>3, <1>h, <2>1 DEF FrameFits
<1>4. ASSUME NEW p \in Fresh(h - 1)
      PROVE  FrameFits(p)'
  <2>1. w # <<>>
    BY <1>1, <1>4
  <2>2. CASE Down'[p] = Frame("waiters", Tail(w), a)
    <3>1. Down'[p].op = "waiters" /\ Down'[p].on = Tail(w) /\ Down'[p].arg = a
      BY <2>2 DEF Frame
    <3>2. ASSUME NEW c \in Clients, a # None, Waits(Tail(w), c, client'[c].gen)
          PROVE  client'[c].req = a
      <4>1. client'[c].gen = client[c].gen
        BY <1>2 DEF Stays
      <4>2. Waits(w, c, client[c].gen)
        BY <1>1, <2>1, <3>2, <4>1, WaitsTail
      <4> QED BY <1>3, <3>2, <4>2
    <3> QED BY <3>1, <3>2 DEF FrameFits
  <2>3. CASE /\ Down'[p] = Frame("resume", Head(w).on, a)
             /\ client[Head(w).on].gen = Head(w).gen
    <3>1. Down'[p].op = "resume" /\ Down'[p].on = Head(w).on /\ Down'[p].arg = a
      BY <2>3 DEF Frame
    <3>2. ASSUME NEW c \in Clients, a # None, Head(w).on = c
          PROVE  client'[c].req = a
      <4>1. Waits(w, c, client[c].gen)
        BY <1>1, <2>1, <2>3, <3>2, WaitsTail
      <4> QED BY <1>3, <3>2, <4>1
    <3> QED BY <3>1, <3>2 DEF FrameFits
  <2> QED BY <1>1, <1>4, <2>2, <2>3
<1> QED BY <1>0, <1>1, <1>2, <1>4, <1>h, FitHandler


\* A client that is resumed has been answered.
LEMMA ResumeFit ==
  ASSUME SInv, FitInv, setup' = setup, Resume
  PROVE  FitInv'
<1>h. PICK h, c, a : h = Height /\ c = Down[h].on /\ a = Down[h].arg
  OBVIOUS
<1>0. Typed /\ warm' = warm /\ None \notin Slots
  BY HandlerWarm, SetsAssumption DEF SInv, HandlerStep
<1>1. /\ h \in Nat \ {0} /\ KeepsBelow(h - 1) /\ Down[h].op = "resume"
      /\ slot' = slot /\ pending' = pending
      /\ \/ /\ Fresh(h - 1) = {h}
            /\ Down'[h] = Frame("run", c, IF a = None THEN "failed" ELSE "ok")
         \/ client' = client /\ Fresh(h - 1) = {}
  BY <1>h, <1>0, ResumeFacts
<1>2. \/ client' = client
      \/ /\ c \in Clients /\ client[c].async
         /\ client' = [client EXCEPT ![c].async = FALSE, ![c].co = "runs"]
  <2>1. Top = Down[h] /\ Down[h] \in FrameType
    BY <1>0, <1>h, Tops DEF Resume
  <2>2. c \in Clients \cup {None}
    BY <1>1, <1>h, <2>1, FrameFacts
  <2> QED BY <1>h, <2>1, <2>2 DEF Resume
<1>3. \A d \in Clients : Fixed(d)
  <2>1. CASE client' = client
    BY <2>1 DEF Fixed
  <2>2. CASE /\ c \in Clients
             /\ client' = [client EXCEPT ![c].async = FALSE, ![c].co = "runs"]
    BY <1>0, <2>2 DEF Fixed, Typed, ClientShape, ClientFields
  <2> QED BY <1>2, <2>1, <2>2
<1>4. Early'
  <2>1. CASE warm > 0
    <3>1. client' = client
      BY <1>2, <2>1 DEF FitInv, Early
    <3> QED BY <1>0, <1>1, <3>1 DEF FitInv, Early
  <2>2. CASE ~(warm > 0)
    BY <1>0, <2>2 DEF Early
  <2> QED BY <2>1, <2>2
<1>5. ASSUME NEW p \in Fresh(h - 1)
      PROVE  FrameFits(p)'
  <2>1. Down'[p].op = "run"
    BY <1>1 DEF Frame
  <2> QED BY <2>1, BringsNothing
<1>6. \A k \in Coalesced, d \in Clients : ~Erasing(k)' /\ Parked(k, d)' =>
         Unasked(h - 1, d) \/ (~Erasing(k) /\ Parked(k, d))
  <2>1. \A k \in Coalesced : ~Erasing(k)' => ~Erasing(k)
    BY <1>1, <1>h, ErasingMore
  <2> QED BY <1>1, <1>3, <2>1 DEF Fixed, Parked
<1>7. PICK t : t \notin Slots
  BY <1>0
<1> QED BY <1>0, <1>1, <1>3, <1>4, <1>5, <1>6, <1>7, FitStep

\* The waiters of the entry that is erased have been failed.
LEMMA EraseFit ==
  ASSUME SInv, FitInv, setup' = setup, EraseEntry
  PROVE  FitInv'
<1>h. PICK h, k : h = Height /\ k = Down[h].on
  OBVIOUS
<1>0. Typed /\ warm' = warm /\ None \notin Slots
  BY HandlerWarm, SetsAssumption DEF SInv, HandlerStep
<1>1. /\ h \in Nat \ {0} /\ KeepsBelow(h - 1) /\ Down[h].op = "erase" /\ h \in Depth
      /\ k \in Coalesced /\ slot' = slot /\ client' = client
      /\ \A l \in Coalesced : pending'[l] = IF l = k THEN NoEntry ELSE pending[l]
      /\ Fresh(h - 1) = {}
  BY <1>h, <1>0, EraseFacts
<1>2. Early' /\ \A d \in Clients : Fixed(d)
  BY <1>0, <1>1 DEF FitInv, Early, Fixed
<1>3. ASSUME NEW l \in Coalesced, NEW d \in Clients, ~Erasing(l)', Parked(l, d)'
      PROVE  Unasked(h - 1, d) \/ (~Erasing(l) /\ Parked(l, d))
  <2>1. CASE l = k
    BY <1>1, <1>3, <2>1, WaitsEmpty DEF NoEntry, Parked
  <2>2. CASE l # k
    <3>1. SUFFICES ASSUME Erasing(l)
                   PROVE  FALSE
      BY <1>1, <1>3, <2>2 DEF Parked
    <3>2. PICK p \in Depth : Down[p].op = "erase" /\ Down[p].on = l
      BY <3>1 DEF Erasing
    <3>3. Height \in Nat /\ Height' \in Nat /\ p \in 1 .. Height /\ p # Height
      BY <1>h, <2>2, <3>2, <1>1 DEF KeepsBelow, Depth
    <3>4. p \in 1 .. h - 1 /\ p \in Depth' /\ Down'[p] = Down[p]
      BY <1>1, <1>h, <3>3 DEF KeepsBelow, Depth
    <3> QED BY <1>3, <3>2, <3>4 DEF Erasing
  <2> QED BY <2>1, <2>2
<1>4. PICK t : t \notin Slots
  BY <1>0
<1> QED BY <1>0, <1>1, <1>2, <1>3, <1>4, FitStep

\* A client whose record is freed is asked for by nobody.
LEMMA FreeClientFit ==
  ASSUME SInv, FitInv, setup' = setup, FreeClient
  PROVE  FitInv'
<1>h. PICK h, c : h = Height /\ c = Down[h].on
  OBVIOUS
<1>0. /\ Typed /\ Linked /\ ParkedOnce /\ Closing /\ Placed /\ warm' = warm
      /\ None \notin Slots
  BY HandlerWarm, SetsAssumption DEF SInv, HandlerStep
<1>1. /\ h \in Nat \ {0} /\ KeepsBelow(h - 1) /\ Down[h].op = "freeClient" /\ c \in Clients
      /\ slot' = slot /\ pending' = pending /\ Fresh(h - 1) = {}
      /\ client'[c].co = "none" /\ ~client'[c].async /\ client'[c].gen = client[c].gen + 1
      /\ \A d \in Clients \ {c} : client'[d] = client[d]
  BY <1>h, <1>0, FreeClientFacts
<1>2. h = 1 /\ h \in Depth /\ client[c].ep = None
  <2>1. h \in Depth
    BY <1>1, <1>h DEF Depth
  <2>2. h = 1
    BY <1>0, <1>1, <2>1 DEF Placed
  <2>3. ~(Height > 1)
    BY <1>h, <2>2
  <2> QED BY <1>0, <1>1, <1>h, <2>1, <2>2, <2>3 DEF Closing
<1>3. \A s \in Slots : slot[s].client # c
  BY <1>0, <1>1, <1>2 DEF Linked
<1>4. \A k \in Coalesced : ~Parked(k, c)'
  <2>1. ASSUME NEW k \in Coalesced
        PROVE  ~Waits(pending'[k].waiters, c, client'[c].gen)
    <3>1. /\ pending'[k].waiters \in Seq(Tokens) /\ client[c].gen \in Nat
          /\ Old(pending'[k].waiters, c, client[c].gen)
      BY <1>0, <1>1 DEF Typed, ClientShape, ParkedOnce
    <3>2. ~Waits(pending'[k].waiters, c, client[c].gen + 1)
      BY <3>1, WaitsNext
    <3> QED BY <1>1, <3>2
  <2> QED BY <2>1 DEF Parked
<1>5. \A d \in Clients : Fixed(d) \/ Unasked(h - 1, d)
  <2>1. \A d \in Clients \ {c} : Fixed(d)
    BY <1>1 DEF Fixed
  <2>2. \A p \in 1 .. h - 1 : FALSE
    BY <1>2
  <2>3. Unasked(h - 1, c)
    BY <1>3, <1>4, <2>2 DEF Unasked
  <2> QED BY <2>1, <2>3
<1>6. Early'
  <2>1. \A d \in Clients : /\ client[d].co = "none" => client'[d].co = "none"
                           /\ client'[d].async => client[d].async
    BY <1>1
  <2>2. PICK t : t \notin Slots
    BY <1>0
  <2> QED BY <1>0, <1>1, <2>1, <2>2, EarlyLess
<1>7. \A k \in Coalesced, d \in Clients : ~Erasing(k)' /\ Parked(k, d)' =>
         Unasked(h - 1, d) \/ (~Erasing(k) /\ Parked(k, d))
  <2>1. \A k \in Coalesced : ~Erasing(k)' => ~Erasing(k)
    BY <1>1, <1>h, ErasingMore
  <2>2. \A d \in Clients \ {c} : client'[d].gen = client[d].gen
    BY <1>1
  <2> QED BY <1>1, <1>4, <2>1, <2>2 DEF Parked
<1>8. PICK t : t \notin Slots
  BY <1>0
<1> QED BY <1>0, <1>1, <1>5, <1>6, <1>7, <1>8, FitStep


\* The answer that has arrived is brought to the client and to the waiters of the key.
LEMMA CompleteFit ==
  ASSUME SInv, FitInv, setup' = setup, Complete
  PROVE  FitInv'
<1>s. PICK s, c, k, o, a : /\ s = Down[Height].on /\ c = slot[s].client /\ k = slot[s].key
                           /\ o = slot[s].owes /\ a = Down[Height].arg
  OBVIOUS
<1>0. Typed /\ Placed /\ warm' = warm /\ None \notin Clients
  BY HandlerWarm, SetsAssumption DEF SInv, HandlerStep
<1>1. /\ Height = 1 /\ KeepsBelow(0) /\ Down[1].op = "complete"
      /\ s \in Slots /\ c \in Clients \cup {None} /\ k \in Coalesced \cup {None}
      /\ slot' = [slot EXCEPT ![s] = Completed(slot[s])]
      /\ k = None => pending' = pending
      /\ k # None => pending'[k] = NoEntry
      /\ \A l \in Coalesced : l # k => pending'[l] = pending[l]
      /\ Unlinks(c)
      /\ Fresh(0) = {1, 2, 3}
      /\ Down'[1] = Frame("resume", c, o) /\ Down'[2] = Frame("finish", s, a)
      /\ Down'[3] = Frame("waiters", WaitersOf(k), o)
  BY <1>s, <1>0, CompleteFacts
<1>2. Less(slot[s], slot'[s]) /\ \A t \in Slots \ {s} : slot'[t] = slot[t]
  BY <1>0, <1>1 DEF Typed, SlotShape, SlotFields, Less, Dialling, IsConnecting, Completed
<1>3. \A d \in Clients : /\ client'[d].gen = client[d].gen /\ client'[d].req = client[d].req
                         /\ client'[d].co = client[d].co /\ client'[d].async = client[d].async
  BY <1>1 DEF Unlinks, Stays
<1>4. \A d \in Clients : Fixed(d)
  BY <1>3 DEF Fixed
<1>5. AnswersAt(s)'
  BY <1>0, <1>1, <1>2, <1>3, AnswersLess
<1>6. Early'
  BY <1>0, <1>2, <1>3, EarlyLess DEF Less
<1>7. \A l \in Coalesced : ~Erasing(l)
  <2>1. \A p \in Depth : Down[p].op # "erase"
    BY <1>0, <1>1 DEF Placed, Depth
  <2> QED BY <2>1 DEF Erasing
<1>8. \A l \in Coalesced, d \in Clients : ~Erasing(l)' /\ Parked(l, d)' =>
         Unasked(0, d) \/ (~Erasing(l) /\ Parked(l, d))
  <2>1. ASSUME NEW l \in Coalesced, NEW d \in Clients, Parked(l, d)'
        PROVE  Parked(l, d)
    <3>1. pending'[l] # NoEntry
      BY <2>1, WaitsEmpty DEF Parked, NoEntry
    <3>2. pending'[l] = pending[l]
      BY <1>1, <3>1
    <3> QED BY <1>3, <2>1, <3>2 DEF Parked
  <2> QED BY <1>7, <2>1
<1>9. AnswersAt(s)
  BY <1>1 DEF FitInv
<1>10. ASSUME NEW p \in Fresh(0)
       PROVE  FrameFits(p)'
  <2>1. CASE p = 1
    <3>1. Down'[p].op = "resume" /\ Down'[p].on = c /\ Down'[p].arg = o
      BY <1>1, <2>1 DEF Frame
    <3>2. ASSUME NEW d \in Clients, c = d, o # None
          PROVE  client'[d].req = o
      BY <1>0, <1>s, <1>3, <1>9, <3>2 DEF AnswersAt, Fits
    <3> QED BY <3>1, <3>2 DEF FrameFits
  <2>2. CASE p = 2
    <3>1. Down'[p].op = "finish"
      BY <1>1, <2>2 DEF Frame
    <3> QED BY <3>1, BringsNothing
  <2>3. CASE p = 3
    <3>1. Down'[p].op = "waiters" /\ Down'[p].on = WaitersOf(k) /\ Down'[p].arg = o
      BY <1>1, <2>3 DEF Frame
    <3>2. ASSUME NEW d \in Clients, o # None, Waits(WaitersOf(k), d, client'[d].gen)
          PROVE  client'[d].req = o
      <4>1. k # None
        BY <3>2, WaitsEmpty DEF WaitersOf
      <4>2. k \in Coalesced /\ Parked(k, d)
        BY <1>1, <1>3, <3>2, <4>1 DEF WaitersOf, Parked
      <4>3. client[d].req = k
        BY <1>7, <4>2 DEF FitInv, TokensFit
      <4>4. o = k
        BY <1>s, <1>9, <3>2, <4>1 DEF AnswersAt, Fits
      <4> QED BY <1>3, <4>3, <4>4
    <3> QED BY <3>1, <3>2 DEF FrameFits
  <2> QED BY <1>1, <2>1, <2>2, <2>3
<1> QED BY <1>0, <1>1, <1>2, <1>4, <1>5, <1>6, <1>8, <1>10, FitStep

-------------------------------------------------------------------------------
(* The coroutine that runs, and what it sends. *)

\* A step of a coroutine on no slot.
LEMMA SpeaksFit ==
  ASSUME SInv, FitInv, setup' = setup, NEW c \in Clients, CoroutineStep(c), NEW b, KeepsBelow(b),
         slot' = slot, pending' = pending, Height > 0 => Down[Height].op # "erase",
         \A d \in Clients : Stays(d) \/ (client[d].co # "none" /\ Fixed(d)),
         \A p \in Fresh(b) : Down'[p].op \notin {"resume", "waiters"}
  PROVE  FitInv'
<1>0. Typed /\ warm' = warm /\ None \notin Slots
  BY HandlerWarm, SetsAssumption DEF SInv
<1>1. PICK t : t \notin Slots
  BY <1>0
<1>2. \A d \in Clients : Fixed(d)
  BY DEF Stays, Fixed
<1>3. Early'
  <2>1. \A d \in Clients : /\ client[d].co = "none" => client'[d].co = "none"
                           /\ client'[d].async => client[d].async
    BY DEF Stays, Fixed
  <2> QED BY <1>0, <1>1, <2>1, EarlyLess
<1>4. \A k \in Coalesced, d \in Clients : ~Erasing(k)' /\ Parked(k, d)' =>
         Unasked(b, d) \/ (~Erasing(k) /\ Parked(k, d))
  <2>1. \A k \in Coalesced : ~Erasing(k)' => ~Erasing(k)
    BY ErasingMore
  <2> QED BY <1>2, <2>1 DEF Fixed, Parked
<1>5. \A p \in Fresh(b) : FrameFits(p)'
  BY BringsNothing
<1> QED BY <1>0, <1>1, <1>2, <1>3, <1>4, <1>5, FitStep

LEMMA SpeaksOnlyFit ==
  ASSUME SInv, FitInv, setup' = setup, NEW c \in Clients,
         SendRefused(c) \/ Unpins(c) \/ Returns(c)
  PROVE  FitInv'
<1>h. PICK h, g : h = Height /\ g = Down[h]
  OBVIOUS
<1>1. Runs(c) /\ CoroutineStep(c)
  BY DEF SendRefused, Calls, Unpins, Returns, CoroutineStep
<1>2. /\ Down[h].op = "run" /\ client[c].co = "runs"
  BY <1>1, <1>h, RunsFacts
<1>3. CASE SendRefused(c)
  <2>1. /\ KeepsBelow(h - 1) /\ Fresh(h - 1) = {h} /\ Down'[h] = Frame("run", c, "failed")
        /\ slot' = slot /\ client' = client /\ pending' = pending
    BY <1>3, <1>h, SendRefusedFacts
  <2>2. \A d \in Clients : Stays(d) \/ (client[d].co # "none" /\ Fixed(d))
    BY <2>1, UnlinksNone
  <2>3. \A p \in Fresh(h - 1) : Down'[p].op \notin {"resume", "waiters"}
    BY <2>1 DEF Frame
  <2> QED BY <1>1, <1>2, <1>h, <2>1, <2>2, <2>3, SpeaksFit
<1>4. CASE Unpins(c)
  <2>1. /\ KeepsBelow(h - 1) /\ Fresh(h - 1) = {h, h + 1} /\ Down'[h] = g
        /\ Down'[h + 1] = Frame("unpin", c, client[c].pin)
        /\ slot' = slot /\ pending' = pending
        /\ \A d \in Clients : Stays(d) \/ (client[d].co # "none" /\ Fixed(d))
    BY <1>4, <1>h, UnpinsFacts
  <2>2. \A p \in Fresh(h - 1) : Down'[p].op \notin {"resume", "waiters"}
    BY <1>2, <1>h, <2>1 DEF Frame
  <2> QED BY <1>1, <1>2, <1>h, <2>1, <2>2, SpeaksFit
<1>5. CASE Returns(c)
  <2>1. /\ KeepsBelow(h - 1) /\ Fresh(h - 1) = {} /\ slot' = slot /\ pending' = pending
    BY <1>5, <1>h, ReturnsFacts
  <2>2. \A d \in Clients : Stays(d) \/ (client[d].co # "none" /\ Fixed(d))
    <3>1. client' = [client EXCEPT ![c].co = "done"] /\ Typed
      BY <1>5 DEF Returns, SInv
    <3> QED BY <1>2, <3>1 DEF Typed, ClientShape, ClientFields, Stays, Fixed
  <2> QED BY <1>1, <1>2, <1>h, <2>1, <2>2, SpeaksFit
<1> QED BY <1>3, <1>4, <1>5


\* The slot a coroutine takes, as it takes it.
LEMMA TakesFits ==
  ASSUME SInv, FitInv, NEW c \in Clients, NEW s \in Slots, Takes(c, s),
         NEW r, r = IF Holds(c, s) THEN slot[s] ELSE Lease(slot[s])
  PROVE  /\ SlotShape(r) /\ r.client = None /\ r.key = None /\ ~Dialling(r)
         /\ r.owes = slot[s].owes /\ r.deferred = slot[s].deferred /\ r.alive = slot[s].alive
         /\ slot[s].client = None /\ slot[s].key = None
         /\ ~OnConnect => r.deferred = None
         /\ OnConnect /\ r.owes # None => r.alive
<1>1. /\ SlotShape(r) /\ r.client = None /\ r.key = None /\ ~Dialling(r)
  BY TakesRecord
<1>2. slot[s].client = None /\ slot[s].key = None
  BY TakesUntouched
<1>3. SlotShape(slot[s]) /\ AnswersAt(s)
  BY DEF SInv, Typed, FitInv
<1>4. r.owes = slot[s].owes /\ r.deferred = slot[s].deferred /\ r.alive = slot[s].alive
  BY <1>3 DEF SlotShape, SlotFields, Lease
<1>5. (~OnConnect => r.deferred = None) /\ (OnConnect /\ r.owes # None => r.alive)
  BY <1>3, <1>4 DEF AnswersAt
<1> QED BY <1>1, <1>2, <1>4, <1>5

LEMMA SendUnserializableFit ==
  ASSUME SInv, FitInv, setup' = setup, NEW c \in Clients, NEW s \in Slots,
         SendUnserializable(c, s)
  PROVE  FitInv'
<1>h. PICK h, r : h = Height /\ r = IF Holds(c, s) THEN slot[s] ELSE Lease(slot[s])
  OBVIOUS
<1>0. Typed /\ warm' = warm
  BY HandlerWarm DEF SInv, CoroutineStep
<1>1. /\ KeepsBelow(h - 1) /\ Fresh(h - 1) = {h, h + 1}
      /\ Down'[h] = Frame("run", c, "failed") /\ Down'[h + 1] = Frame("release", s, None)
      /\ Takes(c, s)
      /\ slot'[s] = Shut(r) /\ \A t \in Slots \ {s} : slot'[t] = slot[t]
      /\ client' = client /\ pending' = pending
  BY <1>h, SendUnserializableFacts
<1>2. Down[h].op = "run"
  BY <1>1, <1>h, RunsFacts DEF Takes, Calls
<1>3. /\ SlotShape(r) /\ r.client = None /\ r.key = None /\ ~Dialling(r)
      /\ r.owes = slot[s].owes /\ r.deferred = slot[s].deferred /\ r.alive = slot[s].alive
  BY <1>1, <1>h, TakesFits
<1>4. Less(slot[s], slot'[s])
  BY <1>1, <1>3 DEF Shut, SlotShape, SlotFields, Less, Dialling, IsConnecting
<1>5. \A p \in Fresh(h - 1) : FrameFits(p)'
  BY <1>1, BringsNothing DEF Frame
<1>6. \A d \in Clients : Stays(d)
  BY <1>1, UnlinksNone
<1> QED BY <1>0, <1>1, <1>2, <1>4, <1>5, <1>6, <1>h, FitHandler

LEMMA ReserveSlotFit ==
  ASSUME SInv, FitInv, setup' = setup, NEW c \in Clients, NEW s \in Slots, ReserveSlot(c, s)
  PROVE  FitInv'
<1>h. PICK h : h = Height
  OBVIOUS
<1>0. Typed /\ warm' = warm
  BY HandlerWarm DEF SInv, CoroutineStep
<1>1. /\ KeepsBelow(h - 1) /\ Fresh(h - 1) = {h} /\ Down'[h] = Down[h]
      /\ slot' = [slot EXCEPT ![s] = [Lease(@) EXCEPT !.reserved = TRUE]]
      /\ Takes(c, s) /\ pending' = pending
      /\ \A d \in Clients : Stays(d) /\ client'[d].ep = client[d].ep
  BY <1>h, ReserveSlotFacts
<1>2. Down[h].op = "run"
  BY <1>1, <1>h, RunsFacts DEF Takes, Calls
<1>3. Less(slot[s], slot'[s]) /\ \A t \in Slots \ {s} : slot'[t] = slot[t]
  BY <1>0, <1>1 DEF Typed, SlotShape, SlotFields, Less, Dialling, IsConnecting, Lease
<1>4. \A p \in Fresh(h - 1) : FrameFits(p)'
  BY <1>1, <1>2, BringsNothing
<1> QED BY <1>0, <1>1, <1>2, <1>3, <1>4, <1>h, FitHandler

\* A request joins the waiters of its own key.
LEMMA SendCoalescedFit ==
  ASSUME SInv, FitInv, setup' = setup, NEW c \in Clients, NEW req \in Reqs,
         SendCoalesced(c, req)
  PROVE  FitInv'
<1>h. PICK h : h = Height
  OBVIOUS
<1>0. Typed /\ Linked /\ warm' = warm /\ None \notin Slots
  BY HandlerWarm, SetsAssumption DEF SInv, CoroutineStep
<1>1. /\ KeepsBelow(h - 1) /\ Fresh(h - 1) = {}
      /\ req \in Coalesced /\ slot' = slot
      /\ \A k \in Coalesced \ {req} : pending'[k].waiters = pending[k].waiters
      /\ pending'[req].waiters = Append(pending[req].waiters, Source(c, client[c].gen))
      /\ \A d \in Clients \ {c} : client'[d] = client[d]
      /\ client'[c].req = req /\ client'[c].gen = client[c].gen
  BY <1>h, SendCoalescedFacts
<1>2. /\ h \in Nat \ {0} /\ Down[h].op = "run" /\ client[c].ep = None /\ client[c].co = "runs"
      /\ \A p \in 1 .. h - 1 : ~Woken(p, c)
      /\ \A k \in Coalesced : ~Erasing(k) => ~Parked(k, c)
  BY <1>h, RunsFacts DEF SendCoalesced, Calls
<1>3. \A k \in Coalesced : ~Erasing(k)' => ~Erasing(k)
  BY <1>1, <1>2, <1>h, ErasingMore
<1>4. ASSUME NEW k \in Coalesced, NEW d \in Clients, ~Erasing(k)', Parked(k, d)'
      PROVE  d = c \/ (~Erasing(k) /\ Parked(k, d))
  <2>1. SUFFICES ASSUME d # c
                 PROVE  Parked(k, d)
    BY <1>3, <1>4
  <2>2. client'[d].gen = client[d].gen
    BY <1>1, <2>1
  <2>3. CASE k = req
    <3>1. /\ pending[req].waiters \in Seq(Tokens) /\ client[c].gen \in Nat
          /\ client[d].gen \in Nat
      BY <1>0, <1>1 DEF Typed, ClientShape
    <3>2. Waits(Append(pending[req].waiters, Source(c, client[c].gen)), d, client[d].gen)
          <=> Waits(pending[req].waiters, d, client[d].gen) \/ (c = d /\ client[c].gen = client[d].gen)
      BY <3>1, WaitsAppend
    <3> QED BY <1>1, <1>4, <2>1, <2>2, <2>3, <3>2 DEF Parked
  <2>4. CASE k # req
    BY <1>1, <1>4, <2>2, <2>4 DEF Parked
  <2> QED BY <2>3, <2>4
<1>5. Unasked(h - 1, c)
  <2>1. \A s \in Slots : slot[s].client # c
    BY <1>0, <1>2 DEF Linked
  <2>2. \A p \in 1 .. h - 1 : ~Woken(p, c)'
    BY <1>1, <1>2 DEF Woken, KeepsBelow
  <2>3. \A k \in Coalesced : ~Erasing(k)' /\ Parked(k, c)' => client'[c].req = k
    BY <1>1, <1>2, <1>3 DEF Parked
  <2> QED BY <2>1, <2>2, <2>3 DEF Unasked
<1>6. \A d \in Clients : Fixed(d) \/ Unasked(h - 1, d)
  BY <1>1, <1>5 DEF Fixed
<1>7. Early'
  <2>1. ~(warm > 0)
    BY <1>2 DEF FitInv, Early
  <2> QED BY <1>0, <2>1 DEF Early
<1>8. \A k \in Coalesced, d \in Clients : ~Erasing(k)' /\ Parked(k, d)' =>
         Unasked(h - 1, d) \/ (~Erasing(k) /\ Parked(k, d))
  BY <1>4, <1>5
<1>9. PICK t : t \notin Slots
  BY <1>0
<1>10. /\ \A s \in Slots \ {t} : slot'[s] = slot[s]
       /\ \A p \in Fresh(h - 1) : FrameFits(p)'
  BY <1>1
<1> QED BY <1>0, <1>1, <1>6, <1>7, <1>8, <1>9, <1>10, FitStep


\* A request that is sent is what its slot owes, or owes once it is connected.
LEMMA SendFit ==
  ASSUME SInv, FitInv, setup' = setup, NEW c \in Clients, NEW req \in Reqs, NEW s \in Slots,
         Send(c, req, s)
  PROVE  FitInv'
<1>h. PICK h, key, r : /\ h = Height /\ key = (IF Holds(c, s) THEN None ELSE KeyOf(req))
                       /\ r = (IF Holds(c, s) THEN slot[s] ELSE Lease(slot[s]))
  OBVIOUS
<1>0. Typed /\ Linked /\ warm' = warm /\ None \notin Clients \cup Slots
  BY HandlerWarm, SetsAssumption DEF SInv, CoroutineStep
<1>1. /\ Calls(c) /\ Takes(c, s) /\ KeepsBelow(h - 1)
      /\ key # None => key = req
      /\ \A d \in Clients \ {c} : client'[d] = client[d]
      /\ client'[c].req = req /\ client'[c].gen = client[c].gen
      /\ \A k \in Coalesced : pending'[k].waiters = pending[k].waiters
      /\ \E q : /\ slot' = [slot EXCEPT ![s] = q]
                /\ q.key = key
                /\ Bears(r, q, req)
                /\ \/ q.client = c /\ Fresh(h - 1) = {}
                   \/ /\ q.client = None
                      /\ Fresh(h - 1) = {h, h + 1} /\ Down'[h] = Frame("run", c, "failed")
                      /\ \E why \in {None, "refused"} :
                            Down'[h + 1] = Frame("release", s, why)
  BY <1>h, SendFacts
<1>2. PICK q : /\ slot' = [slot EXCEPT ![s] = q]
               /\ q.key = key
               /\ Bears(r, q, req)
               /\ \/ q.client = c /\ Fresh(h - 1) = {}
                  \/ /\ q.client = None
                     /\ Fresh(h - 1) = {h, h + 1} /\ Down'[h] = Frame("run", c, "failed")
                     /\ \E why \in {None, "refused"} :
                           Down'[h + 1] = Frame("release", s, why)
  BY <1>1
<1>3. /\ h \in Nat \ {0} /\ Down[h].op = "run" /\ client[c].ep = None /\ client[c].co = "runs"
      /\ \A p \in 1 .. h - 1 : ~Woken(p, c)
      /\ \A k \in Coalesced : ~Erasing(k) => ~Parked(k, c)
  BY <1>1, <1>h, RunsFacts DEF Calls
<1>4. \A k \in Coalesced : ~Erasing(k)' => ~Erasing(k)
  BY <1>1, <1>3, <1>h, ErasingMore
<1>5. slot'[s] = q /\ \A t \in Slots \ {s} : slot'[t] = slot[t]
  BY <1>0, <1>2 DEF Typed
<1>6. AnswersAt(s)'
  <2>1. /\ ~OnConnect => r.deferred = None
        /\ OnConnect /\ r.owes # None => r.alive
    BY <1>1, <1>h, TakesFits
  <2>2. /\ ~OnConnect => q.deferred = None
        /\ OnConnect /\ q.owes # None => q.alive /\ ~Dialling(q)
    BY <1>2, <2>1 DEF Bears
  <2>3. Fits(q, req)
    BY <1>2, <2>1 DEF Bears, Fits
  <2>4. OnConnect' = OnConnect
    BY DEF OnConnect
  <2>5. /\ q.key # None => q.key = req
        /\ q.client # None => client'[q.client].req = req
    BY <1>1, <1>2
  <2>6. /\ q.key # None => Fits(q, q.key)
        /\ q.client # None => Fits(q, client'[q.client].req)
    BY <2>3, <2>5
  <2> QED BY <1>5, <2>2, <2>4, <2>6 DEF AnswersAt, Fits, Dialling, IsConnecting
<1>7. Unasked(h - 1, c)
  <2>1. \A t \in Slots : slot[t].client # c
    BY <1>0, <1>3 DEF Linked
  <2>2. \A p \in 1 .. h - 1 : ~Woken(p, c)'
    BY <1>1, <1>3 DEF Woken, KeepsBelow
  <2>3. \A k \in Coalesced : ~Erasing(k)' /\ Parked(k, c)' => client'[c].req = k
    BY <1>1, <1>3, <1>4 DEF Parked
  <2> QED BY <2>1, <2>2, <2>3 DEF Unasked
<1>8. \A d \in Clients : Fixed(d) \/ Unasked(h - 1, d)
  BY <1>1, <1>7 DEF Fixed
<1>9. Early'
  <2>1. ~(warm > 0)
    BY <1>3 DEF FitInv, Early
  <2> QED BY <1>0, <2>1 DEF Early
<1>10. \A k \in Coalesced, d \in Clients : ~Erasing(k)' /\ Parked(k, d)' =>
          Unasked(h - 1, d) \/ (~Erasing(k) /\ Parked(k, d))
  <2>1. \A d \in Clients : client'[d].gen = client[d].gen
    BY <1>1
  <2> QED BY <1>1, <1>4, <2>1 DEF Parked
<1>11. ASSUME NEW p \in Fresh(h - 1)
       PROVE  FrameFits(p)'
  <2>1. Down'[p].op \in {"run", "release"}
    <3>1. CASE p = h
      BY <1>2, <1>11, <3>1 DEF Frame
    <3>2. CASE p = h + 1
      <4>1. PICK why : Down'[h + 1] = Frame("release", s, why)
        BY <1>2, <1>11
      <4> QED BY <3>2, <4>1 DEF Frame
    <3> QED BY <1>2, <1>11, <3>1, <3>2
  <2> QED BY <2>1, BringsNothing
<1> QED BY <1>0, <1>1, <1>5, <1>6, <1>8, <1>9, <1>10, <1>11, FitStep

LEMMA CoroutineStepFit ==
  ASSUME SInv, FitInv, setup' = setup, NEW c \in Clients, CoroutineStep(c)
  PROVE  FitInv'
BY SpeaksOnlyFit, SendCoalescedFit, SendFit, SendUnserializableFit, ReserveSlotFit
   DEF CoroutineStep

LEMMA HandlerFit ==
  ASSUME SInv, FitInv, setup' = setup, HandlerStep
  PROVE  FitInv'
BY DetachFit, FreeClientFit, ReleaseSlotFit, ResumeFit, WaitersFit, CompleteFit, FinishFit,
   ParseErrorFit, CloseSlotFit, ReleaseFit, EraseFit, NotifyFit, FreeSlotFit DEF HandlerStep


-------------------------------------------------------------------------------
(* Events: a slot that is connected stays so, and one that connects may turn *)
(* its deferred request into what it owes.                                   *)

LEMMA SelfRests ==
  ASSUME NEW s, NEW r, SlotShape(r), ~Dialling(r), NEW t
  PROVE  /\ Rests(r, r) /\ Rests(r, CloseForce(s, r).slot)
         /\ LET q == [r EXCEPT !.shutting = TRUE] IN Rests(r, CloseForce(s, q).slot)
         /\ LET q == [r EXCEPT !.timer = t] IN Rests(r, CloseForce(s, q).slot)
BY DEF Rests, CloseForce, CloseFor, Does, SlotShape, SlotFields, Dialling, IsConnecting

LEMMA EventRests ==
  ASSUME NEW s, NEW r, SlotShape(r), ~Dialling(r), NEW x \in HandleEndpointEvent(s, r)
  PROVE  Rests(r, x.slot)
<1>0. ~IsConnecting(r) /\ ~r.onconn /\ r.ev \notin {"CONNECT", "HANDSHAKE", "ONCONNECT"}
  BY DEF Dialling, IsConnecting
<1>r. Rests(r, r)
  BY DEF Rests
<1>1. ASSUME x \in Ignored(r)
      PROVE  Rests(r, x.slot)
  <2>1. x.slot = r
    BY <1>1 DEF Ignored, Does
  <2> QED BY <1>r, <2>1
<1>2. ASSUME x \in FailEndpointIO(s, r)
      PROVE  Rests(r, x.slot)
  BY <1>0, <1>2, CloseGentlyRests DEF FailEndpointIO
<1>3. ASSUME x \in HandleReceiveSingleSlot(s, r)
      PROVE  Rests(r, x.slot)
  <2>1. CASE x \in Ignored(r)
    BY <1>1, <2>1
  <2>2. CASE x = CloseForce(s, [r EXCEPT !.shutting = TRUE])
    BY <2>2, SelfRests
  <2>3. CASE \E calls : x = Does(r, calls)
    <3>1. x.slot = r
      BY <2>3 DEF Does
    <3> QED BY <1>r, <3>1
  <2> QED BY <1>3, <2>1, <2>2, <2>3 DEF HandleReceiveSingleSlot
<1>4. ASSUME x \in HandleEndpointEpollIn(s, r)
      PROVE  Rests(r, x.slot)
  <2>1. CASE r.ev = "RECV"
    <3>1. x \in FailEndpointIO(s, r) \/ x \in HandleReceiveSingleSlot(s, r)
          \/ x \in HandleEndpointPush(s, r)
      BY <1>4, <2>1 DEF HandleEndpointEpollIn
    <3>2. CASE x \in HandleEndpointPush(s, r)
      BY <1>1, <3>2, SelfRests DEF HandleEndpointPush
    <3> QED BY <1>2, <1>3, <3>1, <3>2
  <2>2. CASE r.ev # "RECV"
    <3>1. x \in Ignored(r)
      BY <1>0, <1>4, <2>2 DEF HandleEndpointEpollIn
    <3> QED BY <1>1, <3>1
  <2> QED BY <2>1, <2>2
<1>5. ASSUME x \in HandleEndpointWriteReady(s, r)
      PROVE  Rests(r, x.slot)
  <2>1. CASE r.ev = "SEND"
    <3>1. x \in SendBytes(s, r)
      BY <1>0, <1>5, <2>1 DEF HandleEndpointWriteReady
    <3> QED BY <3>1, SendBytesRests
  <2>2. CASE r.ev # "SEND"
    <3>1. x \in Ignored(r)
      BY <1>0, <1>5, <2>2 DEF HandleEndpointWriteReady
    <3> QED BY <1>1, <3>1
  <2> QED BY <2>1, <2>2
<1>6. CASE r.ev = "SHUTDOWN"
  <2>q. PICK q, f : q = [r EXCEPT !.ssl = FALSE] /\ f = Frame("release", s, None)
    OBVIOUS
  <2>1. x \in Ignored(r) \/ x = Does(q, <<f>>)
    BY <1>6, <2>q DEF HandleEndpointEvent
  <2>2. CASE x = Does(q, <<f>>)
    <3>1. x.slot = q
      BY <2>2 DEF Does
    <3>2. Rests(r, q)
      BY <2>q DEF Rests, SlotShape, SlotFields, Dialling, IsConnecting
    <3> QED BY <3>1, <3>2
  <2> QED BY <1>1, <2>1, <2>2
<1>7. CASE r.ev # "SHUTDOWN"
  <2>1. x \in FailEndpointIO(s, r) \/ x \in HandleEndpointEpollIn(s, r)
        \/ x \in HandleEndpointWriteReady(s, r)
    BY <1>0, <1>7 DEF HandleEndpointEvent
  <2> QED BY <1>2, <1>4, <1>5, <2>1
<1> QED BY <1>6, <1>7

LEMMA ExpiryRests ==
  ASSUME NEW s, NEW r, SlotShape(r), ~Dialling(r),
         NEW x \in HandleExpiry(s, [r EXCEPT !.timer = "none"])
  PROVE  Rests(r, x.slot)
<1>q. PICK q : q = [r EXCEPT !.timer = "none"]
  OBVIOUS
<1>1. ~IsConnecting(q)
  BY <1>q DEF SlotShape, SlotFields, Dialling, IsConnecting
<1>2. x = CloseForce(s, q)
  BY <1>q, <1>1 DEF HandleExpiry
<1> QED BY <1>q, <1>2, SelfRests


LEMMA HappensFit ==
  ASSUME SInv, FitInv, setup' = setup, stack = <<>>, ~(warm' > 0), NEW s \in Slots, NEW x,
         Happens(s, x), ~Dialling(slot[s]) => Rests(slot[s], x.slot)
  PROVE  FitInv'
<1>q. PICK r, q : r = slot[s] /\ q = x.slot
  OBVIOUS
<1>0. Typed /\ OnConnect' = OnConnect /\ SlotShape(r) /\ AnswersAt(s)
  BY <1>q DEF SInv, Typed, OnConnect, FitInv
<1>1. slot'[s] = q /\ \A t \in Slots \ {s} : slot'[t] = slot[t]
  BY <1>0, <1>q DEF Typed, Happens
<1>2. /\ r.deferred = None => q.deferred = None /\ q.owes = r.owes
      /\ \/ q.owes = r.owes /\ q.deferred \in {None, r.deferred}
         \/ Flushed(r, q)
      /\ \/ q.client = None /\ q.key = None
         \/ /\ q.client = r.client /\ q.key = r.key
            /\ \/ q.owes = r.owes /\ q.deferred = r.deferred
               \/ Flushed(r, q)
  BY <1>q DEF Happens, Effect
<1>3. \A k \in Coalesced : pending'[k].waiters = pending[k].waiters
  <2>1. pending' = pending \/ pending' = [pending EXCEPT ![x.registers].by = s]
    BY DEF Happens
  <2>k. PICK k : k = x.registers
    OBVIOUS
  <2>2. CASE pending' = pending
    BY <2>2
  <2>3. CASE pending' = [pending EXCEPT ![k].by = s]
    <3>1. pending \in [Coalesced -> [by : Slots \cup {None}, waiters : Seq(Tokens)]]
      BY <1>0 DEF Typed
    <3> QED BY <2>3, <3>1
  <2> QED BY <2>1, <2>k, <2>2, <2>3
<1>4. \A d \in Clients : Stays(d)
  <2>1. PICK c : c = r.client
    OBVIOUS
  <2>2. client' = client \/ client' = [client EXCEPT ![c].ep = None]
    BY <1>q, <2>1 DEF Happens
  <2>3. c \in Clients \cup {None}
    BY <1>0, <2>1 DEF SlotShape
  <2>4. client' = client => \A d \in Clients : Stays(d)
    BY UnlinksNone
  <2>5. client' = [client EXCEPT ![c].ep = None] => Unlinks(c)
    BY <1>0, <2>3, UnlinksOne
  <2> QED BY <2>2, <2>4, <2>5 DEF Unlinks
<1>5. /\ KeepsBelow(0) /\ Height = 0
      /\ \A p \in Fresh(0) : Down'[p].op \in {"resume", "waiters"} => Down'[p].arg = None
  <2>1. CASE ~x.unlinks
    <3>1. CallsFrom(s, x.slot, stack')
      BY <2>1 DEF Happens, Effect
    <3>2. /\ KeepsBelow(0) /\ Height = 0
          /\ \/ Fresh(0) = {}
             \/ /\ Fresh(0) = {1} /\ Down'[1].on = s
                /\ Down'[1].op \in {"release", "complete", "parseError"}
      BY <3>1, LoopCalls
    <3> QED BY <3>2
  <2>2. CASE x.unlinks
    <3>f. PICK f, g : f = Frame("resume", r.client, None) /\ g = Frame("close", s, None)
      OBVIOUS
    <3>1. stack' = <<f, g>>
      BY <1>q, <2>2, <3>f DEF Happens, Effect
    <3>2. f \in FrameType /\ g \in FrameType
      <4>1. r.client \in Clients \cup {None}
        BY <1>0 DEF SlotShape
      <4> QED BY <3>f, <4>1, FrameTypes DEF SlotOps
    <3>3. /\ KeepsBelow(0) /\ Height = 0 /\ Fresh(0) = {1, 2} /\ Down'[1] = g /\ Down'[2] = f
      BY <3>1, <3>2, Starts
    <3> QED BY <3>3, <3>f DEF Frame
  <2> QED BY <2>1, <2>2
<1>6. /\ ~OnConnect => q.deferred = None
      /\ OnConnect /\ q.owes # None => q.alive /\ ~Dialling(q)
  <2>1. ~OnConnect => q.deferred = None
    BY <1>0, <1>q, <1>2 DEF AnswersAt
  <2>2. ASSUME OnConnect, q.owes # None
        PROVE  q.alive /\ ~Dialling(q)
    <3>1. CASE Flushed(r, q)
      BY <3>1 DEF Flushed
    <3>2. CASE q.owes = r.owes
      <4>1. r.alive /\ ~Dialling(r)
        BY <1>0, <1>q, <2>2, <3>2 DEF AnswersAt
      <4>2. Rests(r, q)
        BY <4>1, <1>q
      <4> QED BY <4>1, <4>2 DEF Rests
    <3> QED BY <1>2, <3>1, <3>2
  <2> QED BY <2>1, <2>2
<1>7. ASSUME NEW a, Fits(r, a),
             (q.owes = r.owes /\ q.deferred = r.deferred) \/ Flushed(r, q)
      PROVE  Fits(q, a)
  <2>1. ~Dialling(r) => Rests(r, q)
    BY <1>q
  <2>2. CASE Flushed(r, q)
    <3>1. Dialling(r)
      BY <2>1, <2>2 DEF Flushed, Rests
    <3> QED BY <1>7, <2>2, <3>1 DEF Fits, Flushed
  <2>3. CASE q.owes = r.owes /\ q.deferred = r.deferred
    BY <1>7, <2>1, <2>3 DEF Fits, Rests
  <2> QED BY <1>7, <2>2, <2>3
<1>8. q.key # None => Fits(q, q.key)
  <2>1. SUFFICES ASSUME q.key # None
                 PROVE  Fits(q, q.key)
    OBVIOUS
  <2>2. q.key = r.key /\ ((q.owes = r.owes /\ q.deferred = r.deferred) \/ Flushed(r, q))
    BY <1>2, <2>1
  <2>3. Fits(r, r.key)
    BY <1>0, <1>q, <2>1, <2>2 DEF AnswersAt
  <2> QED BY <1>7, <2>2, <2>3
<1>9. q.client # None => Fits(q, client'[q.client].req)
  <2>1. SUFFICES ASSUME q.client # None
                 PROVE  Fits(q, client'[q.client].req)
    OBVIOUS
  <2>2. q.client = r.client /\ ((q.owes = r.owes /\ q.deferred = r.deferred) \/ Flushed(r, q))
    BY <1>2, <2>1
  <2>3. Fits(r, client[r.client].req) /\ r.client \in Clients
    BY <1>0, <1>q, <2>1, <2>2 DEF AnswersAt, SlotShape
  <2>4. client'[r.client].req = client[r.client].req
    BY <1>4, <2>3 DEF Stays
  <2> QED BY <1>7, <2>2, <2>3, <2>4
<1>10. AnswersAt(s)'
  BY <1>0, <1>1, <1>6, <1>8, <1>9 DEF AnswersAt, Fits, Dialling, IsConnecting
<1>11. \A d \in Clients : Fixed(d) \/ Unasked(0, d)
  BY <1>4 DEF Stays, Fixed
<1>12. \A k \in Coalesced, d \in Clients : ~Erasing(k)' /\ Parked(k, d)' =>
          Unasked(0, d) \/ (~Erasing(k) /\ Parked(k, d))
  <2>1. \A k : ~Erasing(k)
    BY QuietFacts
  <2> QED BY <1>3, <1>4, <2>1 DEF Stays, Parked
<1>13. \A p \in Fresh(0) : FrameFits(p)'
  BY <1>5, BringsNothing
<1>14. Early'
  BY DEF Early
<1> QED BY <1>0, <1>1, <1>5, <1>10, <1>11, <1>12, <1>13, <1>14, FitStep


\* A connection the loop opens owes what its slot owed: nothing, where requests
\* wait for onConnect.
LEMMA OpensFit ==
  ASSUME SInv, FitInv, setup' = setup, stack = <<>>, warm' > 0 => warm > 0,
         NEW s \in Slots, NEW r, NEW y, NEW z, Opens(s, r, y, z),
         r.owes = slot[s].owes, r.deferred = slot[s].deferred, OnConnect => r.owes = None
  PROVE  FitInv'
<1>q. PICK q : q = z.slot
  OBVIOUS
<1>0. Typed /\ OnConnect' = OnConnect /\ AnswersAt(s) /\ client' = client /\ pending' = pending
  BY DEF SInv, Typed, OnConnect, FitInv, Opens
<1>1. slot'[s] = q /\ \A t \in Slots \ {s} : slot'[t] = slot[t]
  BY <1>0, <1>q DEF Typed, Opens
<1>2. /\ q.client = None /\ q.key = None /\ CallsFrom(s, q, stack')
  <2>1. /\ z.slot.client = None /\ z.slot.key = None /\ CallsFrom(s, z.slot, z.calls)
    BY ConnectOutcome DEF Opens
  <2> QED BY <1>q, <2>1 DEF Opens
<1>3. /\ (q.owes = r.owes /\ q.deferred = r.deferred) \/ Flushed(r, q)
      /\ r.deferred = None => q.owes = r.owes /\ q.deferred = None
  <2>1. /\ SlotShape(r) /\ Wired(r) /\ ~r.onconn /\ ~r.awaiting /\ y \in WrapConnect(r)
        /\ Attempted(s, y, z)
    BY DEF Opens
  <2>2. Moves(r, y.slot) /\ ~y.slot.awaiting
    BY <2>1, WrapConnectMoves
  <2>3. CASE z = Does(y.slot, <<>>)
    <3>1. q = y.slot
      BY <1>q, <2>3 DEF Does
    <3> QED BY <2>2, <3>1 DEF Moves, Same
  <2>4. CASE z \in HandleConnectFailure(s, y.slot, FALSE, y.status # "SSL_FAILURE")
    <3>1. PICK p, g : p = y.slot /\ g = (y.status # "SSL_FAILURE")
      OBVIOUS
    <3>2. SlotShape(p) /\ Wired(p) /\ ~p.awaiting /\ z \in HandleConnectFailure(s, p, FALSE, g)
      BY <2>2, <2>4, <3>1 DEF Moves
    <3>3. Effect(s, p, z) /\ ~z.unlinks
      BY <3>2, HandleConnectFailureEffect
    <3>4. p.owes = r.owes /\ p.deferred = r.deferred
      BY <2>2, <3>1 DEF Moves, Same
    <3> QED BY <1>q, <3>3, <3>4 DEF Effect, Flushed
  <2> QED BY <2>1, <2>3, <2>4 DEF Attempted
<1>4. AnswersAt(s)'
  <2>1. ~OnConnect => q.deferred = None
    BY <1>0, <1>3 DEF AnswersAt
  <2>2. OnConnect /\ q.owes # None => q.alive /\ ~Dialling(q)
    BY <1>3 DEF Flushed
  <2> QED BY <1>0, <1>1, <1>2, <2>1, <2>2 DEF AnswersAt, Dialling, IsConnecting
<1>5. /\ KeepsBelow(0) /\ Height = 0
      /\ \/ Fresh(0) = {}
         \/ /\ Fresh(0) = {1} /\ Down'[1].on = s
            /\ Down'[1].op \in {"release", "complete", "parseError"}
  BY <1>2, LoopCalls
<1>6. \A p \in Fresh(0) : FrameFits(p)'
  BY <1>5, BringsNothing
<1>7. \A d \in Clients : Fixed(d)
  BY <1>0 DEF Fixed
<1>8. Early'
  <2>1. CASE warm' > 0
    <3>1. /\ \A c \in Clients : client[c].co = "none" /\ ~client[c].async
          /\ \A t \in Slots : slot[t].owes = None /\ slot[t].deferred = None
      BY <2>1 DEF FitInv, Early
    <3>2. q.owes = None /\ q.deferred = None
      BY <1>3, <3>1
    <3>3. \A t \in Slots : slot'[t].owes = None /\ slot'[t].deferred = None
      BY <1>1, <3>1, <3>2
    <3> QED BY <1>0, <3>1, <3>3 DEF Early
  <2>2. CASE ~(warm' > 0)
    BY <2>2 DEF Early
  <2> QED BY <2>1, <2>2
<1>9. \A k \in Coalesced, d \in Clients : ~Erasing(k)' /\ Parked(k, d)' =>
         Unasked(0, d) \/ (~Erasing(k) /\ Parked(k, d))
  <2>1. \A k : ~Erasing(k)
    BY QuietFacts
  <2> QED BY <1>0, <2>1 DEF Parked
<1> QED BY <1>0, <1>1, <1>4, <1>5, <1>6, <1>7, <1>8, <1>9, FitStep

LEMMA PrewarmFit ==
  ASSUME SInv, FitInv, setup' = setup, NEW s \in Slots, PrewarmSlot(s)
  PROVE  FitInv'
<1>1. PICK r : r = Lease(slot[s])
  OBVIOUS
<1>2. stack = <<>> /\ \E y, z : Opens(s, r, y, z)
  BY <1>1, PrewarmFacts
<1>3. SlotShape(slot[s]) /\ slot[s].owes = None /\ slot[s].deferred = None
  BY DEF SInv, Typed, FitInv, Early, PrewarmSlot
<1>4. r.owes = None /\ r.deferred = None
  BY <1>1, <1>3 DEF Lease, SlotShape, SlotFields
<1>5. warm' > 0 => warm > 0
  BY DEF PrewarmSlot
<1> QED BY <1>2, <1>3, <1>4, <1>5, OpensFit

\* A step that changes nothing here.
LEMMA FitSame ==
  ASSUME FitInv, slot' = slot, client' = client, pending' = pending, stack' = stack,
         warm' = warm, setup' = setup
  PROVE  FitInv'
<1>1. Down' = Down /\ Depth' = Depth /\ Coalesced' = Coalesced /\ OnConnect' = OnConnect
  BY DEF Down, Depth, Height, Coalesced, OnConnect
<1>2. \A k : Erasing(k)' <=> Erasing(k)
  BY <1>1 DEF Erasing
<1>3. TokensFit'
  BY <1>1, <1>2 DEF FitInv, TokensFit, Parked
<1>4. \A s \in Slots : AnswersAt(s)'
  BY <1>1 DEF FitInv, AnswersAt, Fits, Dialling, IsConnecting
<1>5. \A p \in Depth' : FrameFits(p)'
  BY <1>1 DEF FitInv, FrameFits
<1> QED BY <1>3, <1>4, <1>5 DEF FitInv, Early

LEMMA ReconnectFit ==
  ASSUME SInv, FitInv, setup' = setup, NEW x \in reconnects, HandleReconnects(x)
  PROVE  FitInv'
<1>s. PICK s, r : s = x.on /\ r = [slot[s] EXCEPT !.awaiting = FALSE]
  OBVIOUS
<1>1. /\ stack = <<>> /\ s \in Slots
      /\ \/ slot' = slot /\ client' = client /\ pending' = pending /\ stack' = stack
         \/ /\ slot[s].awaiting
            /\ \E y, z : Opens(s, r, y, z)
  BY <1>s, ReconnectFacts
<1>2. warm' = warm
  BY DEF HandleReconnects
<1>3. CASE slot' = slot /\ client' = client /\ pending' = pending /\ stack' = stack
  BY <1>2, <1>3, FitSame
<1>4. CASE slot[s].awaiting /\ \E y, z : Opens(s, r, y, z)
  <2>1. SlotShape(slot[s]) /\ AnswersAt(s)
    BY <1>1 DEF SInv, Typed, FitInv
  <2>2. r.owes = slot[s].owes /\ r.deferred = slot[s].deferred
    BY <1>s, <2>1 DEF SlotShape, SlotFields
  <2>3. OnConnect => r.owes = None
    BY <1>4, <2>1, <2>2 DEF AnswersAt, Dialling
  <2> QED BY <1>1, <1>2, <1>4, <2>2, <2>3, OpensFit
<1> QED BY <1>1, <1>3, <1>4

LEMMA EventFit ==
  ASSUME SInv, FitInv, setup' = setup, NEW s \in Slots, EndpointEvent(s) \/ SlotExpires(s)
  PROVE  FitInv'
<1>1. SlotShape(slot[s])
  BY DEF SInv, Typed
<1>2. ~(warm' > 0)
  BY DEF EndpointEvent, SlotExpires, Take
<1>3. CASE EndpointEvent(s)
  <2>1. PICK x \in HandleEndpointEvent(s, slot[s]) : stack = <<>> /\ Happens(s, x)
    BY <1>3, EventFacts
  <2>2. ~Dialling(slot[s]) => Rests(slot[s], x.slot)
    BY <1>1, <2>1, EventRests
  <2> QED BY <1>2, <2>1, <2>2, HappensFit
<1>4. CASE SlotExpires(s)
  <2>1. PICK x \in HandleExpiry(s, [slot[s] EXCEPT !.timer = "none"]) :
            stack = <<>> /\ Happens(s, x)
    BY <1>4, ExpiryFacts
  <2>2. ~Dialling(slot[s]) => Rests(slot[s], x.slot)
    BY <1>1, <2>1, ExpiryRests
  <2> QED BY <1>2, <2>1, <2>2, HappensFit
<1> QED BY <1>3, <1>4


\* Something happens to a client whose request is answered, or has none.
LEMMA ClientFit ==
  ASSUME SInv, FitInv, setup' = setup, ~(warm' > 0), KeepsBelow(0), Height = 0,
         slot' = slot, pending' = pending, NEW e \in Clients,
         \A d \in Clients \ {e} : client'[d] = client[d],
         \/ Fixed(e)
         \/ (\A s \in Slots : slot[s].client # e) /\ (\A k \in Coalesced : ~Parked(k, e)'),
         \A p \in Fresh(0) : Down'[p].op \notin {"resume", "waiters"}
  PROVE  FitInv'
<1>0. Typed /\ None \notin Slots /\ \A k : ~Erasing(k)
  BY SetsAssumption DEF SInv, Erasing, Depth
<1>1. Fixed(e) \/ Unasked(0, e)
  <2>1. \A p \in 1 .. 0 : FALSE
    OBVIOUS
  <2> QED BY <2>1 DEF Unasked
<1>2. \A d \in Clients : Fixed(d) \/ Unasked(0, d)
  BY <1>1 DEF Fixed
<1>3. ASSUME NEW k \in Coalesced, NEW d \in Clients, Parked(k, d)'
      PROVE  Unasked(0, d) \/ (~Erasing(k) /\ Parked(k, d))
  <2>1. CASE client'[d].gen = client[d].gen
    BY <1>0, <1>3, <2>1 DEF Parked
  <2>2. CASE client'[d].gen # client[d].gen
    <3>1. d = e /\ ~Fixed(e)
      BY <2>2 DEF Fixed
    <3> QED BY <1>1, <3>1
  <2> QED BY <2>1, <2>2
<1>4. Early'
  BY DEF Early
<1>5. \A p \in Fresh(0) : FrameFits(p)'
  BY BringsNothing
<1>6. PICK t : t \notin Slots
  BY <1>0
<1> QED BY <1>0, <1>2, <1>3, <1>4, <1>5, <1>6, FitStep

LEMMA ClientsFit ==
  ASSUME SInv, FitInv, setup' = setup, NEW c \in Clients,
         ClientAccepted(c) \/ RequestArrives(c) \/ ResponseSent(c) \/ ClientCloses(c)
  PROVE  FitInv'
<1>0. Typed /\ Linked /\ ParkedOnce /\ None \notin Slots
  BY SetsAssumption DEF SInv
<1>1. /\ stack = <<>> /\ ~(warm' > 0) /\ slot' = slot /\ pending' = pending
  BY DEF ClientAccepted, RequestArrives, ResponseSent, ClientCloses, Take
<1>2. stack' = stack => KeepsBelow(0) /\ Height = 0 /\ Fresh(0) = {}
  BY <1>1 DEF KeepsBelow, Height, Fresh
<1>3. CASE ClientAccepted(c)
  <2>1. stack' = stack /\ ~client[c].live
    BY <1>3 DEF ClientAccepted
  <2>2. client' = [client EXCEPT ![c] = [NoClient EXCEPT !.live = TRUE, !.gen = client[c].gen + 1]]
    BY <1>3 DEF ClientAccepted
  <2>3. /\ client'[c].gen = client[c].gen + 1
        /\ \A d \in Clients \ {c} : client'[d] = client[d]
    BY <1>0, <2>2 DEF Typed, NoClient
  <2>4. \A s \in Slots : slot[s].client # c
    BY <1>0, <2>1 DEF Linked
  <2>5. ASSUME NEW k \in Coalesced
        PROVE  ~Parked(k, c)'
    <3>1. /\ pending'[k].waiters \in Seq(Tokens) /\ client[c].gen \in Nat
          /\ Old(pending'[k].waiters, c, client[c].gen)
      BY <1>0, <1>1 DEF Typed, ClientShape, ParkedOnce
    <3>2. ~Waits(pending'[k].waiters, c, client[c].gen + 1)
      BY <3>1, WaitsNext
    <3> QED BY <2>3, <3>2 DEF Parked
  <2>6. \A p \in Fresh(0) : Down'[p].op \notin {"resume", "waiters"}
    BY <1>2, <2>1
  <2> QED BY <1>1, <1>2, <2>1, <2>3, <2>4, <2>5, <2>6, ClientFit
<1>4. CASE RequestArrives(c)
  <2>f. PICK f : f = Frame("run", c, "ok")
    OBVIOUS
  <2>1. stack' = <<f>> /\ client' = [client EXCEPT ![c].co = "runs"]
    BY <1>4, <2>f DEF RequestArrives
  <2>2. KeepsBelow(0) /\ Height = 0 /\ Fresh(0) = {1} /\ Down'[1] = f
    <3>1. f \in FrameType
      BY <2>f, FrameTypes
    <3> QED BY <1>1, <2>1, <3>1, Starts
  <2>3. Fixed(c) /\ \A d \in Clients \ {c} : client'[d] = client[d]
    BY <1>0, <2>1 DEF Typed, ClientShape, ClientFields, Fixed
  <2>4. \A p \in Fresh(0) : Down'[p].op \notin {"resume", "waiters"}
    BY <2>2, <2>f DEF Frame
  <2> QED BY <1>1, <2>2, <2>3, <2>4, ClientFit
<1>5. CASE ResponseSent(c)
  <2>1. /\ stack' = stack
        /\ client' = [client EXCEPT ![c].co = "none", ![c].async = FALSE, ![c].ep = None]
    BY <1>5 DEF ResponseSent
  <2>2. Fixed(c) /\ \A d \in Clients \ {c} : client'[d] = client[d]
    BY <1>0, <2>1 DEF Typed, ClientShape, ClientFields, Fixed
  <2>3. \A p \in Fresh(0) : Down'[p].op \notin {"resume", "waiters"}
    BY <1>2, <2>1
  <2> QED BY <1>1, <1>2, <2>1, <2>2, <2>3, ClientFit
<1>6. CASE ClientCloses(c)
  <2>f. PICK e, f, g : /\ e = Frame("unpin", c, client[c].pin) /\ f = Frame("detach", c, None)
                       /\ g = Frame("freeClient", c, None)
    OBVIOUS
  <2>1. /\ stack' = <<e, f, g>>
        /\ client' = [client EXCEPT ![c].async = FALSE, ![c].pin = NoPin]
    BY <1>6, <2>f DEF ClientCloses
  <2>2. e \in FrameType /\ f \in FrameType /\ g \in FrameType
    <3>1. client[c].pin \in Pins
      BY <1>0 DEF Typed, ClientShape
    <3> QED BY <2>f, <3>1, FrameTypes
  <2>3. /\ KeepsBelow(0) /\ Height = 0 /\ Fresh(0) = {1, 2, 3}
        /\ Down'[1] = g /\ Down'[2] = f /\ Down'[3] = e
    BY <1>1, <2>1, <2>2, Starts
  <2>4. Fixed(c) /\ \A d \in Clients \ {c} : client'[d] = client[d]
    BY <1>0, <2>1 DEF Typed, ClientShape, ClientFields, Fixed
  <2>5. \A p \in Fresh(0) : Down'[p].op \notin {"resume", "waiters"}
    BY <2>3, <2>f DEF Frame
  <2> QED BY <1>1, <2>3, <2>4, <2>5, ClientFit
<1> QED BY <1>3, <1>4, <1>5, <1>6

LEMMA LoopStepFit ==
  ASSUME SInv, FitInv, setup' = setup, LoopStep
  PROVE  FitInv'
<1>1. CASE StaleEvent
  BY <1>1, FitSame DEF StaleEvent
<1> QED BY <1>1, PrewarmFit, EventFit, ReconnectFit, ClientsFit DEF LoopStep

LEMMA FitInit ==
  ASSUME Init
  PROVE  FitInv
<1>1. Depth = {} /\ \A k \in Coalesced : pending[k].waiters = <<>>
  BY DEF Init, Depth, Height, NoEntry
<1>2. \A s \in Slots : AnswersAt(s)
  BY DEF Init, AnswersAt, Closed
<1>3. Early
  BY DEF Init, Early, Closed, NoClient
<1>4. TokensFit
  BY <1>1, WaitsEmpty DEF TokensFit, Parked
<1> QED BY <1>1, <1>2, <1>3, <1>4 DEF FitInv

\* A client is resumed with the answer of the request it sent.
LEMMA AnswersRight ==
  ASSUME SInv, FitInv
  PROVE  RightAnswer
<1> SUFFICES ASSUME NEW i \in 1 .. Len(stack), NEW f, f = stack[i],
                    f.op = "resume", f.arg # None, f.on # None, client[f.on].async
             PROVE  f.arg = client[f.on].req
  BY DEF RightAnswer
<1>1. Height \in Nat /\ \A p \in Depth : Down[p] \in FrameType
  BY FramesTyped DEF SInv
<1>2. PICK p : p = Height + 1 - i
  OBVIOUS
<1>3. p \in Depth /\ Down[p] = f
  BY <1>1, <1>2 DEF Depth, Height, Down
<1>4. f.on \in Clients
  BY <1>1, <1>3, FrameFacts
<1> QED BY <1>3, <1>4 DEF FitInv, FrameFits


-------------------------------------------------------------------------------
(* Whose a coalesced request is.                                             *)

\* The slot an entry names holds its key, and is connected where requests wait for
\* onConnect; where they do not, a slot that holds a key owns its entry until the
\* slot is freed.
OwnAt(s) ==
    /\ \A k \in Coalesced :
          pending[k].by = s => slot[s].key = k /\ (OnConnect => ~Dialling(slot[s]))
    /\ ~OnConnect /\ slot[s].key # None => pending[slot[s].key].by = s \/ Freeing(s)

\* A slot is freed after its entry is erased, released again only when it holds no
\* key any more, and an entry is erased once, by the release of its owner.
FreedErased ==
    \A p \in Depth, k \in Coalesced :
        Down[p].op = "free" /\ pending[k].by = Down[p].on =>
            \E q \in Depth : q > p /\ Down[q].op = "erase" /\ Down[q].on = k
ReleasedOnce ==
    \A p, q \in Depth :
        p < q /\ Down[p].op = "free" /\ Down[q].op = "release" /\ Down[p].on = Down[q].on
        => slot[Down[p].on].key = None
ErasedOwned ==
    ~OnConnect => \A k \in Coalesced : Erasing(k) =>
                     \E s \in Slots : pending[k].by = s /\ Freeing(s)
EraseOnce ==
    ~OnConnect => \A p, q \in Depth :
                     Down[p].op = "erase" /\ Down[q].op = "erase" /\ Down[p].on = Down[q].on
                     => p = q

OwnInv ==
    /\ None \notin Coalesced
    /\ \A s \in Slots : OwnAt(s)
    /\ FreedErased /\ ReleasedOnce /\ ErasedOwned /\ EraseOnce

\* A frame of the stack stays below the top.
LEMMA Below ==
  ASSUME NEW b, KeepsBelow(b), NEW p \in Depth, p # Height \/ p \in 1 .. b
  PROVE  p \in 1 .. b /\ p \in Depth' /\ Down'[p] = Down[p]
<1>1. Height \in Nat /\ Height' \in Nat /\ p \in 1 .. Height /\ b \in Nat /\ b <= Height'
      /\ (Height = b + 1 \/ Height = 0)
  BY DEF KeepsBelow, Depth
<1>2. p \in 1 .. b
  BY <1>1
<1> QED BY <1>1, <1>2 DEF KeepsBelow, Depth

\* A frame of the next stack is a fresh one, or was there.
LEMMA Before ==
  ASSUME NEW b, KeepsBelow(b), NEW p \in Depth', p \notin Fresh(b)
  PROVE  p \in 1 .. b /\ p \in Depth /\ Down'[p] = Down[p] /\ (Height > 0 => p < Height)
<1>1. Height \in Nat /\ Height' \in Nat /\ p \in 1 .. Height' /\ b \in Nat
      /\ (Height = b + 1 \/ (Height = 0 /\ b = 0))
  BY DEF KeepsBelow, Depth
<1>2. p \in 1 .. b
  BY <1>1 DEF Fresh
<1> QED BY <1>1, <1>2 DEF KeepsBelow, Depth

\* What is said of the frames alone, when no new frame frees or erases anything.
LEMMA FramesOwn ==
  ASSUME OwnInv, setup' = setup, NEW b, KeepsBelow(b),
         \A p \in Fresh(b) : Down'[p].op \notin {"free", "erase"}
  PROVE  /\ EraseOnce'
         /\ \A k : Erasing(k)' => Erasing(k)
         /\ \A s : Freeing(s)' => Freeing(s)
<1>0. OnConnect' = OnConnect
  BY DEF OnConnect
<1>1. ASSUME NEW p \in Depth', Down'[p].op \in {"free", "erase"}
      PROVE  p \in Depth /\ Down'[p] = Down[p]
  <2>1. p \notin Fresh(b)
    BY <1>1
  <2> QED BY <2>1, Before
<1>2. EraseOnce'
  BY <1>0, <1>1 DEF OwnInv, EraseOnce
<1>3. \A k : Erasing(k)' => Erasing(k)
  BY <1>1 DEF Erasing
<1>4. \A s : Freeing(s)' => Freeing(s)
  BY <1>1 DEF Freeing
<1> QED BY <1>2, <1>3, <1>4

\* What is left to show of the frames that free a slot.
LEMMA FreedStep ==
  ASSUME OwnInv, setup' = setup, NEW b, KeepsBelow(b),
         \A p \in 1 .. b, l \in Coalesced :
            Down[p].op = "free" /\ pending'[l].by = Down[p].on =>
               /\ pending[l].by = Down[p].on
               /\ ~(Down[Height].op = "erase" /\ Down[Height].on = l),
         \A p \in Fresh(b), l \in Coalesced :
            Down'[p].op = "free" /\ pending'[l].by = Down'[p].on =>
               \E q \in Depth' : q > p /\ Down'[q].op = "erase" /\ Down'[q].on = l
  PROVE  FreedErased'
<1> SUFFICES ASSUME NEW p \in Depth', NEW k \in Coalesced, Down'[p].op = "free",
                    pending'[k].by = Down'[p].on
             PROVE  \E q \in Depth' : q > p /\ Down'[q].op = "erase" /\ Down'[q].on = k
  BY SetupKept DEF FreedErased
<1>1. CASE p \in Fresh(b)
  BY <1>1
<1>2. CASE p \notin Fresh(b)
  <2>1. p \in 1 .. b /\ p \in Depth /\ Down'[p] = Down[p]
    BY <1>2, Before
  <2>2. /\ pending[k].by = Down[p].on
        /\ ~(Down[Height].op = "erase" /\ Down[Height].on = k)
    BY <2>1
  <2>3. PICK q \in Depth : q > p /\ Down[q].op = "erase" /\ Down[q].on = k
    BY <2>1, <2>2 DEF OwnInv, FreedErased
  <2>4. q # Height
    BY <2>2, <2>3
  <2> QED BY <2>3, <2>4, Below
<1> QED BY <1>1, <1>2

\* ... and of those that release one.
LEMMA ReleasedStep ==
  ASSUME OwnInv, NEW b, KeepsBelow(b),
         \A p \in 1 .. b : Down[p].op = "free" /\ slot[Down[p].on].key = None
                          => slot'[Down[p].on].key = None,
         \A p \in 1 .. b, q \in Fresh(b) :
            Down[p].op = "free" /\ Down'[q].op = "release" /\ Down[p].on = Down'[q].on
            => slot'[Down[p].on].key = None,
         \A p, q \in Fresh(b) : ~(Down'[p].op = "free" /\ Down'[q].op = "release")
  PROVE  ReleasedOnce'
<1> SUFFICES ASSUME NEW p \in Depth', NEW q \in Depth', p < q, Down'[p].op = "free",
                    Down'[q].op = "release", Down'[p].on = Down'[q].on
             PROVE  slot'[Down'[p].on].key = None
  BY DEF ReleasedOnce
<1>1. ASSUME p \in Fresh(b)
      PROVE  q \in Fresh(b)
  BY <1>1 DEF Fresh, Depth, KeepsBelow
<1>2. CASE p \notin Fresh(b)
  <2>1. p \in 1 .. b /\ p \in Depth /\ Down'[p] = Down[p]
    BY <1>2, Before
  <2>2. CASE q \in Fresh(b)
    BY <2>1, <2>2
  <2>3. CASE q \notin Fresh(b)
    <3>1. q \in Depth /\ Down'[q] = Down[q]
      BY <2>3, Before
    <3> QED BY <2>1, <3>1 DEF OwnInv, ReleasedOnce
  <2> QED BY <2>2, <2>3
<1> QED BY <1>1, <1>2

\* A step that erases nothing, frees nothing and gives no slot a key.
LEMMA OwnKeep ==
  ASSUME Typed, OwnInv, setup' = setup, NEW b, KeepsBelow(b),
         \A k \in Coalesced : pending'[k].by = pending[k].by,
         \A s \in Slots : /\ slot'[s].key = slot[s].key
                          /\ slot[s].key # None /\ ~Dialling(slot[s]) => ~Dialling(slot'[s]),
         Height > 0 => Down[Height].op \notin {"free", "erase"},
         \A p \in Fresh(b) : Down'[p].op \notin {"free", "erase"},
         \A p \in 1 .. b, q \in Fresh(b) :
            Down[p].op = "free" /\ Down'[q].op = "release" /\ Down[p].on = Down'[q].on
            => slot[Down[p].on].key = None
  PROVE  OwnInv'
<1>0. Coalesced' = Coalesced /\ OnConnect' = OnConnect /\ None \notin Coalesced
  BY SetupKept DEF OnConnect, OwnInv
<1>1. /\ EraseOnce' /\ (\A k : Erasing(k)' => Erasing(k))
  BY FramesOwn
<1>2. \A s : Freeing(s)' <=> Freeing(s)
  BY FreeingSame
<1>3. ASSUME NEW s \in Slots
      PROVE  OwnAt(s)'
  <2>1. /\ OwnAt(s) /\ slot'[s].key = slot[s].key
        /\ slot[s].key # None /\ ~Dialling(slot[s]) => ~Dialling(slot'[s])
    BY DEF OwnInv
  <2>2. \A k \in Coalesced :
           pending'[k].by = s => slot'[s].key = k /\ (OnConnect => ~Dialling(slot'[s]))
    BY <1>0, <2>1 DEF OwnAt
  <2>3. ASSUME ~OnConnect, slot'[s].key # None
        PROVE  pending'[slot'[s].key].by = s \/ Freeing(s)'
    <3>1. slot[s].key \in Coalesced
      BY <2>1, <2>3 DEF Typed, SlotShape
    <3> QED BY <1>2, <2>1, <2>3, <3>1 DEF OwnAt
  <2> QED BY <1>0, <2>2, <2>3 DEF OwnAt, Dialling, IsConnecting
<1>4. \A p \in 1 .. b : p \in Depth /\ Height > 0
  BY DEF KeepsBelow, Depth
<1>5. ASSUME NEW p \in 1 .. b, Down[p].op = "free"
      PROVE  Down[p].on \in Slots
  <2>1. Down[p] \in FrameType
    BY <1>4, FramesTyped
  <2> QED BY <1>5, <2>1, FrameFacts DEF SlotOps
<1>6. FreedErased'
  <2>1. \A p \in 1 .. b, l \in Coalesced :
           Down[p].op = "free" /\ pending'[l].by = Down[p].on =>
              /\ pending[l].by = Down[p].on
              /\ ~(Down[Height].op = "erase" /\ Down[Height].on = l)
    BY <1>4
  <2>2. \A p \in Fresh(b), l \in Coalesced :
           Down'[p].op = "free" /\ pending'[l].by = Down'[p].on =>
              \E q \in Depth' : q > p /\ Down'[q].op = "erase" /\ Down'[q].on = l
    OBVIOUS
  <2> QED BY <2>1, <2>2, FreedStep
<1>7. ReleasedOnce'
  <2>1. \A p \in 1 .. b : Down[p].op = "free" /\ slot[Down[p].on].key = None
                          => slot'[Down[p].on].key = None
    BY <1>5
  <2>2. \A p \in 1 .. b, q \in Fresh(b) :
           Down[p].op = "free" /\ Down'[q].op = "release" /\ Down[p].on = Down'[q].on
           => slot'[Down[p].on].key = None
    BY <1>5
  <2>3. \A p, q \in Fresh(b) : ~(Down'[p].op = "free" /\ Down'[q].op = "release")
    OBVIOUS
  <2> QED BY <2>1, <2>2, <2>3, ReleasedStep
<1>8. ErasedOwned'
  BY <1>0, <1>1, <1>2 DEF OwnInv, ErasedOwned
<1> QED BY <1>0, <1>1, <1>3, <1>6, <1>7, <1>8 DEF OwnInv


-------------------------------------------------------------------------------
(* The handlers that leave every key where it is. *)

\* A step that changes the slots no more than by what they owe, and releases none.
LEMMA OwnQuiet ==
  ASSUME Typed, OwnInv, setup' = setup, NEW b, KeepsBelow(b),
         \A k \in Coalesced : pending'[k].by = pending[k].by,
         slot' = slot,
         Height > 0 => Down[Height].op \notin {"free", "erase"},
         \A p \in Fresh(b) : Down'[p].op \notin {"free", "erase", "release"}
  PROVE  OwnInv'
<1>1. \A s \in Slots : /\ slot'[s].key = slot[s].key
                       /\ slot[s].key # None /\ ~Dialling(slot[s]) => ~Dialling(slot'[s])
  OBVIOUS
<1>2. \A p \in Fresh(b) : Down'[p].op \notin {"free", "erase"}
  OBVIOUS
<1>3. \A p \in 1 .. b, q \in Fresh(b) :
         Down[p].op = "free" /\ Down'[q].op = "release" /\ Down[p].on = Down'[q].on
         => slot[Down[p].on].key = None
  OBVIOUS
<1> QED BY <1>1, <1>2, <1>3, OwnKeep

LEMMA WakingOwn ==
  ASSUME SInv, OwnInv, setup' = setup, Resume \/ Waiters
  PROVE  OwnInv'
<1>h. PICK h, c, a : h = Height /\ c = Down[h].on /\ a = Down[h].arg
  OBVIOUS
<1>0. Typed
  BY DEF SInv
<1>1. CASE Resume
  <2>1. /\ h \in Nat \ {0} /\ KeepsBelow(h - 1) /\ Down[h].op = "resume"
        /\ slot' = slot /\ pending' = pending
        /\ \/ /\ Fresh(h - 1) = {h}
              /\ Down'[h] = Frame("run", c, IF a = None THEN "failed" ELSE "ok")
           \/ Fresh(h - 1) = {}
    BY <1>0, <1>1, <1>h, ResumeFacts
  <2>2. \A p \in Fresh(h - 1) : Down'[p].op \notin {"free", "erase", "release"}
    BY <2>1 DEF Frame
  <2> QED BY <1>0, <1>h, <2>1, <2>2, OwnQuiet
<1>2. CASE Waiters
  <2>1. /\ h \in Nat \ {0} /\ KeepsBelow(h - 1) /\ Down[h].op = "waiters"
        /\ slot' = slot /\ pending' = pending
        /\ \/ Fresh(h - 1) = {}
           \/ Fresh(h - 1) = {h} /\ Down'[h] = Frame("waiters", Tail(c), a)
           \/ /\ Fresh(h - 1) = {h, h + 1} /\ Down'[h] = Frame("waiters", Tail(c), a)
              /\ Down'[h + 1] = Frame("resume", Head(c).on, a)
    BY <1>0, <1>2, <1>h, WaitersFacts
  <2>2. \A p \in Fresh(h - 1) : Down'[p].op \notin {"free", "erase", "release"}
    BY <2>1 DEF Frame
  <2> QED BY <1>0, <1>h, <2>1, <2>2, OwnQuiet
<1> QED BY <1>1, <1>2

LEMMA FreeClientOwn ==
  ASSUME SInv, OwnInv, setup' = setup, FreeClient
  PROVE  OwnInv'
<1>h. PICK h, c : h = Height /\ c = Down[h].on
  OBVIOUS
<1>0. Typed
  BY DEF SInv
<1>1. /\ h \in Nat \ {0} /\ KeepsBelow(h - 1) /\ Down[h].op = "freeClient"
      /\ slot' = slot /\ pending' = pending /\ Fresh(h - 1) = {}
  BY <1>0, <1>h, FreeClientFacts
<1> QED BY <1>0, <1>1, <1>h, OwnQuiet

\* Only a reserved slot is released by its handle, and that holds no key.
LEMMA ReleaseSlotOwn ==
  ASSUME SInv, OwnInv, setup' = setup, ReleaseSlot
  PROVE  OwnInv'
<1>h. PICK h : h = Height
  OBVIOUS
<1>0. Typed /\ Carried
  BY DEF SInv
<1>1. /\ h \in Nat \ {0} /\ KeepsBelow(h - 1) /\ Down[h].op = "unpin" /\ pending' = pending
      /\ \/ Fresh(h - 1) = {}
         \/ Fresh(h - 1) = {h} /\ \E s \in Slots : Down'[h] = Frame("release", s, None)
  BY <1>h, ReleaseSlotFacts
<1>2. PICK t : /\ \A s \in Slots \ {t} : slot'[s] = slot[s]
               /\ t \in Slots => Less(slot[t], slot'[t]) /\ slot'[t].key = slot[t].key
  BY <1>0, ReleaseSlotLess
<1>3. \A s \in Slots : /\ slot'[s].key = slot[s].key
                       /\ slot[s].key # None /\ ~Dialling(slot[s]) => ~Dialling(slot'[s])
  BY <1>2 DEF Less
<1>4. ASSUME NEW s \in Slots, Fresh(h - 1) = {h}, Down'[h] = Frame("release", s, None)
      PROVE  slot[s].key = None
  <2>u. PICK u : u = Top.arg.slot
    OBVIOUS
  <2>1. /\ Top = Down[h] /\ Top \in FrameType /\ Top.op = "unpin" /\ stack # <<>>
    <3>1. Running("unpin")
      BY DEF ReleaseSlot
    <3> QED BY <1>0, <1>h, <3>1, Tops
  <2>2. \/ stack' = Tail(stack)
        \/ HandleValid(Top.arg) /\ stack' = <<Frame("release", u, None)>> \o Tail(stack)
    BY <2>u DEF ReleaseSlot
  <2>3. stack' # Tail(stack)
    <3>1. stack' = Tail(stack) => Fresh(h - 1) = {}
      BY <1>0, <1>h, <2>1, Pops
    <3> QED BY <1>4, <3>1
  <2>4. /\ Top.arg \in Pins /\ u # None /\ slot[u].reserved /\ u \in Slots
    <3>1. Top.arg \in Pins /\ u # None /\ slot[u].reserved
      BY <2>1, <2>2, <2>3, <2>u, FrameFacts DEF HandleValid
    <3> QED BY <2>u, <3>1 DEF Pins
  <2>f. PICK f : f = Frame("release", u, None)
    OBVIOUS
  <2>5. f \in FrameType
    BY <2>4, <2>f, FrameTypes DEF SlotOps
  <2>6. Down'[h] = f
    BY <1>0, <1>h, <2>1, <2>2, <2>3, <2>5, <2>f, Pushes1
  <2>7. s = u
    BY <1>4, <2>6, <2>f DEF Frame
  <2> QED BY <1>0, <2>4, <2>7 DEF Carried
<1>5. ASSUME NEW q \in Fresh(h - 1)
      PROVE  /\ Down'[q].op \notin {"free", "erase"}
             /\ slot[Down'[q].on].key = None
  <2>1. Fresh(h - 1) = {h} /\ q = h
    BY <1>1, <1>5
  <2>2. PICK s \in Slots : Down'[h] = Frame("release", s, None)
    BY <1>1, <2>1
  <2>3. slot[s].key = None
    BY <1>4, <2>1, <2>2
  <2>4. Down'[q].op = "release" /\ Down'[q].on = s
    BY <2>1, <2>2 DEF Frame
  <2> QED BY <2>3, <2>4
<1>6. \A p \in 1 .. h - 1, q \in Fresh(h - 1) :
         Down[p].op = "free" /\ Down'[q].op = "release" /\ Down[p].on = Down'[q].on
         => slot[Down[p].on].key = None
  BY <1>5
<1> QED BY <1>0, <1>1, <1>3, <1>5, <1>6, <1>h, OwnKeep

\* The client of a slot is told; its key stays.
LEMMA TellingOwn ==
  ASSUME SInv, OwnInv, setup' = setup, NotifyClient \/ ParseError
  PROVE  OwnInv'
<1>h. PICK h, s, c : h = Height /\ s = Down[h].on /\ c = slot[s].client
  OBVIOUS
<1>0. Typed
  BY DEF SInv
<1>1. /\ h \in Nat \ {0} /\ KeepsBelow(h - 1) /\ Down[h].op \in {"notify", "parseError"}
      /\ s \in Slots /\ slot' = [slot EXCEPT ![s].client = None] /\ pending' = pending
      /\ \/ Fresh(h - 1) = {h} /\ Down'[h] = Frame("resume", c, None)
         \/ /\ Fresh(h - 1) = {h, h + 1}
            /\ Down'[h] = Frame("close", s, None) /\ Down'[h + 1] = Frame("resume", c, None)
  BY <1>0, <1>h, NotifyFacts, ParseErrorFacts
<1>2. \A t \in Slots : /\ slot'[t].key = slot[t].key
                       /\ slot[t].key # None /\ ~Dialling(slot[t]) => ~Dialling(slot'[t])
  <2>1. \A t \in Slots : /\ slot'[t].key = slot[t].key /\ slot'[t].ev = slot[t].ev
                         /\ slot'[t].onconn = slot[t].onconn
                         /\ slot'[t].awaiting = slot[t].awaiting
    BY <1>0, <1>1 DEF Typed, SlotShape, SlotFields
  <2> QED BY <2>1 DEF Dialling, IsConnecting
<1>3. \A p \in Fresh(h - 1) : Down'[p].op \notin {"free", "erase", "release"}
  BY <1>1 DEF Frame
<1>4. \A p \in 1 .. h - 1, q \in Fresh(h - 1) :
         Down[p].op = "free" /\ Down'[q].op = "release" /\ Down[p].on = Down'[q].on
         => slot[Down[p].on].key = None
  BY <1>3
<1> QED BY <1>0, <1>1, <1>2, <1>3, <1>4, <1>h, OwnKeep

\* Close is called at the bottom of the stack.
LEMMA CloseSlotOwn ==
  ASSUME SInv, OwnInv, setup' = setup, CloseSlot
  PROVE  OwnInv'
<1>h. PICK h, s, q : /\ h = Height /\ s = Down[h].on
                   /\ q = [slot[s] EXCEPT !.shutting = TRUE, !.ssl = FALSE]
  OBVIOUS
<1>0. Typed /\ Placed
  BY DEF SInv
<1>1. /\ h \in Nat \ {0} /\ KeepsBelow(h - 1) /\ Down[h].op = "close" /\ h \in Depth
      /\ s \in Slots /\ slot' = [slot EXCEPT ![s] = q] /\ pending' = pending
      /\ Fresh(h - 1) = {h} /\ Down'[h] = Frame("release", s, None)
  BY <1>0, <1>h, CloseSlotFacts
<1>2. h = 1
  BY <1>0, <1>1 DEF Placed
<1>a. /\ q.key = slot[s].key /\ q.ev = slot[s].ev /\ q.onconn = slot[s].onconn
      /\ q.awaiting = slot[s].awaiting
  BY <1>0, <1>1, <1>h DEF Typed, SlotShape, SlotFields
<1>b. ~Dialling(slot[s]) => ~Dialling(q)
  BY <1>a DEF Dialling, IsConnecting
<1>c. slot'[s] = q /\ \A t \in Slots \ {s} : slot'[t] = slot[t]
  BY <1>0, <1>1 DEF Typed
<1>3. /\ q.key = slot[s].key /\ (~Dialling(slot[s]) => ~Dialling(q))
      /\ slot'[s] = q /\ \A t \in Slots \ {s} : slot'[t] = slot[t]
  BY <1>a, <1>b, <1>c
<1>4. \A t \in Slots : /\ slot'[t].key = slot[t].key
                       /\ slot[t].key # None /\ ~Dialling(slot[t]) => ~Dialling(slot'[t])
  BY <1>3
<1>5. \A p \in Fresh(h - 1) : Down'[p].op \notin {"free", "erase"}
  BY <1>1 DEF Frame
<1>6. \A p \in 1 .. h - 1, u \in Fresh(h - 1) :
         Down[p].op = "free" /\ Down'[u].op = "release" /\ Down[p].on = Down'[u].on
         => slot[Down[p].on].key = None
  BY <1>2
<1> QED BY <1>0, <1>1, <1>4, <1>5, <1>6, <1>h, OwnKeep

LEMMA FinishOwn ==
  ASSUME SInv, OwnInv, setup' = setup, Finish
  PROVE  OwnInv'
<1>h. PICK h, s, r, a : h = Height /\ s = Down[h].on /\ r = slot[s] /\ a = Down[2].arg
  OBVIOUS
<1>0. Typed /\ Expected /\ Carried /\ Placed
  BY DEF SInv
<1>1. /\ h = 2 /\ KeepsBelow(1) /\ Down[2].op = "finish" /\ s \in Slots
      /\ pending' = pending
      /\ \E x \in FinishEffects(s, slot[s], Down[2].arg) :
            /\ slot' = [slot EXCEPT ![s] = x.slot]
            /\ \/ Fresh(1) = {}
               \/ Fresh(1) = {2} /\ Down'[2] = Frame("release", s, None)
  BY <1>h, FinishFacts
<1>2. PICK x \in FinishEffects(s, r, a) :
            /\ slot' = [slot EXCEPT ![s] = x.slot]
            /\ \/ Fresh(1) = {}
               \/ Fresh(1) = {2} /\ Down'[2] = Frame("release", s, None)
  BY <1>1, <1>h
<1>d. 2 \in Depth
  BY <1>1, <1>h DEF Depth
<1>3. /\ SlotShape(r) /\ Wired(r) /\ r.client = None /\ r.key = None /\ ~Dialling(r)
      /\ ~r.leased => ~r.reserved
  BY <1>0, <1>1, <1>h, <1>d DEF Expected, Carried, Typed
<1>4. x.slot.key = None /\ ~Dialling(x.slot)
  <2>1. /\ SlotShape(x.slot) /\ Wired(x.slot) /\ ~Dialling(x.slot)
        /\ x.slot.client = None /\ x.slot.key = None
        /\ x.slot.gen = r.gen /\ x.slot.reserved = r.reserved
        /\ x.slot.owes = None /\ x.slot.deferred = r.deferred
        /\ ~x.slot.leased => ~x.slot.reserved
        /\ x.calls = <<>> \/ x.calls = <<Frame("release", s, None)>>
        /\ ~x.again /\ x.registers = None /\ ~x.unlinks
    BY <1>3, FinishEffect
  <2> QED BY <2>1
<1>5. slot'[s] = x.slot /\ \A t \in Slots \ {s} : slot'[t] = slot[t]
  BY <1>0, <1>1, <1>2 DEF Typed
<1>6. \A t \in Slots : /\ slot'[t].key = slot[t].key
                       /\ slot[t].key # None /\ ~Dialling(slot[t]) => ~Dialling(slot'[t])
  BY <1>3, <1>4, <1>5, <1>h
<1>7. Down[1].op = "resume"
  BY <1>0, <1>1, <1>d DEF Placed
<1>8. \A p \in 1 .. 1, u \in Fresh(1) :
         Down[p].op = "free" /\ Down'[u].op = "release" /\ Down[p].on = Down'[u].on
         => slot[Down[p].on].key = None
  BY <1>7
<1>9. \A p \in Fresh(1) : Down'[p].op \notin {"free", "erase"}
  BY <1>2 DEF Frame
<1>10. Height > 0 => Down[Height].op \notin {"free", "erase"}
  BY <1>1, <1>h
<1> QED BY <1>0, <1>1, <1>6, <1>8, <1>9, <1>10, OwnKeep

LEMMA DetachOwn ==
  ASSUME SInv, OwnInv, setup' = setup, Detach
  PROVE  OwnInv'
<1>h. PICK h, c, e : h = Height /\ c = Down[h].on /\ e = client[c].ep
  OBVIOUS
<1>0. Typed
  BY DEF SInv
<1>r. PICK r : r = [slot[e] EXCEPT !.client = None, !.deferred = None]
  OBVIOUS
<1>1. /\ h = 2 /\ KeepsBelow(1) /\ Down[2].op = "detach" /\ Down[1].op = "freeClient"
      /\ pending' = pending
      /\ \/ e = None /\ slot' = slot /\ Fresh(1) = {}
         \/ /\ e \in Slots /\ slot' = [slot EXCEPT ![e] = [r EXCEPT !.aborted = TRUE]]
            /\ Fresh(1) = {}
         \/ /\ e \in Slots
            /\ slot' = [slot EXCEPT ![e] = [r EXCEPT !.shutting = TRUE, !.ssl = FALSE]]
            /\ Fresh(1) = {2} /\ Down'[2] = Frame("release", e, None)
  BY <1>h, <1>r, DetachFacts
<1>2. \A p \in Fresh(1) : Down'[p].op \notin {"free", "erase"}
  BY <1>1 DEF Frame
<1>3. \A t \in Slots \ {e} : slot'[t] = slot[t]
  BY <1>0, <1>1 DEF Typed
<1>4. ASSUME e \in Slots
      PROVE  slot'[e].key = slot[e].key /\ (~Dialling(slot[e]) => ~Dialling(slot'[e]))
  <2>1. DOMAIN slot[e] = SlotFields /\ DOMAIN slot = Slots /\ e # None
    BY <1>0, <1>4, SetsAssumption DEF Typed, SlotShape
  <2>2. /\ DOMAIN r = SlotFields /\ r.key = slot[e].key /\ r.ev = slot[e].ev
        /\ r.onconn = slot[e].onconn /\ r.awaiting = slot[e].awaiting
    BY <1>r, <2>1 DEF SlotFields
  <2>3. \/ slot'[e] = [r EXCEPT !.aborted = TRUE]
        \/ slot'[e] = [r EXCEPT !.shutting = TRUE, !.ssl = FALSE]
    BY <1>1, <1>4, <2>1
  <2>4. /\ slot'[e].key = r.key
        /\ slot'[e].ev = r.ev /\ slot'[e].onconn = r.onconn /\ slot'[e].awaiting = r.awaiting
    BY <2>2, <2>3 DEF SlotFields
  <2> QED BY <2>2, <2>4 DEF Dialling, IsConnecting
<1>5. \A t \in Slots : /\ slot'[t].key = slot[t].key
                       /\ slot[t].key # None /\ ~Dialling(slot[t]) => ~Dialling(slot'[t])
  BY <1>3, <1>4
<1>6. \A p \in 1 .. 1, u \in Fresh(1) :
         Down[p].op = "free" /\ Down'[u].op = "release" /\ Down[p].on = Down'[u].on
         => slot[Down[p].on].key = None
  BY <1>1
<1>7. Height > 0 => Down[Height].op \notin {"free", "erase"}
  BY <1>1, <1>h
<1> QED BY <1>0, <1>1, <1>2, <1>5, <1>6, <1>7, OwnKeep


\* A coroutine that gives no slot a key.
LEMMA CoroutineOwn ==
  ASSUME SInv, OwnInv, setup' = setup, NEW c \in Clients,
         \/ SendRefused(c) \/ (\E req \in Reqs : SendCoalesced(c, req))
         \/ Unpins(c) \/ Returns(c)
  PROVE  OwnInv'
<1>h. PICK h, g : h = Height /\ g = Down[h]
  OBVIOUS
<1>0. Typed
  BY DEF SInv
<1>1. Runs(c)
  BY DEF SendRefused, SendCoalesced, Unpins, Returns, Calls
<1>2. h \in Nat \ {0} /\ g.op = "run"
  BY <1>1, <1>h, RunsFacts
<1>3. CASE SendRefused(c)
  <2>1. /\ KeepsBelow(h - 1) /\ Fresh(h - 1) = {h} /\ Down'[h] = Frame("run", c, "failed")
        /\ slot' = slot /\ pending' = pending
    BY <1>3, <1>h, SendRefusedFacts
  <2>2. \A p \in Fresh(h - 1) : Down'[p].op \notin {"free", "erase", "release"}
    BY <2>1 DEF Frame
  <2> QED BY <1>0, <1>2, <1>h, <2>1, <2>2, OwnQuiet
<1>4. ASSUME NEW req \in Reqs, SendCoalesced(c, req)
      PROVE  OwnInv'
  <2>1. /\ KeepsBelow(h - 1) /\ Fresh(h - 1) = {} /\ slot' = slot
        /\ \A k \in Coalesced : pending'[k].by = pending[k].by
    BY <1>4, <1>h, SendCoalescedFacts
  <2> QED BY <1>0, <1>2, <1>h, <2>1, OwnQuiet
<1>5. CASE Unpins(c)
  <2>1. /\ KeepsBelow(h - 1) /\ Fresh(h - 1) = {h, h + 1} /\ Down'[h] = g
        /\ Down'[h + 1] = Frame("unpin", c, client[c].pin)
        /\ slot' = slot /\ pending' = pending
    BY <1>5, <1>h, UnpinsFacts
  <2>2. \A p \in Fresh(h - 1) : Down'[p].op \notin {"free", "erase", "release"}
    BY <1>2, <2>1 DEF Frame
  <2> QED BY <1>0, <1>2, <1>h, <2>1, <2>2, OwnQuiet
<1>6. CASE Returns(c)
  <2>1. /\ KeepsBelow(h - 1) /\ Fresh(h - 1) = {} /\ slot' = slot /\ pending' = pending
    BY <1>6, <1>h, ReturnsFacts
  <2> QED BY <1>0, <1>2, <1>h, <2>1, OwnQuiet
<1> QED BY <1>3, <1>4, <1>5, <1>6

\* A coroutine that takes a slot finds no key on it.
LEMMA TakesOwn ==
  ASSUME SInv, OwnInv, setup' = setup, NEW c \in Clients, NEW s \in Slots,
         ReserveSlot(c, s) \/ SendUnserializable(c, s)
  PROVE  OwnInv'
<1>h. PICK h, r : h = Height /\ r = (IF Holds(c, s) THEN slot[s] ELSE Lease(slot[s]))
  OBVIOUS
<1>0. Typed
  BY DEF SInv
<1>1. Takes(c, s)
  BY <1>h, ReserveSlotFacts DEF SendUnserializable, Takes, Holds
<1>2. /\ h \in Nat \ {0} /\ Down[h].op = "run" /\ slot[s].key = None
      /\ \A p \in Depth : Down[p].op \in SlotOps => Down[p].on # s
  BY <1>1, <1>h, TakesUntouched, RunsFacts DEF Takes, Calls
<1>3. /\ KeepsBelow(h - 1) /\ pending' = pending
      /\ slot'[s].key = None /\ \A t \in Slots \ {s} : slot'[t] = slot[t]
      /\ \A p \in Fresh(h - 1) : \/ Down'[p].op = "run"
                                 \/ Down'[p].op = "release" /\ Down'[p].on = s
  <2>1. CASE ReserveSlot(c, s)
    <3>1. /\ KeepsBelow(h - 1) /\ Fresh(h - 1) = {h} /\ Down'[h] = Down[h]
          /\ slot' = [slot EXCEPT ![s] = [Lease(@) EXCEPT !.reserved = TRUE]]
          /\ pending' = pending
      BY <1>h, <2>1, ReserveSlotFacts
    <3>2. /\ slot'[s] = [Lease(slot[s]) EXCEPT !.reserved = TRUE]
          /\ \A t \in Slots \ {s} : slot'[t] = slot[t]
      BY <1>0, <3>1 DEF Typed
    <3>3. slot'[s].key = None
      BY <1>0, <1>2, <3>2 DEF Typed, SlotShape, SlotFields, Lease
    <3> QED BY <1>2, <3>1, <3>2, <3>3
  <2>2. CASE SendUnserializable(c, s)
    <3>1. /\ KeepsBelow(h - 1) /\ Fresh(h - 1) = {h, h + 1}
          /\ Down'[h] = Frame("run", c, "failed") /\ Down'[h + 1] = Frame("release", s, None)
          /\ slot'[s] = Shut(r) /\ (\A t \in Slots \ {s} : slot'[t] = slot[t])
          /\ pending' = pending
      BY <1>h, <2>2, SendUnserializableFacts
    <3>2. SlotShape(r) /\ r.key = None
      BY <1>1, <1>h, TakesRecord
    <3>3. slot'[s].key = None
      BY <3>1, <3>2 DEF Shut, SlotShape, SlotFields
    <3>4. \A p \in Fresh(h - 1) : \/ Down'[p].op = "run"
                                  \/ Down'[p].op = "release" /\ Down'[p].on = s
      BY <3>1 DEF Frame
    <3> QED BY <3>1, <3>3, <3>4
  <2> QED BY <2>1, <2>2
<1>4. \A t \in Slots : /\ slot'[t].key = slot[t].key
                       /\ slot[t].key # None /\ ~Dialling(slot[t]) => ~Dialling(slot'[t])
  BY <1>2, <1>3
<1>5. \A p \in 1 .. h - 1 : p \in Depth
  BY <1>2, <1>h DEF Depth
<1>6. \A p \in 1 .. h - 1, u \in Fresh(h - 1) :
         Down[p].op = "free" /\ Down'[u].op = "release" /\ Down[p].on = Down'[u].on
         => slot[Down[p].on].key = None
  BY <1>2, <1>3, <1>5 DEF SlotOps
<1>7. \A p \in Fresh(h - 1) : Down'[p].op \notin {"free", "erase"}
  BY <1>3
<1> QED BY <1>0, <1>2, <1>3, <1>4, <1>6, <1>7, <1>h, OwnKeep

-------------------------------------------------------------------------------
(* The event loop. *)

\* A connection the loop opens is on a slot without a key.
LEMMA OpensOwn ==
  ASSUME SInv, OwnInv, setup' = setup, stack = <<>>, NEW s \in Slots, slot[s].key = None,
         NEW r, NEW y, NEW z, Opens(s, r, y, z)
  PROVE  OwnInv'
<1>q. PICK q : q = z.slot
  OBVIOUS
<1>0. Typed /\ pending' = pending
  BY DEF SInv, Opens
<1>1. slot'[s] = q /\ \A t \in Slots \ {s} : slot'[t] = slot[t]
  BY <1>0, <1>q DEF Typed, Opens
<1>2. q.key = None /\ CallsFrom(s, q, stack')
  <2>1. /\ SlotShape(z.slot) /\ Wired(z.slot) /\ z.slot.gen = r.gen
        /\ ~z.slot.reserved /\ z.slot.client = None /\ z.slot.key = None
        /\ Dialling(z.slot) => z.slot.leased
        /\ CallsFrom(s, z.slot, z.calls)
        /\ ~z.unlinks /\ z.registers = None
    BY ConnectOutcome DEF Opens
  <2> QED BY <1>q, <2>1 DEF Opens
<1>3. /\ KeepsBelow(0) /\ Height = 0
      /\ \/ Fresh(0) = {}
         \/ /\ Fresh(0) = {1} /\ Down'[1].on = s
            /\ Down'[1].op \in {"release", "complete", "parseError"}
  <2>1. /\ KeepsBelow(0) /\ Height = 0
        /\ \/ Fresh(0) = {}
           \/ /\ Fresh(0) = {1} /\ Down'[1].on = s
              /\ Down'[1].op \in {"release", "complete", "parseError"}
              /\ Down'[1].op = "complete" => HasRequestInFlight(q)
    BY <1>2, LoopCalls
  <2> QED BY <2>1
<1>4. \A t \in Slots : /\ slot'[t].key = slot[t].key
                       /\ slot[t].key # None /\ ~Dialling(slot[t]) => ~Dialling(slot'[t])
  BY <1>1, <1>2
<1>5. \A p \in Fresh(0) : Down'[p].op \notin {"free", "erase"}
  BY <1>3
<1>6. \A p \in 1 .. 0, u \in Fresh(0) :
         Down[p].op = "free" /\ Down'[u].op = "release" /\ Down[p].on = Down'[u].on
         => slot[Down[p].on].key = None
  OBVIOUS
<1> QED BY <1>0, <1>3, <1>4, <1>5, <1>6, OwnKeep

LEMMA PrewarmOwn ==
  ASSUME SInv, OwnInv, setup' = setup, NEW s \in Slots, PrewarmSlot(s)
  PROVE  OwnInv'
<1>1. stack = <<>> /\ ~slot[s].leased /\ \E y, z : Opens(s, Lease(slot[s]), y, z)
  BY PrewarmFacts
<1>2. slot[s].key = None
  BY <1>1, QuietFacts
<1> QED BY <1>1, <1>2, OpensOwn

\* A step that changes nothing here.
LEMMA OwnSame ==
  ASSUME OwnInv, slot' = slot, pending' = pending, stack' = stack, setup' = setup
  PROVE  OwnInv'
<1>1. Down' = Down /\ Depth' = Depth /\ Coalesced' = Coalesced /\ OnConnect' = OnConnect
  BY DEF Down, Depth, Height, Coalesced, OnConnect
<1>2. (\A k : Erasing(k)' <=> Erasing(k)) /\ \A s : Freeing(s)' <=> Freeing(s)
  BY <1>1 DEF Erasing, Freeing
<1>3. \A s \in Slots : OwnAt(s)'
  BY <1>1, <1>2 DEF OwnInv, OwnAt, Dialling, IsConnecting
<1>4. FreedErased' /\ ReleasedOnce'
  BY <1>1 DEF OwnInv, FreedErased, ReleasedOnce
<1>5. ErasedOwned' /\ EraseOnce'
  BY <1>1, <1>2 DEF OwnInv, ErasedOwned, EraseOnce
<1> QED BY <1>1, <1>3, <1>4, <1>5 DEF OwnInv

LEMMA ReconnectOwn ==
  ASSUME SInv, OwnInv, setup' = setup, NEW x \in reconnects, HandleReconnects(x)
  PROVE  OwnInv'
<1>s. PICK s, r : s = x.on /\ r = [slot[s] EXCEPT !.awaiting = FALSE]
  OBVIOUS
<1>1. /\ stack = <<>> /\ s \in Slots
      /\ \/ slot' = slot /\ client' = client /\ pending' = pending /\ stack' = stack
         \/ /\ slot[s].awaiting
            /\ \E y, z : Opens(s, r, y, z)
  BY <1>s, ReconnectFacts
<1>2. CASE slot' = slot /\ client' = client /\ pending' = pending /\ stack' = stack
  BY <1>2, OwnSame
<1>3. CASE slot[s].awaiting /\ \E y, z : Opens(s, r, y, z)
  <2>1. slot[s].key = None
    BY <1>1, <1>3, QuietFacts DEF Dialling
  <2> QED BY <1>1, <1>3, <2>1, OpensOwn
<1> QED BY <1>1, <1>2, <1>3

LEMMA ClientsOwn ==
  ASSUME SInv, OwnInv, setup' = setup, NEW c \in Clients,
         ClientAccepted(c) \/ RequestArrives(c) \/ ResponseSent(c) \/ ClientCloses(c)
  PROVE  OwnInv'
<1>0. Typed
  BY DEF SInv
<1>1. /\ stack = <<>> /\ slot' = slot /\ pending' = pending
  BY DEF ClientAccepted, RequestArrives, ResponseSent, ClientCloses, Take
<1>2. CASE ClientAccepted(c) \/ ResponseSent(c)
  <2>1. stack' = stack
    BY <1>2 DEF ClientAccepted, ResponseSent
  <2> QED BY <1>1, <2>1, OwnSame
<1>3. CASE RequestArrives(c)
  <2>f. PICK f : f = Frame("run", c, "ok")
    OBVIOUS
  <2>1. stack' = <<f>>
    BY <1>3, <2>f DEF RequestArrives
  <2>2. KeepsBelow(0) /\ Height = 0 /\ Fresh(0) = {1} /\ Down'[1] = f
    <3>1. f \in FrameType
      BY <2>f, FrameTypes
    <3> QED BY <1>1, <2>1, <3>1, Starts
  <2>3. \A p \in Fresh(0) : Down'[p].op \notin {"free", "erase", "release"}
    BY <2>2, <2>f DEF Frame
  <2> QED BY <1>0, <1>1, <2>2, <2>3, OwnQuiet
<1>4. CASE ClientCloses(c)
  <2>f. PICK e, f, g : /\ e = Frame("unpin", c, client[c].pin) /\ f = Frame("detach", c, None)
                       /\ g = Frame("freeClient", c, None)
    OBVIOUS
  <2>1. stack' = <<e, f, g>>
    BY <1>4, <2>f DEF ClientCloses
  <2>2. e \in FrameType /\ f \in FrameType /\ g \in FrameType
    <3>1. client[c].pin \in Pins
      BY <1>0 DEF Typed, ClientShape
    <3> QED BY <2>f, <3>1, FrameTypes
  <2>3. /\ KeepsBelow(0) /\ Height = 0 /\ Fresh(0) = {1, 2, 3}
        /\ Down'[1] = g /\ Down'[2] = f /\ Down'[3] = e
    BY <1>1, <2>1, <2>2, Starts
  <2>4. \A p \in Fresh(0) : Down'[p].op \notin {"free", "erase", "release"}
    BY <2>3, <2>f DEF Frame
  <2> QED BY <1>0, <1>1, <2>3, <2>4, OwnQuiet
<1> QED BY <1>2, <1>3, <1>4


-------------------------------------------------------------------------------
(* The steps that give a slot a key, or take it away. *)

\* A step at the bottom of the stack, where nothing is being freed.
LEMMA OwnBottom ==
  ASSUME OwnInv, setup' = setup, KeepsBelow(0),
         \A p \in Fresh(0) : Down'[p].op \notin {"free", "erase"},
         \A s \in Slots : OwnAt(s)'
  PROVE  OwnInv'
<1>1. \A p \in Depth' : Down'[p].op \notin {"free", "erase"}
  BY DEF Fresh, Depth
<1>2. FreedErased' /\ ReleasedOnce'
  BY <1>1 DEF FreedErased, ReleasedOnce
<1>3. ErasedOwned' /\ EraseOnce'
  BY <1>1 DEF ErasedOwned, EraseOnce, Erasing
<1>4. None \notin Coalesced'
  BY SetupKept DEF OwnInv
<1> QED BY <1>2, <1>3, <1>4 DEF OwnInv

\* An event of slot s: its key stays, with the connection, unless the deferred request
\* is registered or fails.
LEMMA HappensOwn ==
  ASSUME SInv, FitInv, OwnInv, setup' = setup, stack = <<>>, NEW s \in Slots, NEW x,
         Happens(s, x), ~Dialling(slot[s]) => Rests(slot[s], x.slot)
  PROVE  OwnInv'
<1>q. PICK r, q : r = slot[s] /\ q = x.slot
  OBVIOUS
<1>0. /\ Typed /\ OnConnect' = OnConnect /\ Coalesced' = Coalesced /\ SlotShape(r)
      /\ AnswersAt(s) /\ OwnAt(s) /\ None \notin Slots /\ None \notin Coalesced
  BY <1>q, SetupKept, SetsAssumption DEF SInv, Typed, OnConnect, FitInv, OwnInv
<1>1. slot'[s] = q /\ \A t \in Slots \ {s} : slot'[t] = slot[t]
  BY <1>0, <1>q DEF Typed, Happens
<1>2. KeepsBelow(0) /\ Height = 0 /\ \A p \in Fresh(0) : Down'[p].op \notin {"free", "erase"}
  <2>1. CASE ~x.unlinks
    <3>1. CallsFrom(s, x.slot, stack')
      BY <2>1 DEF Happens, Effect
    <3>2. /\ KeepsBelow(0) /\ Height = 0
          /\ \/ Fresh(0) = {}
             \/ /\ Fresh(0) = {1} /\ Down'[1].on = s
                /\ Down'[1].op \in {"release", "complete", "parseError"}
      BY <3>1, LoopCalls
    <3> QED BY <3>2
  <2>2. CASE x.unlinks
    <3>f. PICK f, g : f = Frame("resume", r.client, None) /\ g = Frame("close", s, None)
      OBVIOUS
    <3>1. stack' = <<f, g>>
      BY <1>q, <2>2, <3>f DEF Happens, Effect
    <3>2. f \in FrameType /\ g \in FrameType
      <4>1. r.client \in Clients \cup {None}
        BY <1>0 DEF SlotShape
      <4> QED BY <3>f, <4>1, FrameTypes DEF SlotOps
    <3>3. /\ KeepsBelow(0) /\ Height = 0 /\ Fresh(0) = {1, 2} /\ Down'[1] = g /\ Down'[2] = f
      BY <3>1, <3>2, Starts
    <3> QED BY <3>3, <3>f DEF Frame
  <2> QED BY <2>1, <2>2
<1>3. \A u : ~Freeing(u)
  BY <1>2, NothingFreed
<1>4. ~Dialling(r) => q.deferred = r.deferred /\ ~Dialling(q)
  BY <1>q DEF Rests
<1>5. CASE x.unlinks
  <2>1. q.key = None /\ r.deferred # None /\ q.deferred = None /\ x.registers = None
    BY <1>5, <1>q DEF Happens, Effect
  <2>2. pending' = pending
    BY <2>1 DEF Happens
  <2>3. OnConnect /\ Dialling(r)
    BY <1>0, <1>4, <1>q, <2>1 DEF AnswersAt
  <2>4. \A k \in Coalesced : pending[k].by # s
    BY <1>0, <1>q, <2>3 DEF OwnAt
  <2>5. OwnAt(s)'
    BY <1>0, <1>1, <2>1, <2>2, <2>3, <2>4 DEF OwnAt
  <2>6. ASSUME NEW t \in Slots \ {s}
        PROVE  OwnAt(t)'
    <3>1. OwnAt(t) /\ slot'[t] = slot[t]
      BY <1>1 DEF OwnInv
    <3> QED BY <1>0, <2>2, <2>3, <3>1 DEF OwnAt, Dialling, IsConnecting
  <2>7. \A t \in Slots : OwnAt(t)'
    BY <2>5, <2>6
  <2> QED BY <1>2, <2>7, OwnBottom
<1>6. CASE ~x.unlinks /\ x.registers = None
  <2>1. q.key = r.key /\ pending' = pending
    BY <1>6, <1>q DEF Happens, Effect
  <2>2. \A t \in Slots : /\ slot'[t].key = slot[t].key
                         /\ slot[t].key # None /\ ~Dialling(slot[t]) => ~Dialling(slot'[t])
    BY <1>1, <1>4, <1>q, <2>1
  <2>3. \A p \in 1 .. 0, u \in Fresh(0) :
           Down[p].op = "free" /\ Down'[u].op = "release" /\ Down[p].on = Down'[u].on
           => slot[Down[p].on].key = None
    OBVIOUS
  <2> QED BY <1>0, <1>2, <2>1, <2>2, <2>3, OwnKeep
<1>7. CASE ~x.unlinks /\ x.registers # None
  <2>k. PICK k : k = r.key
    OBVIOUS
  <2>1. x.registers = k /\ k # None /\ q.key = k /\ Flushed(r, q)
    BY <1>7, <1>q, <2>k DEF Happens, Effect
  <2>2. k \in Coalesced /\ pending' = [pending EXCEPT ![k].by = s]
    BY <1>0, <2>1, <2>k DEF SlotShape, Happens
  <2>3. /\ pending'[k].by = s /\ \A l \in Coalesced \ {k} : pending'[l].by = pending[l].by
    <3>1. pending \in [Coalesced -> [by : Slots \cup {None}, waiters : Seq(Tokens)]]
      BY <1>0 DEF Typed
    <3> QED BY <2>2, <3>1
  <2>4. OnConnect /\ Dialling(r) /\ ~Dialling(q)
    BY <1>0, <1>4, <1>q, <2>1 DEF AnswersAt, Flushed
  <2>5. \A l \in Coalesced : pending[l].by # s
    BY <1>0, <1>q, <2>4 DEF OwnAt
  <2>6. OwnAt(s)'
    BY <1>0, <1>1, <2>1, <2>3, <2>4, <2>5 DEF OwnAt, Dialling, IsConnecting
  <2>7. ASSUME NEW t \in Slots \ {s}
        PROVE  OwnAt(t)'
    <3>1. OwnAt(t) /\ slot'[t] = slot[t]
      BY <1>1 DEF OwnInv
    <3>2. \A l \in Coalesced : pending'[l].by = t => pending[l].by = t
      BY <2>3
    <3> QED BY <1>0, <2>4, <3>1, <3>2 DEF OwnAt, Dialling, IsConnecting
  <2>8. \A t \in Slots : OwnAt(t)'
    BY <2>6, <2>7
  <2> QED BY <1>2, <2>8, OwnBottom
<1> QED BY <1>5, <1>6, <1>7

LEMMA EventOwn ==
  ASSUME SInv, FitInv, OwnInv, setup' = setup, NEW s \in Slots, EndpointEvent(s) \/ SlotExpires(s)
  PROVE  OwnInv'
<1>1. SlotShape(slot[s])
  BY DEF SInv, Typed
<1>2. CASE EndpointEvent(s)
  <2>1. PICK x \in HandleEndpointEvent(s, slot[s]) : stack = <<>> /\ Happens(s, x)
    BY <1>2, EventFacts
  <2>2. ~Dialling(slot[s]) => Rests(slot[s], x.slot)
    BY <1>1, <2>1, EventRests
  <2> QED BY <2>1, <2>2, HappensOwn
<1>3. CASE SlotExpires(s)
  <2>1. PICK x \in HandleExpiry(s, [slot[s] EXCEPT !.timer = "none"]) :
            stack = <<>> /\ Happens(s, x)
    BY <1>3, ExpiryFacts
  <2>2. ~Dialling(slot[s]) => Rests(slot[s], x.slot)
    BY <1>1, <2>1, ExpiryRests
  <2> QED BY <2>1, <2>2, HappensOwn
<1> QED BY <1>2, <1>3

LEMMA LoopStepOwn ==
  ASSUME SInv, FitInv, OwnInv, setup' = setup, LoopStep
  PROVE  OwnInv'
<1>1. CASE StaleEvent
  BY <1>1, OwnSame DEF StaleEvent
<1> QED BY <1>1, PrewarmOwn, EventOwn, ReconnectOwn, ClientsOwn DEF LoopStep

\* CompleteSingleSlotRequest takes the entry out of the map with the key.
LEMMA CompleteOwn ==
  ASSUME SInv, OwnInv, setup' = setup, Complete
  PROVE  OwnInv'
<1>h. PICK s, c, k, o, a : /\ s = Down[Height].on /\ c = slot[s].client
                           /\ k = slot[s].key /\ o = slot[s].owes /\ a = Down[Height].arg
  OBVIOUS
<1>0. /\ Typed /\ Placed /\ OnConnect' = OnConnect /\ Coalesced' = Coalesced
      /\ None \notin Slots /\ None \notin Coalesced
  BY SetupKept, SetsAssumption DEF SInv, OnConnect, OwnInv
<1>1. /\ Height = 1 /\ KeepsBelow(0) /\ Down[1].op = "complete"
      /\ s \in Slots /\ k \in Coalesced \cup {None}
      /\ slot' = [slot EXCEPT ![s] = Completed(slot[s])]
      /\ k = None => pending' = pending
      /\ k # None => pending'[k] = NoEntry
      /\ \A l \in Coalesced : l # k => pending'[l] = pending[l]
      /\ Fresh(0) = {1, 2, 3}
      /\ Down'[1] = Frame("resume", c, o) /\ Down'[2] = Frame("finish", s, a)
      /\ Down'[3] = Frame("waiters", WaitersOf(k), o)
  BY <1>0, <1>h, CompleteFacts
<1>2. \A p \in Fresh(0) : Down'[p].op \notin {"free", "erase"}
  BY <1>1 DEF Frame
<1>3. \A u : ~Freeing(u)
  BY <1>1 DEF Freeing, Depth
<1>4. slot'[s].key = None /\ \A t \in Slots \ {s} : slot'[t] = slot[t]
  BY <1>0, <1>1 DEF Typed, SlotShape, SlotFields, Completed
<1>5. OwnAt(s)'
  <2>1. OwnAt(s)
    BY <1>1 DEF OwnInv
  <2>2. ASSUME NEW l \in Coalesced
        PROVE  pending'[l].by # s
    <3>1. CASE l = k
      <4>1. pending'[l] = NoEntry
        BY <1>0, <1>1, <3>1
      <4> QED BY <1>0, <1>1, <4>1 DEF NoEntry
    <3>2. CASE l # k
      <4>1. pending'[l] = pending[l] /\ pending[l].by # s
        BY <1>1, <1>h, <2>1, <3>2 DEF OwnAt
      <4> QED BY <4>1
    <3> QED BY <3>1, <3>2
  <2> QED BY <1>0, <1>4, <2>2 DEF OwnAt
<1>6. ASSUME NEW t \in Slots \ {s}
      PROVE  OwnAt(t)'
  <2>1. OwnAt(t) /\ OwnAt(s) /\ slot'[t] = slot[t]
    BY <1>1, <1>4 DEF OwnInv
  <2>2. ASSUME NEW l \in Coalesced, pending'[l].by = t
        PROVE  pending[l].by = t
    <3>1. l # k
      BY <1>0, <1>1, <2>2 DEF NoEntry
    <3> QED BY <1>1, <2>2, <3>1
  <2>3. ASSUME ~OnConnect, slot[t].key # None
        PROVE  pending'[slot[t].key].by = t
    <3>1. slot[t].key \in Coalesced /\ pending[slot[t].key].by = t
      BY <1>0, <1>3, <2>1, <2>3 DEF OwnAt, Typed, SlotShape
    <3>2. slot[t].key # k
      BY <1>3, <1>h, <2>1, <2>3, <3>1 DEF OwnAt
    <3> QED BY <1>1, <3>1, <3>2
  <2> QED BY <1>0, <2>1, <2>2, <2>3 DEF OwnAt, Dialling, IsConnecting
<1>7. \A t \in Slots : OwnAt(t)'
  BY <1>5, <1>6
<1> QED BY <1>1, <1>2, <1>7, OwnBottom


\* SendPayload gives its slot a key only where the key has no entry yet.
LEMMA SendOwn ==
  ASSUME SInv, OwnInv, setup' = setup, NEW c \in Clients, NEW req \in Reqs, NEW s \in Slots,
         Send(c, req, s)
  PROVE  OwnInv'
<1>h. PICK h, key, r : /\ h = Height /\ key = (IF Holds(c, s) THEN None ELSE KeyOf(req))
                       /\ r = (IF Holds(c, s) THEN slot[s] ELSE Lease(slot[s]))
  OBVIOUS
<1>0. /\ Typed /\ OnConnect' = OnConnect /\ Coalesced' = Coalesced
      /\ None \notin Slots /\ None \notin Coalesced
  BY SetupKept, SetsAssumption DEF SInv, OnConnect, OwnInv
<1>1. /\ Calls(c) /\ Takes(c, s) /\ KeepsBelow(h - 1)
      /\ key \in Coalesced \cup {None}
      /\ key # None => pending[key].by = None
      /\ \A k \in Coalesced :
            pending'[k].by = IF key # None /\ k = key /\ ~(OnConnect /\ ~r.alive) THEN s
                             ELSE pending[k].by
      /\ \E q : /\ slot' = [slot EXCEPT ![s] = q]
                /\ q.key = key
                /\ Bears(r, q, req)
                /\ \/ q.client = c /\ Fresh(h - 1) = {}
                   \/ /\ q.client = None
                      /\ Fresh(h - 1) = {h, h + 1} /\ Down'[h] = Frame("run", c, "failed")
                      /\ \E why \in {None, "refused"} :
                            Down'[h + 1] = Frame("release", s, why)
  BY <1>h, SendFacts
<1>2. PICK q : /\ slot' = [slot EXCEPT ![s] = q]
               /\ q.key = key
               /\ Bears(r, q, req)
               /\ \/ q.client = c /\ Fresh(h - 1) = {}
                  \/ /\ q.client = None
                     /\ Fresh(h - 1) = {h, h + 1} /\ Down'[h] = Frame("run", c, "failed")
                     /\ \E why \in {None, "refused"} :
                           Down'[h + 1] = Frame("release", s, why)
  BY <1>1
<1>3. /\ h \in Nat \ {0} /\ Down[h].op = "run" /\ slot[s].key = None
      /\ \A p \in Depth : Down[p].op \in SlotOps => Down[p].on # s
  BY <1>1, <1>h, TakesUntouched, RunsFacts DEF Calls
<1>4. slot'[s] = q /\ \A t \in Slots \ {s} : slot'[t] = slot[t]
  BY <1>0, <1>2 DEF Typed
<1>5. \A p \in Fresh(h - 1) : \/ Down'[p].op = "run"
                              \/ Down'[p].op = "release" /\ Down'[p].on = s
  BY <1>2 DEF Frame
<1>6. \A k \in Coalesced : pending'[k].by \in {s, pending[k].by}
  BY <1>1
<1>7. \A k \in Coalesced : pending[k].by # None => pending'[k].by = pending[k].by
  BY <1>1
<1>8. \A u : Freeing(u)' <=> Freeing(u)
  BY <1>1, <1>3, <1>5, <1>h, FreeingSame
<1>9. OwnAt(s)'
  <2>1. \A k \in Coalesced : pending[k].by # s
    <3>1. OwnAt(s)
      BY DEF OwnInv
    <3> QED BY <1>0, <1>3, <3>1 DEF OwnAt
  <2>2. ASSUME NEW k \in Coalesced, pending'[k].by = s
        PROVE  slot'[s].key = k /\ (OnConnect => ~Dialling(slot'[s]))
    <3>1. key # None /\ k = key /\ ~(OnConnect /\ ~r.alive)
      BY <1>1, <2>1, <2>2
    <3> QED BY <1>2, <1>4, <3>1 DEF Bears
  <2>3. ASSUME ~OnConnect, slot'[s].key # None
        PROVE  pending'[slot'[s].key].by = s
    <3>1. slot'[s].key = key /\ key # None /\ key \in Coalesced
      BY <1>1, <1>2, <1>4, <2>3
    <3> QED BY <1>1, <2>3, <3>1
  <2> QED BY <1>0, <2>2, <2>3 DEF OwnAt, Dialling, IsConnecting
<1>10. ASSUME NEW t \in Slots \ {s}
       PROVE  OwnAt(t)'
  <2>1. OwnAt(t) /\ slot'[t] = slot[t]
    BY <1>4 DEF OwnInv
  <2>2. \A k \in Coalesced : pending'[k].by = t <=> pending[k].by = t
    BY <1>0, <1>6, <1>7
  <2>3. slot[t].key # None => slot[t].key \in Coalesced
    BY <1>0 DEF Typed, SlotShape
  <2> QED BY <1>0, <1>8, <2>1, <2>2, <2>3 DEF OwnAt, Dialling, IsConnecting
<1>11. \A t \in Slots : OwnAt(t)'
  BY <1>9, <1>10
<1>12. ASSUME NEW p \in 1 .. h - 1, Down[p].op = "free"
       PROVE  Down[p].on \in Slots \ {s}
  <2>1. p \in Depth
    BY <1>3, <1>h DEF Depth
  <2>2. Down[p] \in FrameType
    BY <1>0, <2>1, FramesTyped
  <2> QED BY <1>3, <1>12, <2>1, <2>2, FrameFacts DEF SlotOps
<1>13. FreedErased'
  <2>1. \A p \in 1 .. h - 1, l \in Coalesced :
           Down[p].op = "free" /\ pending'[l].by = Down[p].on =>
              /\ pending[l].by = Down[p].on
              /\ ~(Down[Height].op = "erase" /\ Down[Height].on = l)
    BY <1>3, <1>6, <1>12, <1>h
  <2>2. \A p \in Fresh(h - 1), l \in Coalesced :
           Down'[p].op = "free" /\ pending'[l].by = Down'[p].on =>
              \E u \in Depth' : u > p /\ Down'[u].op = "erase" /\ Down'[u].on = l
    BY <1>5
  <2> QED BY <1>1, <2>1, <2>2, FreedStep
<1>14. ReleasedOnce'
  <2>1. \A p \in 1 .. h - 1 : Down[p].op = "free" /\ slot[Down[p].on].key = None
                              => slot'[Down[p].on].key = None
    BY <1>4, <1>12
  <2>2. \A p \in 1 .. h - 1, u \in Fresh(h - 1) :
           Down[p].op = "free" /\ Down'[u].op = "release" /\ Down[p].on = Down'[u].on
           => slot'[Down[p].on].key = None
    BY <1>5, <1>12
  <2>3. \A p, u \in Fresh(h - 1) : ~(Down'[p].op = "free" /\ Down'[u].op = "release")
    BY <1>5
  <2> QED BY <1>1, <2>1, <2>2, <2>3, ReleasedStep
<1>15. EraseOnce' /\ \A k : Erasing(k)' => Erasing(k)
  <2>1. \A p \in Fresh(h - 1) : Down'[p].op \notin {"free", "erase"}
    BY <1>5
  <2> QED BY <1>1, <2>1, FramesOwn
<1>16. ErasedOwned'
  <2> SUFFICES ASSUME ~OnConnect, NEW k \in Coalesced, Erasing(k)'
               PROVE  \E u \in Slots : pending'[k].by = u /\ Freeing(u)'
    BY <1>0 DEF ErasedOwned
  <2>1. PICK u \in Slots : pending[k].by = u /\ Freeing(u)
    BY <1>15 DEF OwnInv, ErasedOwned
  <2>2. pending'[k].by = u
    BY <1>0, <1>7, <2>1
  <2> QED BY <1>8, <2>1, <2>2
<1> QED BY <1>0, <1>11, <1>13, <1>14, <1>15, <1>16 DEF OwnInv

LEMMA CoroutineStepOwn ==
  ASSUME SInv, OwnInv, setup' = setup, NEW c \in Clients, CoroutineStep(c)
  PROVE  OwnInv'
BY CoroutineOwn, TakesOwn, SendOwn DEF CoroutineStep

\* FreeSlot: the entry of the slot is erased, and the key goes.
LEMMA FreeSlotOwn ==
  ASSUME SInv, OwnInv, setup' = setup, FreeSlot
  PROVE  OwnInv'
<1>h. PICK h, s : h = Height /\ s = Down[h].on
  OBVIOUS
<1>0. /\ Typed /\ OnConnect' = OnConnect /\ Coalesced' = Coalesced
      /\ None \notin Slots /\ None \notin Coalesced
  BY SetupKept, SetsAssumption DEF SInv, OnConnect, OwnInv
<1>1. /\ h \in Nat \ {0} /\ KeepsBelow(h - 1) /\ Down[h].op = "free" /\ h \in Depth
      /\ s \in Slots /\ slot' = [slot EXCEPT ![s] = Reset(slot[s])] /\ pending' = pending
      /\ Fresh(h - 1) = {}
  BY <1>0, <1>h, FreeSlotFacts
<1>2. slot'[s].key = None /\ \A t \in Slots \ {s} : slot'[t] = slot[t]
  BY <1>0, <1>1 DEF Typed, Reset, Closed
<1>3. \A k \in Coalesced : pending[k].by # s
  <2> SUFFICES ASSUME NEW k \in Coalesced, pending[k].by = s
               PROVE  FALSE
    OBVIOUS
  <2>1. PICK q \in Depth : q > h
    BY <1>1, <1>h DEF OwnInv, FreedErased
  <2> QED BY <1>1, <1>h, <2>1 DEF Depth
<1>4. ASSUME NEW t, t # s
      PROVE  Freeing(t)' <=> Freeing(t)
  BY <1>1, <1>4, <1>h, FreeingSame
<1>5. OwnAt(s)'
  BY <1>0, <1>1, <1>2, <1>3 DEF OwnAt
<1>6. ASSUME NEW t \in Slots \ {s}
      PROVE  OwnAt(t)'
  <2>1. OwnAt(t) /\ slot'[t] = slot[t]
    BY <1>2 DEF OwnInv
  <2> QED BY <1>0, <1>1, <1>4, <2>1 DEF OwnAt, Dialling, IsConnecting
<1>7. \A t \in Slots : OwnAt(t)'
  BY <1>5, <1>6
<1>8. ASSUME NEW p \in 1 .. h - 1, Down[p].op = "free"
      PROVE  Down[p].on \in Slots
  <2>1. Down[p] \in FrameType
    BY <1>0, <1>1, <1>h, FramesTyped DEF Depth
  <2> QED BY <1>8, <2>1, FrameFacts DEF SlotOps
<1>9. FreedErased'
  <2>1. \A p \in 1 .. h - 1, l \in Coalesced :
           Down[p].op = "free" /\ pending'[l].by = Down[p].on =>
              /\ pending[l].by = Down[p].on
              /\ ~(Down[Height].op = "erase" /\ Down[Height].on = l)
    BY <1>1, <1>h
  <2> QED BY <1>1, <2>1, FreedStep
<1>10. ReleasedOnce'
  <2>1. \A p \in 1 .. h - 1 : Down[p].op = "free" /\ slot[Down[p].on].key = None
                              => slot'[Down[p].on].key = None
    BY <1>2, <1>8
  <2> QED BY <1>1, <2>1, ReleasedStep
<1>11. EraseOnce' /\ \A k : Erasing(k)' => Erasing(k)
  BY <1>1, FramesOwn
<1>12. ErasedOwned'
  <2> SUFFICES ASSUME ~OnConnect, NEW k \in Coalesced, Erasing(k)'
               PROVE  \E u \in Slots : pending'[k].by = u /\ Freeing(u)'
    BY <1>0 DEF ErasedOwned
  <2>1. PICK u \in Slots : pending[k].by = u /\ Freeing(u)
    BY <1>11 DEF OwnInv, ErasedOwned
  <2>2. u # s
    BY <1>3, <2>1
  <2> QED BY <1>1, <1>4, <2>1, <2>2
<1> QED BY <1>0, <1>7, <1>9, <1>10, <1>11, <1>12 DEF OwnInv

\* pending.erase(it): the entry that goes is that of the slot being released.
LEMMA EraseOwn ==
  ASSUME SInv, OwnInv, setup' = setup, EraseEntry
  PROVE  OwnInv'
<1>h. PICK h, k : h = Height /\ k = Down[h].on
  OBVIOUS
<1>0. /\ Typed /\ OnConnect' = OnConnect /\ Coalesced' = Coalesced
      /\ None \notin Slots /\ None \notin Coalesced
  BY SetupKept, SetsAssumption DEF SInv, OnConnect, OwnInv
<1>1. /\ h \in Nat \ {0} /\ KeepsBelow(h - 1) /\ Down[h].op = "erase" /\ h \in Depth
      /\ k \in Coalesced /\ slot' = slot /\ Fresh(h - 1) = {}
      /\ \A l \in Coalesced : pending'[l] = IF l = k THEN NoEntry ELSE pending[l]
  BY <1>0, <1>h, EraseFacts
<1>2. pending'[k].by = None /\ \A l \in Coalesced \ {k} : pending'[l].by = pending[l].by
  BY <1>1 DEF NoEntry
<1>3. \A t : Freeing(t)' <=> Freeing(t)
  BY <1>1, <1>h, FreeingSame
<1>4. Erasing(k)
  BY <1>1, <1>h DEF Erasing
<1>5. ASSUME NEW t \in Slots
      PROVE  OwnAt(t)'
  <2>1. OwnAt(t) /\ slot'[t] = slot[t]
    BY <1>1 DEF OwnInv
  <2>2. \A l \in Coalesced : pending'[l].by = t => pending[l].by = t
    BY <1>0, <1>2
  <2>3. ASSUME ~OnConnect, slot[t].key # None
        PROVE  pending'[slot[t].key].by = t \/ Freeing(t)
    <3>1. slot[t].key \in Coalesced /\ (pending[slot[t].key].by = t \/ Freeing(t))
      BY <1>0, <2>1, <2>3 DEF OwnAt, Typed, SlotShape
    <3>2. CASE slot[t].key = k
      <4>1. \E u \in Slots : pending[k].by = u /\ Freeing(u)
        BY <1>1, <1>4, <2>3 DEF OwnInv, ErasedOwned
      <4> QED BY <3>1, <3>2, <4>1
    <3>3. CASE slot[t].key # k
      BY <1>2, <3>1, <3>3
    <3> QED BY <3>2, <3>3
  <2> QED BY <1>0, <1>3, <2>1, <2>2, <2>3 DEF OwnAt, Dialling, IsConnecting
<1>6. ASSUME NEW p \in 1 .. h - 1, Down[p].op = "free"
      PROVE  Down[p].on \in Slots
  <2>1. Down[p] \in FrameType
    BY <1>0, <1>1, <1>h, FramesTyped DEF Depth
  <2> QED BY <1>6, <2>1, FrameFacts DEF SlotOps
<1>7. FreedErased'
  <2>1. ASSUME NEW p \in 1 .. h - 1, NEW l \in Coalesced, Down[p].op = "free",
               pending'[l].by = Down[p].on
        PROVE  /\ pending[l].by = Down[p].on
               /\ ~(Down[Height].op = "erase" /\ Down[Height].on = l)
    <3>1. Down[p].on # None
      BY <1>0, <1>6, <2>1
    <3>2. l # k
      BY <1>2, <2>1, <3>1
    <3> QED BY <1>2, <1>h, <2>1, <3>2
  <2> QED BY <1>1, <2>1, FreedStep
<1>8. ReleasedOnce'
  <2>1. \A p \in 1 .. h - 1 : Down[p].op = "free" /\ slot[Down[p].on].key = None
                              => slot'[Down[p].on].key = None
    BY <1>1
  <2> QED BY <1>1, <2>1, ReleasedStep
<1>9. EraseOnce' /\ \A l : Erasing(l)' => Erasing(l)
  BY <1>1, FramesOwn
<1>10. ErasedOwned'
  <2> SUFFICES ASSUME ~OnConnect, NEW l \in Coalesced, Erasing(l)'
               PROVE  \E u \in Slots : pending'[l].by = u /\ Freeing(u)'
    BY <1>0 DEF ErasedOwned
  <2>1. l # k
    <3> SUFFICES ASSUME l = k
                 PROVE  FALSE
      OBVIOUS
    <3>1. PICK p \in Depth' : Down'[p].op = "erase" /\ Down'[p].on = k
      BY DEF Erasing
    <3>2. p \in Depth /\ Down'[p] = Down[p] /\ p < h
      BY <1>1, <1>h, Before
    <3>3. p = h
      BY <1>1, <1>h, <3>1, <3>2 DEF OwnInv, EraseOnce
    <3> QED BY <1>1, <3>2, <3>3
  <2>2. PICK u \in Slots : pending[l].by = u /\ Freeing(u)
    BY <1>9 DEF OwnInv, ErasedOwned
  <2> QED BY <1>2, <1>3, <2>1, <2>2
<1> QED BY <1>0, <1>5, <1>7, <1>8, <1>9, <1>10 DEF OwnInv


\* A slot that is released with a key owns the entry of that key.
LEMMA ReleasedOwns ==
  ASSUME Typed, OwnInv, ~OnConnect, Running("release"), NEW s, s = Down[Height].on,
         slot[s].key # None
  PROVE  /\ s \in Slots /\ slot[s].key \in Coalesced /\ pending[slot[s].key].by = s
         /\ ~Freeing(s)
<1>1. /\ Height \in Depth /\ Down[Height] \in FrameType /\ Down[Height].op = "release"
      /\ Height \in Nat
  BY Tops
<1>2. s \in Slots
  BY <1>1, FrameFacts DEF SlotOps
<1>3. ~Freeing(s)
  <2> SUFFICES ASSUME NEW p \in Depth, Down[p].op = "free", Down[p].on = s
               PROVE  FALSE
    BY DEF Freeing
  <2>1. p # Height
    BY <1>1
  <2>2. p < Height
    BY <1>1, <2>1 DEF Depth
  <2>3. slot[s].key = None
    BY <1>1, <2>2 DEF OwnInv, ReleasedOnce
  <2> QED BY <2>3
<1>4. slot[s].key \in Coalesced /\ OwnAt(s)
  BY <1>2 DEF Typed, SlotShape, OwnInv
<1> QED BY <1>2, <1>3, <1>4 DEF OwnAt

\* ReleaseEndpoint leaves the entry to be erased before the slot is freed.
LEMMA ReleaseOwn ==
  ASSUME SInv, OwnInv, setup' = setup, ReleaseEndpoint
  PROVE  OwnInv'
<1>h. PICK h, s, k : h = Height /\ s = Down[h].on /\ k = slot[s].key
  OBVIOUS
<1>0. /\ Typed /\ OnConnect' = OnConnect /\ Coalesced' = Coalesced
      /\ None \notin Slots /\ None \notin Coalesced
  BY SetupKept, SetsAssumption DEF SInv, OnConnect, OwnInv
<1>1. /\ h \in Nat \ {0} /\ KeepsBelow(h - 1) /\ Down[h].op = "release"
      /\ s \in Slots /\ k \in Coalesced \cup {None}
      /\ slot' = [slot EXCEPT ![s] = Released(slot[s])] /\ pending' = pending
      /\ Down'[h] = Frame("free", s, None) /\ Down'[h + 1] = Frame("notify", s, None)
      /\ IF k = None THEN Fresh(h - 1) = {h, h + 1}
         ELSE /\ Fresh(h - 1) = {h, h + 1, h + 2, h + 3} /\ k \in Coalesced
              /\ Down'[h + 2] = Frame("erase", k, None)
              /\ Down'[h + 3] = Frame("waiters", pending[k].waiters, None)
  BY <1>0, <1>h, ReleaseFacts
<1>2. \A t \in Slots : slot'[t].key = slot[t].key /\ (Dialling(slot[t]) <=> Dialling(slot'[t]))
  <2>1. \A t \in Slots : /\ slot'[t].key = slot[t].key /\ slot'[t].ev = slot[t].ev
                         /\ slot'[t].onconn = slot[t].onconn
                         /\ slot'[t].awaiting = slot[t].awaiting
    BY <1>0, <1>1 DEF Typed, SlotShape, SlotFields, Released
  <2> QED BY <2>1 DEF Dialling, IsConnecting
<1>3. ASSUME NEW p \in Fresh(h - 1)
      PROVE  /\ Down'[p].op # "release"
             /\ Down'[p].op = "free" => p = h /\ Down'[p].on = s
             /\ Down'[p].op = "erase" => k # None /\ p = h + 2 /\ Down'[p].on = k
  BY <1>1 DEF Frame
<1>4. /\ \A p \in Fresh(h - 1) : p \in Depth'
      /\ \A p \in 1 .. h - 1 : p \in Depth /\ p \in Depth' /\ Down'[p] = Down[p] /\ p < h
  BY <1>1, <1>h DEF Fresh, Depth, KeepsBelow
<1>5. Freeing(s)' /\ \A t : Freeing(t) => Freeing(t)'
  <2>1. h \in Fresh(h - 1)
    BY <1>1
  <2>2. Freeing(s)'
    BY <1>1, <1>4, <2>1 DEF Freeing, Frame
  <2>3. ASSUME NEW t, Freeing(t)
        PROVE  Freeing(t)'
    <3>1. PICK p \in Depth : Down[p].op = "free" /\ Down[p].on = t
      BY <2>3 DEF Freeing
    <3>2. p # Height
      BY <1>1, <1>h, <3>1
    <3>3. p \in Depth' /\ Down'[p] = Down[p]
      BY <1>1, <3>2, Below
    <3> QED BY <3>1, <3>3 DEF Freeing
  <2> QED BY <2>2, <2>3
<1>6. ~OnConnect /\ k # None => pending[k].by = s /\ ~Freeing(s)
  <2>1. Running("release")
    BY DEF ReleaseEndpoint
  <2> QED BY <1>0, <1>h, <2>1, ReleasedOwns
<1>7. ASSUME NEW t \in Slots
      PROVE  OwnAt(t)'
  <2>1. OwnAt(t) /\ slot'[t].key = slot[t].key /\ (Dialling(slot[t]) <=> Dialling(slot'[t]))
    BY <1>2 DEF OwnInv
  <2>2. \A l \in Coalesced :
           pending'[l].by = t => slot'[t].key = l /\ (OnConnect => ~Dialling(slot'[t]))
    BY <1>1, <2>1 DEF OwnAt
  <2>3. ~OnConnect /\ slot'[t].key # None => pending'[slot'[t].key].by = t \/ Freeing(t)'
    BY <1>1, <1>5, <2>1 DEF OwnAt
  <2> QED BY <1>0, <2>2, <2>3 DEF OwnAt, Dialling, IsConnecting
<1>8. FreedErased'
  <2>1. \A p \in 1 .. h - 1, l \in Coalesced :
           Down[p].op = "free" /\ pending'[l].by = Down[p].on =>
              /\ pending[l].by = Down[p].on
              /\ ~(Down[Height].op = "erase" /\ Down[Height].on = l)
    BY <1>1, <1>h
  <2>2. ASSUME NEW p \in Fresh(h - 1), NEW l \in Coalesced, Down'[p].op = "free",
               pending'[l].by = Down'[p].on
        PROVE  \E q \in Depth' : q > p /\ Down'[q].op = "erase" /\ Down'[q].on = l
    <3>1. p = h /\ pending[l].by = s
      BY <1>1, <1>3, <2>2
    <3>2. l = k /\ k # None
      BY <1>0, <1>1, <1>h, <3>1 DEF OwnInv, OwnAt
    <3>3. h + 2 \in Depth' /\ h + 2 > h /\ Down'[h + 2] = Frame("erase", k, None)
      BY <1>1, <1>4, <3>2
    <3> QED BY <3>1, <3>2, <3>3 DEF Frame
  <2> QED BY <1>1, <2>1, <2>2, FreedStep
<1>9. ReleasedOnce'
  <2>1. ASSUME NEW p \in 1 .. h - 1, Down[p].op = "free", slot[Down[p].on].key = None
        PROVE  slot'[Down[p].on].key = None
    <3>1. Down[p] \in FrameType
      BY <1>0, <1>4, FramesTyped
    <3>2. Down[p].on \in Slots
      BY <2>1, <3>1, FrameFacts DEF SlotOps
    <3> QED BY <1>2, <2>1, <3>2
  <2>2. \A p \in 1 .. h - 1, q \in Fresh(h - 1) :
           Down[p].op = "free" /\ Down'[q].op = "release" /\ Down[p].on = Down'[q].on
           => slot'[Down[p].on].key = None
    BY <1>3
  <2>3. \A p, q \in Fresh(h - 1) : ~(Down'[p].op = "free" /\ Down'[q].op = "release")
    BY <1>3
  <2> QED BY <1>1, <2>1, <2>2, <2>3, ReleasedStep
<1>10. ASSUME NEW p \in Depth', Down'[p].op = "erase", p \notin Fresh(h - 1)
       PROVE  p \in Depth /\ Down'[p] = Down[p]
  BY <1>1, <1>10, Before
<1>11. ErasedOwned'
  <2> SUFFICES ASSUME ~OnConnect, NEW l \in Coalesced, Erasing(l)'
               PROVE  \E u \in Slots : pending'[l].by = u /\ Freeing(u)'
    BY <1>0 DEF ErasedOwned
  <2>1. PICK p \in Depth' : Down'[p].op = "erase" /\ Down'[p].on = l
    BY DEF Erasing
  <2>2. CASE p \in Fresh(h - 1)
    <3>1. k # None /\ l = k
      BY <1>3, <2>1, <2>2
    <3> QED BY <1>1, <1>5, <1>6, <3>1
  <2>3. CASE p \notin Fresh(h - 1)
    <3>1. Erasing(l)
      BY <1>10, <2>1, <2>3 DEF Erasing
    <3>2. PICK u \in Slots : pending[l].by = u /\ Freeing(u)
      BY <3>1 DEF OwnInv, ErasedOwned
    <3> QED BY <1>1, <1>5, <3>2
  <2> QED BY <2>2, <2>3
<1>12. EraseOnce'
  <2> SUFFICES ASSUME ~OnConnect, NEW p \in Depth', NEW q \in Depth', Down'[p].op = "erase",
                      Down'[q].op = "erase", Down'[p].on = Down'[q].on
               PROVE  p = q
    BY <1>0 DEF EraseOnce
  <2>1. ASSUME k # None
        PROVE  ~Erasing(k)
    <3>1. pending[k].by = s /\ ~Freeing(s) /\ k \in Coalesced
      BY <1>1, <1>6, <2>1
    <3> QED BY <3>1 DEF OwnInv, ErasedOwned
  <2>2. ASSUME NEW u \in Depth', NEW v \in Depth', Down'[u].op = "erase", Down'[v].op = "erase",
               Down'[u].on = Down'[v].on, u \in Fresh(h - 1)
        PROVE  v \in Fresh(h - 1)
    <3> SUFFICES ASSUME v \notin Fresh(h - 1)
                 PROVE  FALSE
      OBVIOUS
    <3>1. k # None /\ Down'[v].on = k
      BY <1>3, <2>2
    <3>2. Erasing(k)
      BY <1>10, <2>2, <3>1 DEF Erasing
    <3> QED BY <2>1, <3>1, <3>2
  <2>3. CASE p \in Fresh(h - 1)
    <3>1. q \in Fresh(h - 1)
      BY <2>2, <2>3
    <3> QED BY <1>3, <2>3, <3>1
  <2>4. CASE p \notin Fresh(h - 1)
    <3>1. q \notin Fresh(h - 1)
      BY <2>2, <2>4
    <3>2. p \in Depth /\ Down'[p] = Down[p] /\ q \in Depth /\ Down'[q] = Down[q]
      BY <1>10, <2>4, <3>1
    <3> QED BY <3>2 DEF OwnInv, EraseOnce
  <2> QED BY <2>3, <2>4
<1> QED BY <1>0, <1>7, <1>8, <1>9, <1>11, <1>12 DEF OwnInv

-------------------------------------------------------------------------------
(* A coalesced response reaches the clients that asked for it. *)

LEMMA HandlerOwn ==
  ASSUME SInv, OwnInv, setup' = setup, HandlerStep
  PROVE  OwnInv'
BY DetachOwn, FreeClientOwn, ReleaseSlotOwn, WakingOwn, CompleteOwn, FinishOwn, TellingOwn,
   CloseSlotOwn, ReleaseOwn, EraseOwn, FreeSlotOwn DEF HandlerStep

LEMMA OwnInit ==
  ASSUME Init
  PROVE  OwnInv
<1>1. Depth = {} /\ (\A k \in Coalesced : pending[k].by = None)
      /\ \A s \in Slots : slot[s].key = None
  BY DEF Init, Depth, Height, NoEntry, Closed
<1>2. None \notin Coalesced /\ None \notin Slots
  <2>1. Coalesced \subseteq AllReqs
    BY SetupAssumption DEF Init, Coalesced
  <2> QED BY <2>1, SetsAssumption
<1>3. \A s \in Slots : OwnAt(s)
  BY <1>1, <1>2 DEF OwnAt
<1>4. FreedErased /\ ReleasedOnce /\ ErasedOwned /\ EraseOnce
  BY <1>1 DEF FreedErased, ReleasedOnce, ErasedOwned, EraseOnce, Erasing
<1> QED BY <1>2, <1>3, <1>4 DEF OwnInv

LEMMA OwnHolds == Spec => [](Tame => SInv /\ FitInv /\ OwnInv)
<1>1. Init => (Tame => SInv /\ FitInv /\ OwnInv)
  BY InitInv, FitInit, OwnInit
<1>2. (Tame => SInv /\ FitInv /\ OwnInv) /\ [Next]_<<vars, setup>>
      => (Tame => SInv /\ FitInv /\ OwnInv)'
  <2> SUFFICES ASSUME Tame => SInv /\ FitInv /\ OwnInv, [Next]_<<vars, setup>>, Tame'
               PROVE  SInv' /\ FitInv' /\ OwnInv'
    OBVIOUS
  <2>1. setup' = setup
    BY DEF Next, vars
  <2>2. Tame /\ SInv /\ FitInv /\ OwnInv
    BY <2>1, SetupKept DEF Tame
  <2>3. SInv'
    BY <2>2, NextInv
  <2>4. CASE Next
    <3>1. LoopStep \/ HandlerStep \/ \E c \in Clients : CoroutineStep(c)
      BY <2>4 DEF Next
    <3>2. FitInv'
      BY <2>1, <2>2, <3>1, LoopStepFit, HandlerFit, CoroutineStepFit
    <3>3. OwnInv'
      BY <2>1, <2>2, <3>1, LoopStepOwn, HandlerOwn, CoroutineStepOwn
    <3> QED BY <2>3, <3>2, <3>3
  <2>5. CASE UNCHANGED <<vars, setup>>
    <3>1. FitInv'
      BY <2>1, <2>2, <2>5, FitSame DEF vars
    <3>2. OwnInv'
      BY <2>1, <2>2, <2>5, OwnSame DEF vars
    <3> QED BY <2>3, <3>1, <3>2
  <2> QED BY <2>4, <2>5
<1> QED BY <1>1, <1>2, PTL DEF Spec

LEMMA OwnersRight ==
  ASSUME SInv, OwnInv
  PROVE  /\ EntryHasOwner
         /\ (OnConnect => Coalesced = {}) => OnlyOwnerFailsWaiters
<1>0. Typed
  BY DEF SInv
<1>1. EntryHasOwner
  <2> SUFFICES ASSUME NEW k \in Coalesced, pending[k].by # None
               PROVE  slot[pending[k].by].key = k
    BY DEF EntryHasOwner
  <2>1. pending[k].by \in Slots
    BY <1>0 DEF Typed
  <2> QED BY <2>1 DEF OwnInv, OwnAt
<1>2. ASSUME OnConnect => Coalesced = {}
      PROVE  OnlyOwnerFailsWaiters
  <2> SUFFICES ASSUME NEW k \in Coalesced, Running("release"), slot[Top.on].key = k
               PROVE  pending[k].by = Top.on
    BY DEF OnlyOwnerFailsWaiters
  <2>1. ~OnConnect /\ k # None /\ Top = Down[Height]
    BY <1>0, <1>2, Tops DEF OwnInv
  <2> QED BY <1>0, <2>1, ReleasedOwns
<1> QED BY <1>1, <1>2

\* A coalesced response reaches the clients that asked for it and no others
\* (SendPayload, CompleteSingleSlotRequest, ReleaseEndpoint with FailCoalesceWaiters):
\* what a client is resumed with answers its own request, an entry's slot carries the
\* entry's key, and, unless requests with a key wait for onConnect, only that slot
\* fails the entry's waiters.  (A request registers its key after onConnect, so two
\* slots may carry one key before either does.)
THEOREM CoalescingHolds ==
  Spec => [](Tame => /\ RightAnswer /\ EntryHasOwner
                     /\ (OnConnect => Coalesced = {}) => CoalescingSound)
<1>1. SInv /\ FitInv /\ OwnInv
      => /\ RightAnswer /\ EntryHasOwner
         /\ (OnConnect => Coalesced = {}) => CoalescingSound
  BY AnswersRight, OwnersRight DEF CoalescingSound
<1>2. (Tame => SInv /\ FitInv /\ OwnInv)
      => (Tame => /\ RightAnswer /\ EntryHasOwner
                  /\ (OnConnect => Coalesced = {}) => CoalescingSound)
  BY <1>1
<1> QED BY <1>2, OwnHolds, PTL
================================================================================
