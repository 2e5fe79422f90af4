------------------------------- MODULE Router -------------------------------
(***************************************************************************)
(* Routing (http/routing): one trie per method, filled at startup by       *)
(* RegisterRoute inside nested groups, and matched per request with        *)
(* backtracking.  Every registered route also gets a metrics index whose   *)
(* identity is its full path.                                              *)
(*                                                                         *)
(* A path is a sequence of "/" and names.  A pattern name is static, "*"   *)
(* or a parameter such as "<int>"; a request name is read by the typed     *)
(* parameters that parse it (ReadAs).                                      *)
(***************************************************************************)
EXTENDS Integers, Sequences, FiniteSets, SequencesExt

CONSTANTS Methods,
          RoutePaths,    \* paths given to RegisterRoute
          GroupPrefixes, \* prefixes given to WFX_GROUP_START
          Requests,      \* paths of requests, the query cut off
          ReadAs,        \* per request name, the parameter types that parse it
          MaxCallsMade   \* bound: registration calls

VARIABLES trie, cursor, stack, prefix, lens, identities, routes,
          callsMade      \* of the bound

routerVars == <<trie, cursor, stack, prefix, lens, identities, routes, callsMade>>

Params   == {"<uint>", "<int>", "<uuid>", "<string>"}
Unrouted == 0
NewNode  == [kids |-> <<>>, handler |-> Unrouted, idx |-> Unrouted]

-----------------------------------------------------------------------------
\* Paths.

StripRoute(p) == IF p # <<>> /\ Head(p) = "/" THEN Tail(p) ELSE p

SlashAt(p) == {i \in DOMAIN p : p[i] = "/"}
FirstSlash(p) == CHOOSE i \in SlashAt(p) : \A j \in SlashAt(p) : i <= j

\* find('/') and the two substr: a segment is one name, or "" between slashes
Segment(p) == IF SlashAt(p) # {} /\ FirstSlash(p) = 1 THEN "" ELSE Head(p)
Rest(p) == IF SlashAt(p) = {} THEN <<>> ELSE SubSeq(p, FirstSlash(p) + 1, Len(p))

\* JoinPath: one slash between the two
JoinPath(acc, seg) ==
    LET a == IF acc # <<>> /\ Last(acc) = "/" THEN Front(acc) ELSE acc IN
    IF seg = <<>> THEN a ELSE IF Head(seg) # "/" THEN Append(a, "/") \o seg ELSE a \o seg

\* std::string::resize, which pads
Resized(p, n) == [i \in 1 .. n |-> IF i <= Len(p) THEN p[i] ELSE "nul"]

-----------------------------------------------------------------------------
\* Insertion.  A trie is the sequence of its nodes, the root first.

ChildNamed(nodes, n, seg) == {k \in DOMAIN nodes[n].kids : nodes[n].kids[k].seg = seg}

InsertSegmentFault(nodes, n, seg) ==
    LET have == {k \in DOMAIN nodes[n].kids : nodes[n].kids[k].seg = seg \/ {seg, nodes[n].kids[k].seg} \subseteq Params} IN
    IF have # {}
    THEN [nodes |-> nodes, at |-> nodes[n].kids[CHOOSE k \in have : TRUE].child]
    ELSE [nodes |-> Append([nodes EXCEPT ![n].kids = Append(@, [seg |-> seg, child |-> Len(nodes) + 1])], NewNode),
          at |-> Len(nodes) + 1]

\* A static segment is shared with an earlier one; a parameter never is
InsertSegment(nodes, n, seg) ==
    LET have == IF seg \in Params THEN {} ELSE ChildNamed(nodes, n, seg) IN
    IF have # {}
    THEN [nodes |-> nodes, at |-> nodes[n].kids[CHOOSE k \in have : TRUE].child]
    ELSE [nodes |-> Append([nodes EXCEPT ![n].kids = Append(@, [seg |-> seg, child |-> Len(nodes) + 1])], NewNode),
          at |-> Len(nodes) + 1]

RECURSIVE InsertFrom(_, _, _)
InsertFrom(nodes, n, p) ==
    IF p = <<>> THEN [nodes |-> nodes, at |-> n]
    ELSE LET i == InsertSegment(nodes, n, Segment(p)) IN InsertFrom(i.nodes, i.at, Rest(p))

InsertRoute(nodes, n, p) == InsertFrom(nodes, n, StripRoute(p))

-----------------------------------------------------------------------------
\* Matching: children in order of insertion, a dead end below one moves on.

Miss == [at |-> Unrouted, caps |-> <<>>]

RECURSIVE MatchNode(_, _, _, _), MatchKids(_, _, _, _, _)

MatchNode(nodes, n, p, caps) ==
    IF p = <<>> THEN IF nodes[n].handler = Unrouted THEN Miss ELSE [at |-> n, caps |-> caps]
    ELSE MatchKids(nodes, n, 1, p, caps)

MatchesHere(seg, name) == seg = name \/ (seg \in Params /\ seg \in ReadAs[name])

\* What "*" captures: a trailing slash is left out
Swallowed(p) == IF Rest(p) = <<>> THEN <<Segment(p)>> ELSE p

MatchKidsFault(nodes, n, k, p, caps) ==
    IF k > Len(nodes[n].kids) THEN Miss
    ELSE LET kid  == nodes[n].kids[k]
             name == Segment(p)
         IN IF kid.seg = "*" THEN MatchNode(nodes, kid.child, <<>>, Append(caps, Swallowed(p)))
            ELSE IF MatchesHere(kid.seg, name)
                 THEN MatchNode(nodes, kid.child, Rest(p),
                                IF kid.seg \in Params THEN Append(caps, <<name>>) ELSE caps)
                 ELSE MatchKids(nodes, n, k + 1, p, caps)

\* "*" captures this segment and all that follows, a parameter the segment
MatchKids(nodes, n, k, p, caps) ==
    IF k > Len(nodes[n].kids) THEN Miss
    ELSE LET kid  == nodes[n].kids[k]
             name == Segment(p)
             hit  == IF kid.seg = "*" THEN MatchNode(nodes, kid.child, <<>>, Append(caps, Swallowed(p)))
                     ELSE IF MatchesHere(kid.seg, name)
                          THEN MatchNode(nodes, kid.child, Rest(p),
                                         IF kid.seg \in Params THEN Append(caps, <<name>>) ELSE caps)
                          ELSE Miss
         IN IF hit.at # Unrouted THEN hit ELSE MatchKids(nodes, n, k + 1, p, caps)

MatchRoute(m, p) == MatchNode(trie[m], 1, StripRoute(p), <<>>)

\* MethodsAt: for OPTIONS and preflights
MethodsAt(p) == {m \in Methods : MatchRoute(m, p).at # Unrouted}

-----------------------------------------------------------------------------
\* Registration, a sequence of calls made by user code at startup.

ACall == callsMade < MaxCallsMade /\ callsMade' = callsMade + 1

\* RegisterRoute: the handler of a node already routed is replaced, and the
\* node keeps its index
RegisterRoute(m, p) ==
    LET i == InsertRoute(trie[m], cursor[m], p)
        isNew == i.nodes[i.at].idx = Unrouted
        h == Len(routes) + 1
    IN /\ ACall
       /\ trie' = [trie EXCEPT ![m] = [i.nodes EXCEPT ![i.at].handler = h,
                                                      ![i.at].idx = IF isNew THEN Len(identities) + 1 ELSE @]]
       /\ identities' = IF isNew THEN Append(identities, [path |-> JoinPath(prefix, p), method |-> m]) ELSE identities
       /\ routes' = Append(routes, [method |-> m, pieces |-> Append(stack.meant, p), node |-> i.at])
       /\ UNCHANGED <<cursor, stack, prefix, lens>>

PushRouteGroup(g) ==
    LET i == [m \in Methods |-> InsertRoute(trie[m], cursor[m], g)] IN
    /\ ACall
    /\ trie' = [m \in Methods |-> i[m].nodes]
    /\ cursor' = [m \in Methods |-> i[m].at]
    /\ stack' = [cursors |-> Append(stack.cursors, cursor), meant |-> Append(stack.meant, g)]
    /\ lens' = Append(lens, Len(prefix))
    /\ prefix' = JoinPath(prefix, g)
    /\ UNCHANGED <<identities, routes>>

PopRouteGroup ==
    /\ lens # <<>> /\ ACall
    /\ cursor' = Last(stack.cursors)
    /\ stack' = [cursors |-> Front(stack.cursors), meant |-> Front(stack.meant)]
    /\ prefix' = Resized(prefix, Last(lens))
    /\ lens' = Front(lens)
    /\ UNCHANGED <<trie, identities, routes>>

RouterInit ==
    /\ trie = [m \in Methods |-> <<NewNode>>] /\ cursor = [m \in Methods |-> 1]
    /\ stack = [cursors |-> <<>>, meant |-> <<>>]
    /\ prefix = <<>> /\ lens = <<>> /\ identities = <<>> /\ routes = <<>>
    /\ callsMade = 0

RouterNext ==
    \/ \E m \in Methods, p \in RoutePaths : RegisterRoute(m, p)
    \/ \E g \in GroupPrefixes : PushRouteGroup(g)
    \/ PopRouteGroup

RouterSpec == RouterInit /\ [][RouterNext]_routerVars

-----------------------------------------------------------------------------
\* Properties.

\* The names of a path: one leading slash and one trailing slash do not count
RECURSIVE NamesOf(_)
NamesOf(p) == IF p = <<>> THEN <<>> ELSE <<Segment(p)>> \o NamesOf(Rest(p))
PathNames(p) == NamesOf(StripRoute(p))

\* A route as its author reads it: the groups' names, then its own
PatternOf(r) == FlattenSeq([k \in DOMAIN r.pieces |-> PathNames(r.pieces[k])])

Fits(pattern, names) ==
    LET wild == pattern # <<>> /\ Last(pattern) = "*"
        fixed == IF wild THEN Len(pattern) - 1 ELSE Len(pattern)
    IN /\ IF wild THEN Len(names) > fixed ELSE Len(names) = fixed
       /\ \A k \in 1 .. fixed : MatchesHere(pattern[k], names[k])

Captures(pattern, names) ==
    LET at == SelectSeq([k \in DOMAIN pattern |-> k], LAMBDA k : pattern[k] \in Params) IN
    [k \in DOMAIN at |-> <<names[at[k]]>>]

\* A request is routed exactly when some registered route fits it, whatever
\* was registered beside it, in whatever order and in whatever groups; it goes
\* to the last handler registered at a node whose pattern fits, with the
\* segments that the parameters of that pattern name; and every route reports
\* its metrics under its own method and full path, distinct nodes under
\* distinct indices.
RouterExact ==
    /\ \A p \in Requests :
       \E names \in {PathNames(p)}, at \in {MethodsAt(p)} : \A m \in Methods :
          LET fit == {r \in DOMAIN routes : routes[r].method = m /\ Fits(PatternOf(routes[r]), names)}
              hit == MatchRoute(m, p)
              h == trie[m][hit.at].handler
          IN /\ m \in at <=> fit # {}
             /\ hit.at # Unrouted =>
                   /\ h \in fit /\ \A r \in fit : routes[r].node = hit.at => r <= h
                   /\ LET pattern == PatternOf(routes[h])
                          want == Captures(pattern, names)
                      IN IF pattern # <<>> /\ Last(pattern) = "*"
                         THEN /\ Front(hit.caps) = want
                              /\ NamesOf(Last(hit.caps)) = SubSeq(names, Len(pattern), Len(names))
                         ELSE hit.caps = want
    /\ \A r \in DOMAIN routes :
          LET node == trie[routes[r].method][routes[r].node]
              name == identities[node.idx]
          IN name.method = routes[r].method /\ PathNames(name.path) = PatternOf(routes[r])
=============================================================================
