---------------------------- MODULE AbstractDoc ----------------------------
(***************************************************************************)
(* What a JSON document promises the code that edits it: a growing         *)
(* sequence of nodes; an object is a list of distinct keys in insertion    *)
(* order, an array a list of elements, and both name their children by     *)
(* node.  Nothing here knows of hash tables, buffers or free lists.        *)
(***************************************************************************)
EXTENDS Integers, Sequences, SequencesExt

CONSTANTS DocKeys, DocTrees

VARIABLE doc

Kid(key, node) == [key |-> key, node |-> node]
Leaf(tag) == [tag |-> tag, kids |-> <<>>]
IndexOf(kids, key) == {i \in DOMAIN kids : kids[i].key = key}

\* Node i of d reads back as the tree t, all of it in fresh nodes but i.
RECURSIVE Denotes(_, _, _)
Denotes(d, i, t) ==
    /\ d[i].tag = t.tag
    /\ Len(d[i].kids) = Len(t.kids)
    /\ \A k \in DOMAIN t.kids :
          /\ d[i].kids[k].key = t.kids[k].key
          /\ Denotes(d, d[i].kids[k].node, t.kids[k].node)

\* The document after the pair (key, n) is put into the object at o: a key
\* it has keeps its place, a new one goes last.
Put(d, o, key, n) ==
    LET at == IndexOf(d[o].kids, key) IN
    [d EXCEPT ![o] = [tag |-> "OBJECT",
        kids |-> IF at = {} THEN Append(@.kids, Kid(key, n))
                 ELSE [i \in DOMAIN @.kids |-> IF i \in at THEN Kid(key, n) ELSE @.kids[i]]]]

Object(d, o) == d[o].tag \in {"OBJECT", "EMPTY"}
Array(d, a)  == d[a].tag \in {"ARRAY", "EMPTY"}
Frame(d, e, touched) == \A i \in DOMAIN d \ touched : e[i] = d[i]

DocInit == doc = <<Leaf("OBJECT")>>

\* Give node n a scalar; a container loses its children.
DAssign == \E n \in DOMAIN doc, tag \in {"EMPTY", "SCALAR"} : doc' = [doc EXCEPT ![n] = Leaf(tag)]

\* Name a key: the value it has, or a new one, which may be assigned at once.
DSet == \E o \in DOMAIN doc, key \in DocKeys, tag \in {"EMPTY", "SCALAR"} :
    /\ Object(doc, o)
    /\ LET at == IndexOf(doc[o].kids, key) IN
       IF at = {} THEN doc' = Append(Put(doc, o, key, Len(doc) + 1), Leaf(tag))
       ELSE doc' = [doc EXCEPT ![doc[o].kids[CHOOSE i \in at : TRUE].node] = Leaf(tag)]

\* Point a key at another node of the same document.
DAlias == \E o \in DOMAIN doc, key \in DocKeys, n \in DOMAIN doc :
    Object(doc, o) /\ doc' = Put(doc, o, key, n)

\* Copy the kids of a tree into an object: each reads back whole (the later
\* one, where two keys name the same node), and nothing else moves.
Grafted(o, t) ==
    LET at(p) == doc'[o].kids[CHOOSE i \in IndexOf(doc'[o].kids, t.kids[p].key) : TRUE].node IN
    /\ Object(doc, o) /\ Len(doc') >= Len(doc) /\ doc'[o].tag = "OBJECT" /\ Len(doc'[o].kids) >= Len(doc[o].kids)
    /\ \A p \in DOMAIN t.kids : IndexOf(doc'[o].kids, t.kids[p].key) # {}
    /\ \A p \in DOMAIN t.kids :
          (\A q \in DOMAIN t.kids : q > p => at(q) # at(p)) => Denotes(doc', at(p), t.kids[p].node)
    /\ Frame(doc, doc', {o} \cup {doc[o].kids[i].node : i \in
          {i \in DOMAIN doc[o].kids : \E p \in DOMAIN t.kids : t.kids[p].key = doc[o].kids[i].key}})
    /\ [i \in DOMAIN doc[o].kids |-> doc'[o].kids[i]] = doc[o].kids
    /\ {doc'[o].kids[i].key : i \in DOMAIN doc'[o].kids}
         = {doc[o].kids[i].key : i \in DOMAIN doc[o].kids} \cup {t.kids[p].key : p \in DOMAIN t.kids}
    /\ IsInjective([i \in DOMAIN doc'[o].kids |-> doc'[o].kids[i].key])

DGraft == \E o \in DOMAIN doc, t \in DocTrees, key \in DocKeys :
    Grafted(o, t) \/ Grafted(o, [tag |-> "OBJECT", kids |-> <<Kid(key, t)>>])

DPush == \E a \in DOMAIN doc, tag \in {"EMPTY", "SCALAR"} :
    /\ Array(doc, a)
    /\ doc' = Append([doc EXCEPT ![a] = [tag |-> "ARRAY", kids |-> Append(@.kids, Kid("", Len(doc) + 1))]],
                     Leaf(tag))

DErase == \E c \in DOMAIN doc : \E i \in DOMAIN doc[c].kids :
    doc' = [doc EXCEPT ![c].kids = RemoveAt(@, i)]

DDestroy == doc' = <<Leaf("OBJECT")>>

DocNext == DDestroy \/ DAssign \/ DSet \/ DAlias \/ DPush \/ DErase \/ DGraft

DocSpec == DocInit /\ [][DocNext]_doc
=============================================================================
