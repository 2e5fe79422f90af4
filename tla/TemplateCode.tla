---------------------------- MODULE TemplateCode ----------------------------
(***************************************************************************)
(* The template transpiler (engine/template_transpiler.cpp): the dynamic   *)
(* tags of a flattened template become a flat list of states whose jumps   *)
(* are patched as the closing tags arrive (ProcessTagIR), and the states   *)
(* become a generator that is stepped once per chunk sent                  *)
(* (GenerateCxxFromIR).  An expression is a name of the context; a context *)
(* maps names to arrays (sequences) or to other values.                    *)
(***************************************************************************)
EXTENDS Integers, Sequences, FiniteSets, SequencesExt

CONSTANTS Tags,         \* records [tag, expr, name]
          TagContexts,  \* contexts the finished template is rendered with
          KeepsScopes,  \* TRUE: no loop reuses a name that is already bound
          MaxTags       \* bound: tags of a template

VARIABLES ir,       \* the states, numbered from 1
          patches,  \* offsetPatchStack
          source,   \* the tags processed so far
          compiled  \* "open", "failed", "crashed"

codeVars == <<ir, patches, source, compiled>>

-----------------------------------------------------------------------------
\* ProcessTagIR.

Op(type, patch, jump, expr, name) ==
    [type |-> type, patch |-> patch, jump |-> jump, expr |-> expr, name |-> name]

Literal == Op("LITERAL", FALSE, 0, "", "")

Conditional == {"IF", "ELIF"}

RetargetFault(code, frame, state) ==
    [i \in DOMAIN code |->
        IF i \in Range(frame) /\ code[i].type \in Conditional
        THEN [code[i] EXCEPT !.patch = FALSE, !.jump = state - 1] ELSE code[i]]

\* Every IF and ELIF of the frame jumps to the state, and leaves the frame
Retarget(code, frame, state) ==
    [i \in DOMAIN code |->
        IF i \in Range(frame) /\ code[i].type \in Conditional
        THEN [code[i] EXCEPT !.patch = FALSE, !.jump = state] ELSE code[i]]
Surviving(code, frame) == SelectSeq(frame, LAMBDA i : code[i].type \notin Conditional)

\* The text that follows a tag is one LITERAL state
Then(code, text) == IF text THEN Append(code, Literal) ELSE code

Here == Len(ir) + 1

OpenIf(t, text) ==
    /\ t.tag = "if"
    /\ patches' = Append(patches, <<Here>>)
    /\ ir' = Then(Append(ir, Op("IF", TRUE, 0, t.expr, "")), text)
    /\ compiled' = "open"

\* Nothing is open, or the frame has nothing left to patch
Orphaned(t) ==
    IF patches = <<>> THEN t.tag \in {"elif", "else", "endif", "endfor"}
    ELSE t.tag \in {"elif", "else"} /\ Last(patches) = <<>>

BranchOp(t) == IF t.tag = "elif" THEN Op("ELIF", TRUE, 0, t.expr, "") ELSE Op("ELSE", FALSE, 0, "", "")

\* The branch before ends in a JUMP, which waits in the frame for endif
Branch(t, text) ==
    /\ t.tag \in {"elif", "else"} /\ ~Orphaned(t)
    /\ LET code  == Append(ir, Op("JUMP", TRUE, 0, "", ""))
           frame == Last(patches)
           waits == Append(Surviving(code, frame), Here)
       IN /\ ir' = Then(Append(Retarget(code, frame, Here + 1), BranchOp(t)), text)
          /\ patches' = [patches EXCEPT ![Len(patches)] = IF t.tag = "elif" THEN Append(waits, Here + 1) ELSE waits]
    /\ compiled' = "open"

Unopened(t) == Orphaned(t) /\ compiled' = "failed" /\ UNCHANGED <<ir, patches>>

\* Whatever opened the frame is marked patched, a FOR too
CloseIf(t, text) ==
    /\ t.tag = "endif" /\ ~Orphaned(t)
    /\ ir' = Then(Append([i \in DOMAIN ir |->
                            IF i \notin Range(Last(patches)) THEN ir[i]
                            ELSE [ir[i] EXCEPT !.patch = FALSE, !.jump = IF ir[i].type = "FOR" THEN @ ELSE Here]],
                         Op("ENDIF", FALSE, 0, "", "")), text)
    /\ patches' = Front(patches) /\ compiled' = "open"

ShowVar(t, text) ==
    /\ t.tag = "var"
    /\ ir' = Then(Append(ir, Op("VAR", FALSE, 0, t.expr, "")), text)
    /\ UNCHANGED patches /\ compiled' = "open"

OpenFor(t, text) ==
    /\ t.tag = "for"
    /\ patches' = Append(patches, <<Here>>)
    /\ ir' = Then(Append(ir, Op("FOR", TRUE, 0, t.expr, t.name)), text)
    /\ compiled' = "open"

\* std::get on the payload of anything but a FOR throws
CloseFor(t, text) ==
    /\ t.tag = "endfor" /\ ~Orphaned(t)
    /\ LET i == Head(Last(patches)) IN
       IF ir[i].type # "FOR" THEN compiled' = "crashed" /\ UNCHANGED <<ir, patches>>
       ELSE /\ ir' = Then(Append([ir EXCEPT ![i].patch = FALSE, ![i].jump = Here],
                                 Op("ENDFOR", FALSE, Here, ir[i].expr, ir[i].name)), text)
            /\ patches' = Front(patches) /\ compiled' = "open"

\* The names bound where the next tag stands
Bound == {ir[f[1]].name : f \in Range(patches)}

ProcessTagIR(t, text) ==
    /\ compiled = "open" /\ Len(source) < MaxTags
    /\ KeepsScopes /\ t.tag = "for" => t.name \notin Bound /\ t.name # t.expr
    /\ source' = Append(source, [tag |-> t, text |-> text])
    /\ \/ OpenIf(t, text)   \/ Branch(t, text) \/ CloseIf(t, text)  \/ ShowVar(t, text)
       \/ OpenFor(t, text)  \/ CloseFor(t, text) \/ Unopened(t)

\* The checks at the end of GenerateIRFromTemplate
Accepted == compiled = "open" /\ patches = <<>> /\ \A i \in DOMAIN ir : ~ir[i].patch

-----------------------------------------------------------------------------
\* The generated GetState, stepped until its monostate.  A context holds the
\* loop variables and, under the number of its ENDFOR, where a loop stands.

IsArray(v) == v.kind = "array"
Value(cx, e) == IF e \in DOMAIN cx.names THEN cx.names[e] ELSE [kind |-> "none", items |-> <<>>]
SetName(cx, n, v) == [cx EXCEPT !.names = [x \in DOMAIN @ \cup {n} |-> IF x = n THEN v ELSE @[x]]]
EraseName(cx, n) == [cx EXCEPT !.names = [x \in DOMAIN @ \ {n} |-> @[x]]]
SetLoop(cx, j, v) == [cx EXCEPT !.loops = [x \in DOMAIN @ \cup {j} |-> IF x = j THEN v ELSE @[x]]]
EraseLoop(cx, j) == [cx EXCEPT !.loops = [x \in DOMAIN @ \ {j} |-> @[x]]]
LoopAt(cx, j) == IF j \in DOMAIN cx.loops THEN cx.loops[j] ELSE [body |-> 0, next |-> 0]

MaxSteps == 60   \* bound: states a rendering visits

RECURSIVE Generate(_, _, _)
Generate(s, cx, steps) ==
    IF steps = 0 THEN <<[lit |-> 0, val |-> "diverges"]>>
    ELSE IF s \notin DOMAIN ir THEN <<>>
    ELSE LET op  == ir[s]
             arr == Value(cx, op.expr)
             at  == LoopAt(cx, op.jump)
         IN CASE op.type = "LITERAL" -> <<[lit |-> s, val |-> ""]>> \o Generate(s + 1, cx, steps - 1)
              [] op.type = "VAR" -> <<[lit |-> 0, val |-> arr.kind]>> \o Generate(s + 1, cx, steps - 1)
              [] op.type \in Conditional ->
                    Generate(IF op.expr \in DOMAIN cx.names THEN s + 1 ELSE op.jump, cx, steps - 1)
              [] op.type = "JUMP" -> Generate(op.jump, cx, steps - 1)
              [] op.type \in {"ELSE", "ENDIF"} -> Generate(s + 1, cx, steps - 1)
              [] op.type = "FOR" ->
                    IF ~IsArray(arr) \/ arr.items = <<>> THEN Generate(op.jump + 1, cx, steps - 1)
                    ELSE Generate(s + 1, SetLoop(SetName(cx, op.name, arr.items[1]), op.jump,
                                                 [body |-> s + 1, next |-> 1]), steps - 1)
              [] op.type = "ENDFOR" ->
                    IF at.next < Len(arr.items)
                    THEN Generate(at.body, SetLoop(SetName(cx, op.name, arr.items[at.next + 1]), op.jump,
                                                   [at EXCEPT !.next = @ + 1]), steps - 1)
                    ELSE Generate(s + 1, EraseLoop(EraseName(cx, op.name), op.jump), steps - 1)

Rendered(names) == Generate(1, [names |-> names, loops |-> [x \in {} |-> 0]], MaxSteps)

CodeInit == ir = <<>> /\ patches = <<>> /\ source = <<>> /\ compiled = "open"
CodeNext == \E t \in Tags, text \in {TRUE, FALSE} : ProcessTagIR(t, text)
CodeSpec == CodeInit /\ [][CodeNext]_codeVars

-----------------------------------------------------------------------------
\* Properties.

TagAt(k) == source[k].tag.tag
Opens(k) == TagAt(k) \in {"if", "for"}
Closes(k) == TagAt(k) \in {"endif", "endfor"}
NestedAt(k) == Cardinality({j \in 1 .. k : Opens(j)}) - Cardinality({j \in 1 .. k - 1 : Closes(j)})

\* The tags that belong to the one at k: its branches and its end
Family(k) == {j \in k + 1 .. Len(source) :
                /\ TagAt(j) \in {"elif", "else", "endif", "endfor"} /\ NestedAt(j) = NestedAt(k)
                /\ \A i \in k + 1 .. j - 1 : ~(Closes(i) /\ NestedAt(i) = NestedAt(k))}
EndOf(k) == CHOOSE j \in Family(k) : Closes(j)
NextOf(k, j) == CHOOSE i \in Family(k) : i > j /\ \A h \in Family(k) : h > j => i <= h

WellNested ==
    /\ Cardinality({k \in DOMAIN source : Opens(k)}) = Cardinality({k \in DOMAIN source : Closes(k)})
    /\ \A k \in DOMAIN source :
          /\ TagAt(k) \in {"elif", "else", "endif", "endfor"} => \E o \in 1 .. k - 1 : Opens(o) /\ k \in Family(o)
          /\ Opens(k) =>
                /\ Cardinality({j \in Family(k) : Closes(j)}) = 1
                /\ IF TagAt(k) = "for" THEN Family(k) = {EndOf(k)} /\ TagAt(EndOf(k)) = "endfor"
                   ELSE /\ TagAt(EndOf(k)) = "endif"
                        /\ \A j \in Family(k) : TagAt(j) = "else" => NextOf(k, j) = EndOf(k)

\* Where in the states the text after a tag is
TextOf(k) ==
    LET Size(j) == (IF TagAt(j) \in {"elif", "else"} THEN 2 ELSE 1) + (IF source[j].text THEN 1 ELSE 0)
    IN FoldFunctionOnSet(LAMBDA a, b : a + b, 0, [j \in DOMAIN source |-> Size(j)], 1 .. k)

Text(k) == IF source[k].text THEN <<[lit |-> TextOf(k), val |-> ""]>> ELSE <<>>

\* What the tags lo .. hi - 1 mean: a block takes the first branch that
\* holds, a loop renders its body once per element and binds its name there
\* only.
RECURSIVE Meaning(_, _, _), Arm(_, _, _), Loop(_, _, _, _)
Meaning(lo, hi, names) ==
    IF lo >= hi THEN <<>>
    ELSE LET e == source[lo].tag.expr
             v == Value([names |-> names], e)
             rest == Text(EndOf(lo)) \o Meaning(EndOf(lo) + 1, hi, names)
         IN CASE TagAt(lo) = "var" -> <<[lit |-> 0, val |-> v.kind]>> \o Text(lo) \o Meaning(lo + 1, hi, names)
              [] TagAt(lo) = "if"  -> Arm(lo, lo, names) \o rest
              [] TagAt(lo) = "for" -> Loop(lo, IF IsArray(v) THEN v.items ELSE <<>>, 1, names) \o rest

Arm(k, j, names) ==
    IF j = EndOf(k) THEN <<>>
    ELSE IF TagAt(j) = "else" \/ source[j].tag.expr \in DOMAIN names
         THEN Text(j) \o Meaning(j + 1, NextOf(k, j), names)
         ELSE Arm(k, NextOf(k, j), names)

Loop(k, items, i, names) ==
    IF i > Len(items) THEN <<>>
    ELSE LET in == SetName([names |-> names], source[k].tag.name, items[i]).names
         IN Text(k) \o Meaning(k + 1, EndOf(k), in) \o Loop(k, items, i + 1, names)

\* Every well-nested template is accepted, and the flat state machine made of
\* it sends, for any context, what its nested blocks mean: each text and
\* variable of the branches taken, in order, once per turn of the loops
\* around it, and then ends.
CodeExact ==
    WellNested =>
        Accepted /\ \A names \in TagContexts : Rendered(names) = Meaning(1, Len(source) + 1, names)
=============================================================================
