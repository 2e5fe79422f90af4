----------------------------- MODULE MCDocuments -----------------------------
(***************************************************************************)
(* The JSON library and the template compiler, side by side: 'topic' picks *)
(* the part a behaviour exercises, the others stay as they start.          *)
(***************************************************************************)
EXTENDS JsonStore, JsonText, TemplateCode, TemplateExpr, TemplateExpand,
        TemplateCache, Integers, TLC

VARIABLE topic

documentVars == <<topic, jsonVars, textVars, codeVars, exprVars, expandVars, cacheVars>>

DocumentInit ==
    /\ topic \in {"json", "text", "code", "expr", "expand", "cache"}
    /\ JsonInit /\ TextInit /\ CodeInit /\ ExprInit /\ ExpandInit /\ CacheInit
    /\ (topic # "text" => mode = "text")
    /\ (topic # "expand" => chunk = 6 /\ site.main = <<"x", "x", "x", "x">>)

DocumentNext ==
    /\ UNCHANGED topic
    /\ \/ /\ topic = "json" /\ JsonNext
          /\ UNCHANGED <<textVars, codeVars, exprVars, expandVars, cacheVars>>
       \/ /\ topic = "text" /\ TextNext
          /\ UNCHANGED <<jsonVars, codeVars, exprVars, expandVars, cacheVars>>
       \/ /\ topic = "code" /\ CodeNext
          /\ UNCHANGED <<jsonVars, textVars, exprVars, expandVars, cacheVars>>
       \/ /\ topic = "expr" /\ ExprNext
          /\ UNCHANGED <<jsonVars, textVars, codeVars, expandVars, cacheVars>>
       \/ /\ topic = "expand" /\ ExpandNext
          /\ UNCHANGED <<jsonVars, textVars, codeVars, exprVars, cacheVars>>
       \/ /\ topic = "cache" /\ CacheNext
          /\ UNCHANGED <<jsonVars, textVars, codeVars, exprVars, expandVars>>

DocumentSpec == DocumentInit /\ [][DocumentNext]_documentVars

-----------------------------------------------------------------------------
\* Values of the constants.

JsonTree(tag, kids) == [tag |-> tag, kids |-> kids]
Kid(key, node) == [key |-> key, node |-> node]
OneScalar == JsonTree("ARRAY", <<Kid("", JsonTree("SCALAR", <<>>))>>)
MCJsonHash  == [a |-> 0, b |-> 0, c |-> 1]
MCJsonTrees == {JsonTree("OBJECT", <<Kid("a", OneScalar)>>), OneScalar}

MCTextKeys == {<<97>>, <<10>>}
MCMagnitudes == -2 .. 2

Tg(tag, expr, name) == [tag |-> tag, expr |-> expr, name |-> name]
MCTags == {Tg("var", "x", ""), Tg("if", "a", ""), Tg("elif", "b", ""), Tg("else", "", ""),
           Tg("endif", "", ""), Tg("for", "a", "x"), Tg("for", "x", "y"), Tg("endfor", "", "")}
Scalar == [kind |-> "scalar", items |-> <<>>]
Items(s) == [kind |-> "array", items |-> s]
MCTagContexts ==
    {[a |-> Scalar], [b |-> Scalar], [a |-> Items(<<>>)],
     [a |-> Items(<<Items(<<Scalar, Scalar>>), Scalar>>), b |-> Scalar]}

MCNumberOf == [two |-> 2]
MCExprContexts == {[a |-> 2], [a |-> 0], [a |-> 1, b |-> 2]}

TagMeans(tag, arg) == [tag |-> tag, arg |-> arg]
MCTagOf == [extB |-> TagMeans("extends", "base"), extM |-> TagMeans("extends", "mid"),
            inc |-> TagMeans("include", "frag"), blkT |-> TagMeans("block", "t"),
            blkU |-> TagMeans("block", "u"), end |-> TagMeans("endblock", "none"),
            v |-> TagMeans("var", "none")]
\* A page without a base, a page that overrides blocks of one or two bases.
Bits    == {<<"x">>, <<"{">>, TagView("v"), TagView("inc")}
PlainPage   == {<<"x">> \o b1 \o b2 \o b3 : b1, b2, b3 \in Bits}
Content == {<<>>, <<"c">>, TagView("v"), <<"c">> \o TagView("v") \o <<"c">>}
BlockT(c) == TagView("blkT") \o c \o TagView("end")
BlockU(c) == TagView("blkU") \o c \o TagView("end")
Child == {TagView("extB") \o <<"z">> \o BlockT(c) \o d :
              c \in Content, d \in {<<>>, <<"z">>, BlockU(<<"u">>)}}
         \cup {TagView("extM") \o BlockT(c) : c \in Content}
Base == <<"h">> \o BlockT(<<"d">>) \o <<"m">> \o TagView("inc") \o BlockU(TagView("v")) \o <<"{">>
MCSites == {[main |-> page, frag |-> TagView("partial") \o <<"nl", "f", "{">>, base |-> Base,
             mid |-> TagView("extB") \o BlockU(<<"w">>)] : page \in PlainPage \cup Child}
\* Inheritance in which the compiler does not do what Render says: an include
\* outside the blocks of a child, one block in two levels of children, and a
\* lone "{" at a chunk's end outside the blocks of a child.
DeepMains == {TagView("extB") \o TagView("inc") \o BlockT(<<"c">>), TagView("extM") \o BlockT(<<"c">>),
              TagView("extB") \o <<"{", "z", "z">> \o BlockT(<<"c">>)}
MCDeepSites == {[main |-> page, frag |-> <<"f">>, base |-> <<"h">> \o BlockT(<<"d">>),
                 mid |-> TagView("extB") \o BlockT(<<"w">>)] : page \in DeepMains}

MCDynamicAt == [p |-> {1, 3}, q |-> {2, 3}]

-----------------------------------------------------------------------------
(* Properties of several parts. *)

\* What is written is what is read back: the parser accepts exactly the texts of
\* the grammar whose numbers fit their types and builds the value they name, and
\* reading what the writer wrote gives the value it was asked to write.
JsonTextExact == ParserExact /\ TextReadsBack

\* A rendered page is what its templates say: files spliced whatever the chunks
\* they are read in, control flow as written, operators parsed as C++ reads them
\* and, where no name has to be taken past a waiting operation, emitted with
\* their own operands (a name then stands for its presence), and static and
\* compiled parts of one version of the sources unless a build was cut short.
PagesExact == CodeExact /\ RpnExact /\ EmittedExact /\ ExpandExact /\ ServesOneVersion
===============================================================================
