--------------------------- MODULE TemplateExpand ---------------------------
(***************************************************************************)
(* The first pass of the template compiler (CompileTemplate and ProcessTag *)
(* of engine/template_engine.cpp): files are read in chunks, a tag may be  *)
(* cut by a chunk's end and is completed from the carry; include and       *)
(* extends push files, blocks of a child replace those of its base.        *)
(*                                                                         *)
(* A file is a sequence of characters; what a tag says between its marks   *)
(* is one character, read by TagOf.  White space is left out, and with it  *)
(* the trimming around tags.                                               *)
(***************************************************************************)
EXTENDS Integers, Sequences, SequencesExt

CONSTANTS Sites,       \* functions from file names to files; "main" is compiled
          TagOf,       \* the tags: characters to records [tag, arg]
          ChunkSizes   \* template_chunk_size, never shorter than a tag

VARIABLES site, chunk, \* fixed during a compilation
          files,       \* ctx.stack: the frames
          cx,          \* the rest of the CompilationContext
          written,     \* what was given to SafeWrite
          outcome      \* "running", "FAILURE", "STATIC", "DYNAMIC"

expandVars == <<site, chunk, files, cx, written, outcome>>

NoName == "none"
TagView(c) == <<"{", "%", c, "%", "}">>

TemplateFrame(f) == [file |-> f, at |-> 0, buf |-> <<>>, off |-> 0, carry |-> <<>>, firstRead |-> TRUE, within |-> FALSE]
NewContext == [extends |-> NoName, inBlock |-> FALSE, skip |-> FALSE, dynamic |-> FALSE,
               name |-> NoName, text |-> <<>>, blocks |-> [b \in {} |-> <<>>]]

Reading == outcome = "running" /\ files # <<>>
CurrentFile == Last(files)
WithFrame(fr) == Append(Front(files), fr)
NextChunk(fr) == [fr EXCEPT !.off = 0, !.within = FALSE]

\* std::string_view::find of a two character mark
FindMark(s, a, b) == {k \in 1 .. Len(s) - 1 : s[k] = a /\ s[k + 1] = b}
FirstMark(s, a, b) == CHOOSE k \in FindMark(s, a, b) : \A j \in FindMark(s, a, b) : k <= j

-----------------------------------------------------------------------------
PutFault(c, out, text) ==
    IF c.inBlock /\ c.extends # NoName THEN [cx |-> [c EXCEPT !.text = @ \o text], out |-> out]
    ELSE IF c.skip THEN [cx |-> c, out |-> out]
    ELSE [cx |-> c, out |-> out \o text]

\* Where literal text goes: a child keeps the text of its blocks and drops
\* the rest.

Put(c, out, text) ==
    IF c.inBlock /\ c.extends # NoName THEN [cx |-> [c EXCEPT !.text = @ \o text], out |-> out]
    ELSE IF c.extends # NoName \/ c.skip THEN [cx |-> c, out |-> out]
    ELSE [cx |-> c, out |-> out \o text]

\* unordered_map::emplace
Emplace(map, k, v) == [x \in DOMAIN map \cup {k} |-> IF x \in DOMAIN map THEN map[x] ELSE v]

\* ProcessTag: the new context and output, the file pushed, and success
Done(c, out) == [cx |-> c, out |-> out, push |-> NoName, ok |-> TRUE]
TagFailed == [cx |-> cx, out |-> written, push |-> NoName, ok |-> FALSE]

ProcessBlock(c, out, name) ==
    IF c.inBlock THEN TagFailed
    ELSE IF name \in DOMAIN c.blocks THEN Done([c EXCEPT !.skip = TRUE], out \o c.blocks[name])
    ELSE IF c.extends = NoName THEN Done([c EXCEPT !.inBlock = TRUE], out)
    ELSE Done([c EXCEPT !.inBlock = TRUE, !.name = name, !.text = <<>>], out)

ProcessEndBlock(c, out) ==
    IF ~c.inBlock THEN TagFailed
    ELSE Done([c EXCEPT !.inBlock = FALSE, !.blocks = Emplace(@, c.name, c.text), !.name = NoName, !.text = <<>>], out)

ProcessTag(c, out, view) ==
    LET t == TagOf[view[3]]
        p == Put([c EXCEPT !.dynamic = TRUE], out, view)
    IN CASE c.skip -> Done([c EXCEPT !.skip = t.tag # "endblock"], out)
         [] ~c.skip /\ t.tag = "include"  -> IF t.arg \in DOMAIN site THEN [Done(c, out) EXCEPT !.push = t.arg] ELSE TagFailed
         [] ~c.skip /\ t.tag = "extends"  -> Done([c EXCEPT !.extends = t.arg], out)
         [] ~c.skip /\ t.tag = "block"    -> ProcessBlock(c, out, t.arg)
         [] ~c.skip /\ t.tag = "endblock" -> ProcessEndBlock(c, out)
         [] ~c.skip /\ t.tag = "var"      -> Done(p.cx, p.out)

\* __ProcessTag: an include leaves the frame, past the tag, for the new one
TagDone(fr, c, out, view) ==
    LET r == ProcessTag(c, out, view) IN
    /\ cx' = r.cx /\ written' = r.out
    /\ outcome' = IF r.ok THEN "running" ELSE "FAILURE"
    /\ files' = IF r.push = NoName THEN WithFrame(fr)
                ELSE Append(WithFrame([fr EXCEPT !.within = FALSE]), TemplateFrame(r.push))
    /\ UNCHANGED <<site, chunk>>

-----------------------------------------------------------------------------
\* The reader.

AtChunkEnd == Reading /\ ~CurrentFile.within /\ ~(CurrentFile.off > 0 /\ CurrentFile.buf # <<>>)
Unread == Len(site[CurrentFile.file]) - CurrentFile.at

\* A partial's mark and the line end after it are skipped
PartialSkip(buf) == IF Len(buf) >= 5 /\ SubSeq(buf, 1, 5) = TagView("partial") THEN 6 ELSE 0

ReadChunk ==
    /\ AtChunkEnd /\ Unread > 0
    /\ LET n   == IF Unread < chunk THEN Unread ELSE chunk
           buf == SubSeq(site[CurrentFile.file], CurrentFile.at + 1, CurrentFile.at + n)
       IN files' = WithFrame([CurrentFile EXCEPT !.at = @ + n, !.buf = buf, !.firstRead = FALSE, !.within = TRUE,
                                           !.off = IF CurrentFile.firstRead THEN @ + PartialSkip(buf) ELSE @])
    /\ UNCHANGED <<site, chunk, cx, written, outcome>>

\* The file is read: what it extends comes next
EndOfFile ==
    /\ AtChunkEnd /\ Unread = 0
    /\ written' = written \o CurrentFile.carry
    /\ IF cx.extends = NoName
       THEN files' = Front(files) /\ UNCHANGED <<cx, outcome>>
       ELSE /\ files' = IF cx.extends \in DOMAIN site THEN WithFrame(TemplateFrame(cx.extends)) ELSE Front(files)
            /\ outcome' = IF cx.extends \in DOMAIN site THEN outcome ELSE "FAILURE"
            /\ cx' = [cx EXCEPT !.extends = NoName]
    /\ UNCHANGED <<site, chunk>>

\* Back from an include
Resume ==
    /\ Reading /\ ~CurrentFile.within /\ CurrentFile.off > 0 /\ CurrentFile.buf # <<>>
    /\ files' = WithFrame([CurrentFile EXCEPT !.within = TRUE])
    /\ UNCHANGED <<site, chunk, cx, written, outcome>>

WithCarry == Reading /\ CurrentFile.within /\ CurrentFile.carry # <<>>

\* A "{" at the end of the last chunk was text after all
CarryWasText ==
    /\ WithCarry /\ CurrentFile.carry = <<"{">> /\ CurrentFile.buf[1] # "%"
    /\ written' = written \o CurrentFile.carry
    /\ files' = WithFrame([CurrentFile EXCEPT !.carry = <<>>])
    /\ UNCHANGED <<site, chunk, cx, outcome>>

\* How much of this chunk completes the carried tag
CarryNeeds == IF Last(CurrentFile.carry) = "%" /\ CurrentFile.buf[1] = "}" THEN 1 ELSE FirstMark(CurrentFile.buf, "%", "}") + 1

CarryCompletes ==
    /\ WithCarry /\ ~(CurrentFile.carry = <<"{">> /\ CurrentFile.buf[1] # "%")
    /\ TagDone([CurrentFile EXCEPT !.off = @ + CarryNeeds, !.carry = <<>>], cx, written,
               CurrentFile.carry \o SubSeq(CurrentFile.buf, 1, CarryNeeds))

InChunk == Reading /\ CurrentFile.within /\ CurrentFile.carry = <<>>
Body == SubSeq(CurrentFile.buf, CurrentFile.off + 1, Len(CurrentFile.buf))

ChunkDone ==
    /\ InChunk /\ CurrentFile.off >= Len(CurrentFile.buf)
    /\ files' = WithFrame(NextChunk(CurrentFile))
    /\ UNCHANGED <<site, chunk, cx, written, outcome>>

NoTagLeft ==
    /\ InChunk /\ Body # <<>> /\ FindMark(Body, "{", "%") = {}
    /\ LET maybe == Last(Body) = "{"
           p == Put(cx, written, IF maybe THEN Front(Body) ELSE Body)
       IN /\ cx' = p.cx /\ written' = p.out
          /\ files' = WithFrame([NextChunk(CurrentFile) EXCEPT !.carry = IF maybe THEN <<"{">> ELSE <<>>])
    /\ UNCHANGED <<site, chunk, outcome>>

TagFound ==
    /\ InChunk /\ Body # <<>> /\ FindMark(Body, "{", "%") # {}
    /\ LET start == FirstMark(Body, "{", "%")
           p     == Put(cx, written, SubSeq(Body, 1, start - 1))
           tag   == SubSeq(Body, start, Len(Body))
       IN IF FindMark(tag, "%", "}") = {}
          THEN /\ cx' = p.cx /\ written' = p.out
               /\ files' = WithFrame([NextChunk(CurrentFile) EXCEPT !.carry = tag])
               /\ UNCHANGED <<site, chunk, outcome>>
          ELSE LET end == FirstMark(tag, "%", "}") + 1
               IN TagDone([CurrentFile EXCEPT !.off = @ + start - 1 + end], p.cx, p.out, SubSeq(tag, 1, end))

Finish ==
    /\ outcome = "running" /\ files = <<>>
    /\ outcome' = IF cx.dynamic THEN "DYNAMIC" ELSE "STATIC"
    /\ UNCHANGED <<site, chunk, files, cx, written>>

ExpandInit ==
    /\ site \in Sites /\ chunk \in ChunkSizes
    /\ files = <<TemplateFrame("main")>> /\ cx = NewContext /\ written = <<>> /\ outcome = "running"

ExpandNext ==
    \/ ReadChunk \/ EndOfFile \/ Resume \/ CarryWasText \/ CarryCompletes
    \/ ChunkDone \/ NoTagLeft \/ TagFound \/ Finish

ExpandSpec == ExpandInit /\ [][ExpandNext]_expandVars

-----------------------------------------------------------------------------
\* Properties.

\* A file as its author reads it, tag by tag
RECURSIVE Itemize(_)
Itemize(s) ==
    IF s = <<>> THEN <<>>
    ELSE IF Len(s) >= 5 /\ s[1] = "{" /\ s[2] = "%" THEN <<SubSeq(s, 1, 5)>> \o Itemize(SubSeq(s, 6, Len(s)))
    ELSE <<<<s[1]>>>> \o Itemize(Tail(s))

ItemsOf(f) == Itemize(SubSeq(site[f], PartialSkip(site[f]) + 1, Len(site[f])))
IsTag(item, tag) == Len(item) = 5 /\ TagOf[item[3]].tag = tag
ArgOf(item) == TagOf[item[3]].arg
EndFrom(items, k) == CHOOSE j \in DOMAIN items : /\ j > k /\ IsTag(items[j], "endblock")
                                                 /\ \A i \in k + 1 .. j - 1 : ~IsTag(items[i], "endblock")
BlocksIn(items) ==
    LET opens == {k \in DOMAIN items : IsTag(items[k], "block")} IN
    [b \in {ArgOf(items[k]) : k \in opens} |->
        LET k == CHOOSE k \in opens : ArgOf(items[k]) = b IN FlattenSeq(SubSeq(items, k + 1, EndFrom(items, k) - 1))]
Under(low, high) == [b \in DOMAIN low \cup DOMAIN high |-> IF b \in DOMAIN high THEN high[b] ELSE low[b]]

RECURSIVE Render(_, _), RenderFrom(_, _, _)
Render(f, blocks) ==
    LET items == ItemsOf(f)
        bases == {ArgOf(items[k]) : k \in {k \in DOMAIN items : IsTag(items[k], "extends")}}
    IN IF bases # {} THEN Render(CHOOSE b \in bases : TRUE, Under(BlocksIn(items), blocks))
       ELSE RenderFrom(items, 1, blocks)
RenderFrom(items, k, blocks) ==
    IF k > Len(items) THEN <<>>
    ELSE IF IsTag(items[k], "include") THEN Render(ArgOf(items[k]), blocks) \o RenderFrom(items, k + 1, blocks)
    ELSE IF IsTag(items[k], "endblock") THEN RenderFrom(items, k + 1, blocks)
    ELSE IF ~IsTag(items[k], "block") THEN items[k] \o RenderFrom(items, k + 1, blocks)
    ELSE IF ArgOf(items[k]) \in DOMAIN blocks
         THEN blocks[ArgOf(items[k])] \o RenderFrom(items, EndFrom(items, k) + 1, blocks)
         ELSE RenderFrom(items, k + 1, blocks)

\* However the files fall into chunks, the flattened template is the base
\* with the child's blocks in place of its own and every include in its
\* place, each tag left for the second pass whole, and a template that has
\* one is never taken for a static page.
ExpandExact ==
    /\ outcome # "FAILURE"
    /\ outcome \in {"STATIC", "DYNAMIC"} =>
          /\ written = Render("main", [b \in {} |-> <<>>])
          /\ FindMark(written, "{", "%") # {} => outcome = "DYNAMIC"
=============================================================================
