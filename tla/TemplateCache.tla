---------------------------- MODULE TemplateCache ----------------------------
(***************************************************************************)
(* The template build of the master's start (PreCompileTemplates,          *)
(* HandleUserCxxCompilation, LoadDynamicTemplatesFromLib): what is cached  *)
(* on disk by modification time, what is recompiled, when the library of   *)
(* the dynamic templates is rebuilt, and what is served with what.  A      *)
(* version of a file stands for its text and its modification time.        *)
(***************************************************************************)
EXTENDS Integers, FiniteSets

CONSTANTS Pages,          \* template files
          DynamicAt,      \* per page, the versions that have dynamic tags
          MaxVersion      \* bound: versions of a page

VARIABLES src,      \* per page, the version on disk
          flat,     \* per page, the version of intermediate/static
          cxx,      \* per page, the version of intermediate/dynamic
          lib,      \* user_templates.so: per page, the version compiled into it
          cache,    \* template.wfxmeta: per page [mtime, type]
          master,   \* the process
          torn      \* history: pages compiled by a start that never built its library,
                    \* and whose generator nothing has replaced since

cacheVars == <<src, flat, cxx, lib, cache, master, torn>>

None == 0
TypeAt(p, v) == IF v \in DynamicAt[p] THEN "DYNAMIC" ELSE "STATIC"
Missing == [p \in {} |-> None]
With(map, p, v) == [x \in DOMAIN map \cup {p} |-> IF x = p THEN v ELSE map[x]]

Down == [phase |-> "down", todo |-> {}, meta |-> Missing, resave |-> FALSE, staged |-> {}, errors |-> FALSE,
         libExists |-> FALSE, templates |-> Missing, prebuilt |-> FALSE]
LibExists == lib # Missing

-----------------------------------------------------------------------------
\* PreCompileTemplates

Start ==
    /\ master.phase = "down"
    /\ master' = [Down EXCEPT !.phase = "compiling", !.todo = Pages, !.meta = cache,
                              !.resave = cache = Missing, !.libExists = LibExists]
    /\ UNCHANGED <<src, flat, cxx, lib, cache, torn>>

CacheValidFault(p) == p \in DOMAIN master.meta /\ src[p] = master.meta[p].mtime

\* Unchanged, and for a dynamic template the library was there at the start
CacheValid(p) ==
    /\ p \in DOMAIN master.meta /\ src[p] = master.meta[p].mtime
    /\ master.meta[p].type # "DYNAMIC" \/ master.libExists

Skip(p) ==
    /\ master.phase = "compiling" /\ p \in master.todo /\ CacheValid(p)
    /\ master' = [master EXCEPT !.todo = @ \ {p},
                                !.templates = With(@, p, [type |-> master.meta[p].type, gen |-> None])]
    /\ UNCHANGED <<src, flat, cxx, lib, cache, torn>>

\* A template that does not compile leaves what was written of it
Compile(p, ok) ==
    LET type == TypeAt(p, src[p]) IN
    /\ master.phase = "compiling" /\ p \in master.todo /\ ~CacheValid(p)
    /\ flat' = [flat EXCEPT ![p] = src[p]]
    /\ cxx' = IF ok /\ type = "DYNAMIC" THEN With(cxx, p, src[p]) ELSE cxx
    /\ master' = IF ~ok THEN [master EXCEPT !.todo = @ \ {p}, !.resave = TRUE, !.errors = TRUE]
                 ELSE [master EXCEPT !.todo = @ \ {p}, !.resave = TRUE,
                                     !.staged = IF type = "DYNAMIC" THEN @ \cup {p} ELSE @,
                                     !.meta = With(@, p, [mtime |-> src[p], type |-> type]),
                                     !.templates = With(@, p, [type |-> type, gen |-> None])]
    /\ torn' = IF ok /\ type = "STATIC" THEN torn \ {p} ELSE torn
    /\ UNCHANGED <<src, lib, cache>>

\* The cache is saved before the library is built, and not after an error, when
\* the library is left as it is
SaveCache ==
    /\ master.phase = "compiling" /\ master.todo = {}
    /\ cache' = IF master.resave /\ ~master.errors THEN master.meta ELSE cache
    /\ master' = [master EXCEPT !.phase = "building"]
    /\ torn' = IF master.errors THEN torn \cup master.staged ELSE torn
    /\ UNCHANGED <<src, flat, cxx, lib>>

\* The library is a target of the build only when a dynamic template was
\* compiled, and none failed
BuildsLibrary == master.staged # {} /\ ~master.errors
Build ==
    /\ master.phase = "building"
    /\ lib' = IF BuildsLibrary THEN cxx ELSE lib
    /\ torn' = IF BuildsLibrary THEN {} ELSE torn
    /\ master' = [master EXCEPT !.phase = "loading"]
    /\ UNCHANGED <<src, flat, cxx, cache>>

\* --use-prebuilt: the cache is the map, of a tree shipped once it was built
LoadTemplatesFromCache ==
    /\ master.phase = "down" /\ cache # Missing
    /\ \A p \in DOMAIN cache : flat[p] = cache[p].mtime
    /\ master' = [Down EXCEPT !.phase = "loading", !.prebuilt = TRUE,
                              !.templates = [p \in DOMAIN cache |-> [type |-> cache[p].type, gen |-> None]]]
    /\ UNCHANGED <<src, flat, cxx, lib, cache, torn>>

\* A dynamic template that the library does not have is fatal
LoadDynamicTemplatesFromLib ==
    LET dynamic == {p \in DOMAIN master.templates : master.templates[p].type = "DYNAMIC"} IN
    /\ master.phase = "loading"
    /\ master' = IF ~LibExists THEN [master EXCEPT !.phase = "serving"]
                 ELSE IF ~(dynamic \subseteq DOMAIN lib) THEN Down
                 ELSE [master EXCEPT !.phase = "serving",
                                     !.templates = [p \in DOMAIN @ |-> IF p \in dynamic THEN [@[p] EXCEPT !.gen = lib[p]] ELSE @[p]]]
    /\ UNCHANGED <<src, flat, cxx, lib, cache, torn>>

-----------------------------------------------------------------------------
\* The world around.

\* The master dies, in any phase; a failed build is fatal too
Crash ==
    /\ master.phase # "down"
    /\ master' = Down
    /\ torn' = IF master.phase = "building" /\ BuildsLibrary THEN torn \cup master.staged ELSE torn
    /\ UNCHANGED <<src, flat, cxx, lib, cache>>

Edit(p) ==
    /\ src[p] < MaxVersion
    /\ src' = [src EXCEPT ![p] = @ + 1]
    /\ UNCHANGED <<flat, cxx, lib, cache, master, torn>>

BuildDirectoryRemoved == /\ master.phase = "down" /\ LibExists
                         /\ lib' = Missing /\ UNCHANGED <<src, flat, cxx, cache, master, torn>>

CacheRemoved == /\ master.phase = "down" /\ cache # Missing
                /\ cache' = Missing /\ UNCHANGED <<src, flat, cxx, lib, master, torn>>

CacheInit ==
    /\ src = [p \in Pages |-> 1] /\ flat = [p \in Pages |-> None]
    /\ cxx = Missing /\ lib = Missing /\ cache = Missing /\ master = Down /\ torn = {}

CacheNext ==
    \/ Start \/ SaveCache \/ Build \/ LoadTemplatesFromCache \/ LoadDynamicTemplatesFromLib
    \/ Crash \/ BuildDirectoryRemoved \/ CacheRemoved
    \/ \E p \in Pages : Skip(p) \/ Edit(p) \/ \E ok \in BOOLEAN : Compile(p, ok)

CacheSpec == CacheInit /\ [][CacheNext]_cacheVars

-----------------------------------------------------------------------------
\* Properties.

\* A page is served from one version of its source: the flattened file and the
\* generator in the library agree, and a page without dynamic tags is served as
\* a static file.  Only a prebuilt tree may come without its library.
OneVersion(p, t) ==
    t.type = "DYNAMIC" => t.gen = flat[p] \/ (master.prebuilt /\ t.gen = None)

\* Whatever was edited, lost, refused by the compiler or interrupted before this
\* start, a page is served in one version and as what it is, except a page that
\* was compiled by a start whose library was never built: the cache, saved
\* before the build, takes it for up to date.  The next build of the library
\* repairs those pages too.
ServesOneVersion ==
    master.phase = "serving" =>
        \A p \in DOMAIN master.templates :
            /\ master.templates[p].type = TypeAt(p, flat[p])
            /\ p \notin torn => OneVersion(p, master.templates[p])

\* The same without the exception.
ServesWhatItBuilt ==
    master.phase = "serving" => \A p \in DOMAIN master.templates : OneVersion(p, master.templates[p])
=============================================================================
