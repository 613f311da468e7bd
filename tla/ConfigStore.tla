----------------------------- MODULE ConfigStore ------------------------------
(***************************************************************************)
(* The config file of the API server and its readers: the store that       *)
(* edits it (api/src/lib/store/config.ts and the modules beside it), with  *)
(* a cache by mtime; the config that runs are started with                 *)
(* (api/src/lib/api-config.ts), with an mtime of its own; the summary of   *)
(* excluded files, kept for a time (store/exclusions.ts).                  *)
(*                                                                         *)
(* A request is synchronous from its reading of the config to the write.   *)
(* The file is written in place, by the server and by hand.                *)
(***************************************************************************)
EXTENDS Naturals, Sequences, SequencesExt

CONSTANTS
    Keys,       \* what makes two sources of one type the same: the path
    DestIds,
    Settings,   \* the values that the schedule, and the exclude patterns, may have
    FirstConfig,
    MaxEdits,   \* bound: how often the file is edited
    DiskFails,
    None

Lists   == {"paths", "sqlite", "sources"}
Config  == [paths : Seq(Keys), sqlite : Seq(Keys), sources : Seq(Keys),
            destinations : Seq(DestIds), schedule : Settings, exclude : Settings]

ConfigAssumption ==
    /\ FirstConfig \in Config
    /\ MaxEdits \in Nat /\ DiskFails \in BOOLEAN
    /\ None \notin Config \union Settings

VARIABLES
    file,       \* chest-backup.json: whether it parses, and its content
    cached,     \* cachedConfig, or None
    cachedFresh,\* its mtime is the file's
    server,     \* "down", "loading" or "up"
    active,     \* activeConfig, or None
    activeFresh,\* activeConfigMtime is the file's mtime
    exclusions, \* the patterns of the cached summary, or None
    edits,
    \* History, to state the properties:
    dirty,      \* the fields that the cache has and the file could not be given
    elsewhere   \* the file was changed by hand, or in part, since the summary was made

cache == <<cached, cachedFresh, dirty>>
vars  == <<file, cache, server, active, activeFresh, exclusions, edits, elsewhere>>

Init ==
    /\ file = [whole |-> TRUE, config |-> FirstConfig]
    /\ cached = None /\ cachedFresh = FALSE /\ dirty = {}
    /\ server = "down" /\ active = None /\ activeFresh = FALSE
    /\ exclusions = None /\ edits = 0 /\ elsewhere = FALSE
-----------------------------------------------------------------------------
\* Mutation: what is cached is good.
GetConfigOnce ==
    IF cached # None THEN {[config |-> cached, dirty |-> dirty]}
    ELSE IF file.whole THEN {[config |-> file.config, dirty |-> {}]} ELSE {}

\* getConfig: it throws when it has to read a file that does not parse.
GetConfig ==
    IF cached # None /\ cachedFresh THEN {[config |-> cached, dirty |-> dirty]}
    ELSE IF file.whole THEN {[config |-> file.config, dirty |-> {}]} ELSE {}

\* Mutation: an update does not see the other entries of its list.
IsDuplicateElsewhere(c, l, k, skip) == l # "sources" /\ skip = 0 /\ \E i \in DOMAIN c[l] : c[l][i] = k
\* isDuplicate.  The entry `skip` is the one that is updated; 0 is none.
IsDuplicate(c, l, k, skip) == l # "sources" /\ \E i \in DOMAIN c[l] : i # skip /\ c[l][i] = k

\* What a request may make of the config c: the fields it is about, and the
\* config after it.  The list of a source is that of its type (containerForType).
Edit(fields, config) == [fields |-> fields, config |-> config]

\* Sources are pairs of a list and a path, or of a list and a place in it.
CreateSource(c) ==
    {Edit({s[1]}, [c EXCEPT ![s[1]] = Append(@, s[2])]) :
       s \in {s \in Lists \X Keys : ~IsDuplicate(c, s[1], s[2], 0)}}

\* A source is found by its id, a hash of its type and path: the first of its kind.
Entries(c) ==
    UNION {{<<l, i>> : i \in {i \in DOMAIN c[l] : \A j \in 1..i - 1 : c[l][j] # c[l][i]}} : l \in Lists}
RemoveSourceEntry(c, l, i) == [c EXCEPT ![l] = RemoveAt(@, i)]

UpdateSource(c) ==
    UNION {{Edit({e[1], s[1]}, [RemoveSourceEntry(c, e[1], e[2]) EXCEPT ![s[1]] = Append(@, s[2])]) :
              s \in {s \in Lists \X Keys :
                       ~IsDuplicate(c, s[1], s[2], IF s[1] = e[1] THEN e[2] ELSE 0)}} :
             e \in Entries(c)}

DeleteSource(c) == {Edit({e[1]}, RemoveSourceEntry(c, e[1], e[2])) : e \in Entries(c)}

\* A destination may be created with the id of another.
CreateDestination(c) == {Edit({"destinations"}, [c EXCEPT !.destinations = Append(@, d)]) : d \in DestIds}
DeleteDestination(c) ==
    {Edit({"destinations"}, [c EXCEPT !.destinations = RemoveAt(@, SelectInSeq(@, LAMBDA e : e = d))]) :
       d \in {d \in DestIds : Contains(c.destinations, d)}}

\* PUT /api/schedule; those of the retention and the notifications are alike.
UpdateSchedule(c) == {Edit({"schedule"}, [c EXCEPT !.schedule = v]) : v \in Settings}
UpdateExclude(c)  == {Edit({"exclude"}, [c EXCEPT !.exclude = v]) : v \in Settings}

Edits(c) ==
    CreateSource(c) \union UpdateSource(c) \union DeleteSource(c)
      \union CreateDestination(c) \union DeleteDestination(c)
      \union UpdateSchedule(c) \union UpdateExclude(c)
-----------------------------------------------------------------------------
\* Mutation: the summary outlives a change of the patterns.
AfterEditKeeping(fields) == exclusions
\* updateExclude calls invalidateSourceExclusions when it has written.
AfterEdit(fields) == IF "exclude" \in fields THEN None ELSE exclusions

\* A request that edits: the cached config is changed in place, and written
\* (writeConfig).  A write that fails leaves the cache changed.
EditByRequest ==
    /\ server = "up" /\ edits < MaxEdits /\ edits' = edits + 1
    /\ \E got \in GetConfig : \E e \in Edits(got.config) :
         \/ /\ file' = [whole |-> TRUE, config |-> e.config]
            /\ cached' = None /\ cachedFresh' = FALSE /\ dirty' = {}
            /\ activeFresh' = FALSE /\ exclusions' = AfterEdit(e.fields)
            /\ elsewhere' = (elsewhere \/ "exclude" \in got.dirty)
         \/ /\ DiskFails
            /\ cached' = e.config /\ cachedFresh' = TRUE /\ dirty' = got.dirty \union e.fields
            /\ UNCHANGED <<file, activeFresh, exclusions, elsewhere>>
         \/ /\ DiskFails
            /\ file' = [whole |-> FALSE, config |-> e.config]
            /\ cached' = e.config /\ cachedFresh' = FALSE /\ dirty' = {}
            /\ activeFresh' = FALSE /\ elsewhere' = TRUE /\ UNCHANGED exclusions
    /\ UNCHANGED <<server, active>>

\* GET of the sources, the destinations or the settings.
ReadByRequest ==
    /\ server = "up"
    /\ \E got \in GetConfig : cached' = got.config /\ dirty' = got.dirty
    /\ cachedFresh' = TRUE
    /\ UNCHANGED <<file, server, active, activeFresh, exclusions, edits, elsewhere>>

\* getSourceExclusions, when nothing is cached.
SummarizeExclusions ==
    /\ server = "up" /\ exclusions = None
    /\ \E got \in GetConfig :
         /\ cached' = got.config /\ dirty' = got.dirty
         /\ exclusions' = got.config.exclude
         /\ elsewhere' = ("exclude" \in got.dirty)
    /\ cachedFresh' = TRUE
    /\ UNCHANGED <<file, server, active, activeFresh, edits>>

\* CACHE_TTL_MS are over.
ExclusionsExpire ==
    /\ exclusions # None /\ exclusions' = None
    /\ UNCHANGED <<file, cache, server, active, activeFresh, edits, elsewhere>>

\* Someone edits the file, breaks it, or repairs it.
EditByHand ==
    /\ edits < MaxEdits /\ edits' = edits + 1
    /\ \/ \E v \in Settings, w \in Settings :
            file' = [whole |-> TRUE, config |-> [file.config EXCEPT !.schedule = v, !.exclude = w]]
       \/ file' = [file EXCEPT !.whole = FALSE]
    /\ cachedFresh' = FALSE /\ activeFresh' = FALSE /\ elsewhere' = TRUE
    /\ UNCHANGED <<cached, dirty, server, active, exclusions>>
-----------------------------------------------------------------------------
\* getActiveConfig, for a run or a restore: a file that does not load leaves the
\* config as it was.
GetActiveConfig ==
    /\ server = "up" /\ ~activeFresh /\ file.whole
    /\ active' = file.config /\ activeFresh' = TRUE
    /\ UNCHANGED <<file, cache, server, exclusions, edits, elsewhere>>

\* loadConfigForApi: the config is loaded, or the process exits; then its mtime
\* is taken, of the file as it is then.
LoadConfigForApi ==
    /\ server = "down" /\ file.whole
    /\ server' = "loading" /\ active' = file.config
    /\ UNCHANGED <<file, cache, activeFresh, exclusions, edits, elsewhere>>

StatConfigForApi ==
    /\ server = "loading"
    /\ server' = "up" /\ activeFresh' = TRUE
    /\ UNCHANGED <<file, cache, active, exclusions, edits, elsewhere>>

Restart ==
    /\ server' = "down" /\ active' = None /\ activeFresh' = FALSE
    /\ cached' = None /\ cachedFresh' = FALSE /\ dirty' = {}
    /\ exclusions' = None
    /\ UNCHANGED <<file, edits, elsewhere>>

Next ==
    \/ EditByRequest \/ ReadByRequest \/ SummarizeExclusions \/ ExclusionsExpire
    \/ EditByHand \/ GetActiveConfig
    \/ LoadConfigForApi \/ StatConfigForApi \/ Restart

Spec == Init /\ [][Next]_vars
-----------------------------------------------------------------------------
TypeOK ==
    /\ file \in [whole : BOOLEAN, config : Config]
    /\ cached \in Config \union {None} /\ cachedFresh \in BOOLEAN
    /\ dirty \subseteq DOMAIN FirstConfig
    /\ server \in {"down", "loading", "up"}
    /\ active \in Config \union {None} /\ (server = "up" => active # None)
    /\ activeFresh \in BOOLEAN
    /\ exclusions \in Settings \union {None}
    /\ edits \in 0..MaxEdits /\ elsewhere \in BOOLEAN

\* A write of the server changes nothing in the file but what its request is
\* about and what earlier requests, whose writes failed, have left in the cache:
\* no edit by hand is undone, and no request undoes another (getConfig,
\* writeConfig, and every edit of the store).
OnlyTheEditIsSaved ==
    [][EditByRequest /\ file'.whole =>
         \/ UNCHANGED file
         \/ \E e \in Edits(file.config) :
              \A f \in DOMAIN FirstConfig :
                file'.config[f] = e.config[f] \/ f \in dirty]_vars

\* No path is backed up twice: a path is once in its list (createSource,
\* updateSource, isDuplicate).
SourcesAreUnique ==
    \A l \in {"paths", "sqlite"} : IsInjective(file.config[l])

\* The summary of excluded files is about the patterns in the file, unless the
\* file was changed by other means than a request, and then for CACHE_TTL_MS.
SummaryFollows ==
    exclusions # None /\ ~elsewhere => exclusions = file.config.exclude
=============================================================================
