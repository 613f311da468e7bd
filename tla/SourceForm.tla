------------------------------ MODULE SourceForm -------------------------------
(***************************************************************************)
(* The form that creates a source (NewSourceFormProvider): its fields, the *)
(* choices it offers, which the API lists from containers and database     *)
(* servers, and the request it sends.                                      *)
(*                                                                         *)
(* A listing is asked for a while after the fields it depends on have      *)
(* changed.  One that is under way is not given up when they change again: *)
(* its answer, however late, is what the form then offers.                 *)
(***************************************************************************)
CONSTANTS
    Types,       \* of the sources that users choose
    Hosts,       \* of database servers
    LocalHost,   \* the one a new form names
    Containers,
    Databases,   \* Databases[s]: what the server s, a host or a container, lists
    VolumesOf,   \* VolumesOf[c]: the volumes of the container c
    Texts,       \* what users type: paths, patterns, user and password
    Empty

SourceFormAssumption ==
    /\ Types \subseteq {"path", "sqlite", "sqlite-container", "postgres", "postgres-container",
                        "container-volume"}
    /\ "path" \in Types /\ LocalHost \in Hosts
    /\ DOMAIN Databases = Hosts \union Containers /\ DOMAIN VolumesOf = Containers
    /\ Empty \notin UNION {Hosts, Containers, Texts}

VARIABLES
    type, value,    \* value[f]: the state of field f
    dbTimer,        \* the timer of the next listing of databases runs
    dbAsked,        \* the servers whose listing is under way, each once
    loading, databases, dbError,
    volTimer, volAsked, volumes, volError,
    listing,        \* containers are being listed
    containers, containersError,
    creating,       \* the request that creates the source is under way
    under           \* history: the type for which a field of OfType was chosen

dbVars  == <<dbTimer, dbAsked, loading, databases, dbError>>
volVars == <<volTimer, volAsked, volumes, volError>>
conVars == <<listing, containers, containersError>>
vars    == <<type, value, dbVars, volVars, conVars, creating, under>>

\* buildBody, and what NewSourceForm shows: the fields of each type.  User and
\* password, which nothing tells apart, are the field `login`.
FieldsOf(t) ==
    CASE t \in {"path", "sqlite"}   -> {"path"}
      [] t = "sqlite-container"     -> {"containerName", "dbPath"}
      [] t = "postgres"             -> {"host", "login", "database"}
      [] t = "postgres-container"   -> {"containerName", "login", "database"}
      [] t = "container-volume"     -> {"cvContainerName", "volumePath", "include"}

FormFields == UNION {FieldsOf(t) : t \in Types}

IsPostgres(t)      == t \in {"postgres", "postgres-container"}
NeedsContainers(t) == t \in {"postgres-container", "container-volume", "sqlite-container"}
Filled(fs, val)    == \A f \in fs : val[f] # Empty

\* The server of the fields, and fieldsReady.
ServerField(t) == IF t = "postgres-container" THEN "containerName" ELSE "host"
FieldsReady(t, val) == IsPostgres(t) /\ Filled({"login", ServerField(t)}, val)

\* The fields that belong to the type they were filled under.
OfType == {"database", "containerName", "cvContainerName", "volumePath", "include"}

\* Mutation: the database is not among what is reset.
ResetButDatabase == OfType \ {"database"}

\* What the effect on `type` empties.  Path, host, user and password stay.
Reset == {"database", "containerName", "cvContainerName", "volumePath", "include"}

Init ==
    /\ type = "path" /\ value = [f \in FormFields |-> IF f = "host" THEN LocalHost ELSE Empty]
    /\ dbTimer = FALSE /\ dbAsked = {} /\ loading = FALSE /\ databases = {} /\ dbError = FALSE
    /\ volTimer = FALSE /\ volAsked = {} /\ volumes = {} /\ volError = FALSE
    /\ listing = FALSE /\ containers = {} /\ containersError = FALSE
    /\ creating = FALSE
    /\ under = [f \in FormFields \intersect OfType |-> Empty]
-----------------------------------------------------------------------------
\* onChange of the type, with the effects of the hooks on it.
SetType(t) ==
    /\ t # type
    /\ type' = t
    /\ value' = [f \in FormFields |-> IF f \in Reset THEN Empty ELSE value[f]]
    /\ IF IsPostgres(t) THEN UNCHANGED <<databases, dbError>>
                        ELSE databases' = {} /\ dbError' = FALSE
    /\ dbTimer' = FieldsReady(t, value')
    /\ volTimer' = FALSE /\ volumes' = {} /\ volError' = FALSE
    /\ IF NeedsContainers(t) /\ ~NeedsContainers(type)
         THEN listing' = TRUE /\ containersError' = FALSE
         ELSE UNCHANGED <<listing, containersError>>
    /\ under' = [f \in DOMAIN under |-> IF f \in Reset THEN Empty ELSE under[f]]
    /\ UNCHANGED <<dbAsked, loading, volAsked, containers, creating>>

\* The choices of the selects; one that is disabled has none.
ContainerSelect == IF listing \/ containersError THEN {} ELSE containers
DatabaseSelect  == IF ~FieldsReady(type, value) \/ loading \/ dbError THEN {} ELSE databases
VolumeSelect    == IF value["cvContainerName"] = Empty \/ volError THEN {} ELSE volumes

\* What a field can be set to.  The patterns are shown under a chosen volume.
Offered(f) ==
    CASE f \in {"containerName", "cvContainerName"} -> ContainerSelect
      [] f = "database"   -> DatabaseSelect
      [] f = "volumePath" -> VolumeSelect
      [] f = "include"    -> IF value["volumePath"] = Empty THEN {} ELSE Texts \union {Empty}
      [] f = "host"       -> Hosts \union {Empty}
      [] OTHER            -> Texts \union {Empty}

SetField(f, v) ==
    /\ f \in FieldsOf(type) /\ v \in Offered(f) \ {value[f]}
    /\ value' = [value EXCEPT ![f] = v]
    /\ under' = [g \in DOMAIN under |-> IF g = f THEN type ELSE under[g]]
    /\ dbTimer' = IF f \in {"host", "login", "containerName"} THEN FieldsReady(type, value') ELSE dbTimer
    /\ volTimer' = (f = "cvContainerName" \/ volTimer)
    /\ UNCHANGED <<type, dbAsked, loading, databases, dbError, volAsked, volumes, volError,
                   conVars, creating>>
-----------------------------------------------------------------------------
(***************************************************************************)
(* The listings.                                                           *)
(***************************************************************************)
FetchDbList ==
    /\ dbTimer
    /\ dbTimer' = FALSE
    /\ dbAsked' = dbAsked \union {value[ServerField(type)]}
    /\ loading' = TRUE /\ dbError' = FALSE
    /\ UNCHANGED <<type, value, databases, volVars, conVars, creating, under>>

\* An answer ends `loading`, even if a later request is under way.
DbListArrives(s) ==
    /\ s \in dbAsked
    /\ dbAsked' = dbAsked \ {s} /\ loading' = FALSE
    /\ \/ databases' = Databases[s] /\ dbError' = (dbError \/ Databases[s] = {})
       \/ dbError' = TRUE /\ UNCHANGED databases
    /\ UNCHANGED <<type, value, dbTimer, volVars, conVars, creating, under>>

FetchVolumes ==
    /\ volTimer
    /\ volTimer' = FALSE
    /\ volAsked' = volAsked \union {value["cvContainerName"]}
    /\ volError' = FALSE
    /\ UNCHANGED <<type, value, dbVars, volumes, conVars, creating, under>>

VolumesArrive(c) ==
    /\ c \in volAsked
    /\ volAsked' = volAsked \ {c}
    /\ \/ volumes' = VolumesOf[c] /\ volError' = (volError \/ VolumesOf[c] = {})
       \/ volError' = TRUE /\ UNCHANGED volumes
    /\ UNCHANGED <<type, value, dbVars, volTimer, conVars, creating, under>>

ContainersArrive ==
    /\ listing
    /\ listing' = FALSE
    /\ \/ containers' = Containers /\ UNCHANGED containersError
       \/ containersError' = TRUE /\ UNCHANGED containers
    /\ UNCHANGED <<type, value, dbVars, volVars, creating, under>>
-----------------------------------------------------------------------------
CanCreate == Filled(FieldsOf(type) \ {"include"}, value)

\* handleCreate: the fields of the type are sent as they are now.  The form can
\* be edited on while it waits.
HandleCreate ==
    /\ CanCreate /\ ~creating
    /\ creating' = TRUE
    /\ UNCHANGED <<type, value, dbVars, volVars, conVars, under>>

\* The API refuses a duplicate, or is not reached: the form stays.  With an
\* answer that the source is created the page is left, and this form with it.
CreateFails ==
    /\ creating
    /\ creating' = FALSE
    /\ UNCHANGED <<type, value, dbVars, volVars, conVars, under>>

Next ==
    \/ \E t \in Types : SetType(t)
    \/ \E f \in FormFields : \E v \in Offered(f) : SetField(f, v)
    \/ FetchDbList \/ \E s \in dbAsked : DbListArrives(s)
    \/ FetchVolumes \/ \E c \in volAsked : VolumesArrive(c)
    \/ ContainersArrive
    \/ HandleCreate \/ CreateFails

Spec == Init /\ [][Next]_vars
-----------------------------------------------------------------------------
TypeOK ==
    /\ type \in Types /\ DOMAIN value = FormFields /\ under \in [FormFields \intersect OfType -> Types \union {Empty}]
    /\ {dbTimer, loading, dbError, volTimer, volError, listing, containersError, creating}
         \subseteq BOOLEAN
    /\ dbAsked \subseteq Hosts \union Containers /\ volAsked \subseteq Containers
    /\ containers \subseteq Containers

\* A source is made of what was chosen for its type: no container, database or
\* volume that was chosen for another one is sent with it, whatever answers
\* come late (the effect on `type` in use-new-source.tsx, buildBody).
SentAsChosen ==
    creating \/ CanCreate =>
      \A f \in OfType \intersect FieldsOf(type) : value[f] # Empty => under[f] = type
=============================================================================
