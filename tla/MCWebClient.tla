----------------------------- MODULE MCWebClient ------------------------------
EXTENDS WebClient, TLC

CONSTANTS local, remote, week, etc, db, j1, j2, j3, schedule, enabled, localhost, app, d1, d2, v1

MCHolds == (local :> (week :> {etc, db})) @@ (remote :> (week :> {etc}))

Ask(dest, files, overwrite, dryRun, toRoot) ==
    [dest |-> dest, period |-> week, whole |-> files = {}, files |-> files,
     overwrite |-> overwrite, dryRun |-> dryRun, toRoot |-> toRoot]

MCStartedAt == (j1 :> 1) @@ (j2 :> 2) @@ (j3 :> 3)

\* A file that the remote snapshot does not hold; one of the local snapshot,
\* over the first's or beside it, or files to the root, with one that is lacking;
\* and a whole snapshot, as a dry run that would overwrite nothing.
MCAsked ==
    (j1 :> {Ask(remote, {etc, db}, TRUE, FALSE, FALSE)})
    @@ (j2 :> {Ask(local, {etc}, TRUE, FALSE, FALSE), Ask(local, {db}, TRUE, FALSE, FALSE),
               Ask(remote, {etc, db}, TRUE, FALSE, TRUE)})
    @@ (j3 :> {Ask(remote, {}, FALSE, TRUE, FALSE)})

MCDefault    == (schedule :> 0) @@ (enabled :> 1)
MCFirstSaved == (schedule :> 1) @@ (enabled :> 1)

MCDatabases == (localhost :> {d1}) @@ (app :> {d2})
MCVolumesOf == app :> {v1}
=============================================================================
