-------------------------- MODULE RetentionCalendar --------------------------
(***************************************************************************)
(* The period folders of one destination as the days go by: each backup    *)
(* that stores something writes into the folder of the day's period and    *)
(* then drops expired folders (dispatcher.ts applyRetention).  A folder    *)
(* that cannot be removed is logged and stays, and a store that fails has  *)
(* its folder and no retention.  The retention settings may be edited      *)
(* between backups.                                                        *)
(*                                                                         *)
(* A folder is a pair <<kind, key>>: month and week names have different   *)
(* shapes, and isPeriodKey makes retention see only those of the mode in   *)
(* force.                                                                  *)
(***************************************************************************)
EXTENDS Periods

CONSTANTS
    FirstDay, LastDay,  \* the days the model runs through
    Keeps,              \* the values the retention setting takes
    Modes               \* a subset of {"weeks", "months", "forever"}

ASSUME CalendarAssumption ==
    /\ FirstDay \in Nat /\ LastDay \in Nat /\ FirstDay >= 7 /\ FirstDay <= LastDay
    /\ Keeps \subseteq Nat
    /\ Modes \subseteq {"weeks", "months", "forever"}

VARIABLES today, folders, keep, mode

vars == <<today, folders, keep, mode>>

Kind(m) == IF m = "weeks" THEN "week" ELSE "month"
KeysOf(fs, m) == {f[2] : f \in {g \in fs : g[1] = Kind(m)}}
CurrentFolder == <<Kind(mode), PeriodKeyFor(mode, today)>>

Init ==
    /\ today = FirstDay
    /\ folders = {}
    /\ keep \in Keeps
    /\ mode \in Modes

NextDay ==
    /\ today < LastDay
    /\ today' = today + 1
    /\ UNCHANGED <<folders, keep, mode>>

\* The folders there are once the store has made its own, and those of them that
\* listPeriodFolders and selectExpiredPeriodKeys find expired.
Stored == folders \union {CurrentFolder}
ExpiredOf(existing) ==
    {Kind(mode)} \X
      ExpiredFolders(mode, KeysOf(existing, mode), keep, PeriodKeyFor(mode, today))

\* removePeriodFolder on each expired folder.  It logs what cannot be removed and the
\* loop goes on, so any of them may stay; all do when the listing or the connection fails.
EnforceRetention(existing, refused) ==
    folders' = existing \ (ExpiredOf(existing) \ refused)

BackUp(refused) ==
    /\ EnforceRetention(Stored, refused)
    /\ UNCHANGED <<today, keep, mode>>

\* The store made its folder and failed: storeToDestination returns before retention.
StoreFails ==
    /\ folders' = Stored
    /\ UNCHANGED <<today, keep, mode>>

EditRetention(k, m) ==
    /\ keep' = k
    /\ mode' = m
    /\ UNCHANGED <<today, folders>>

Next ==
    \/ NextDay
    \/ \E refused \in SUBSET ExpiredOf(Stored) : BackUp(refused)
    \/ StoreFails
    \/ \E k \in Keeps, m \in Modes : EditRetention(k, m)

Spec == Init /\ [][Next]_vars

-----------------------------------------------------------------------------
TypeOK ==
    /\ today \in FirstDay..LastDay
    /\ folders \subseteq {"week", "month"} \X Nat
    /\ keep \in Keeps
    /\ mode \in Modes

\* A week key stands for exactly one Monday-to-Sunday week, and the keys of
\* later weeks sort later, also across a change of year (isoWeekKeyFor): else
\* two weeks would share a folder, or retention would drop the newer of two.
\* Every day of the model is checked in ten consecutive years,
\* in which 1 January falls on every day of the week.
WeekKeysFollowTheWeeks ==
    \A y \in 0..9 :
      LET d == today + 365 * y
      IN  IF DayOfWeek(d + 1) = 1
            THEN IsoWeekKeyFor(d) < IsoWeekKeyFor(d + 1)
            ELSE IsoWeekKeyFor(d) = IsoWeekKeyFor(d + 1)

Limit == IF keep = 0 THEN 1 ELSE keep

\* A backup leaves its own folder and, besides the expired folders it could not remove,
\* at most the configured number: however the settings and the clock moved before it,
\* and whatever stores that failed and removals that failed had let pile up, the next
\* retention that works brings the destination back to its limit
\* (selectExpiredPeriodKeys counts the current folder as one of `keep`).
RetentionHolds ==
    [][\A refused \in SUBSET ExpiredOf(Stored) :
         BackUp(refused) =>
           /\ CurrentFolder \in folders'
           /\ mode # "forever" => Cardinality(KeysOf(folders' \ refused, mode)) <= Limit]_vars

\* What retention removes is older than everything of its kind it means to keep, and it
\* removes nothing while the destination is within its limit: a snapshot that should have
\* been kept is never the one that goes.  Only an expired folder whose own removal failed
\* can be older than one that went.
OnlyTheOldestGo ==
    [][\/ folders \subseteq folders'
       \/ \E refused \in SUBSET ExpiredOf(Stored) :
            /\ BackUp(refused)
            /\ \A f \in folders \ folders' :
                 /\ \A g \in folders' \ refused : g[1] = f[1] => f[2] < g[2]
                 /\ Cardinality(KeysOf(folders' \ refused, mode)) = Limit]_vars
=============================================================================
