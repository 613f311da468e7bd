--------------------------- MODULE BackupRunsProofs ---------------------------
(***************************************************************************)
(* The order of a run's destinations, the life of its dumps, what the      *)
(* registry and the history tell of it, and the life of a run that the API *)
(* promises, for every set of runs, list of destinations and set of        *)
(* faults.                                                                 *)
(***************************************************************************)
EXTENDS BackupRuns, FiniteSetTheorems, WellFoundedInduction, TLAPS

Stages == {"none", "over", "unrecorded", "lost"} \union Working

RunsType ==
    /\ config \subseteq Dests /\ daemonConfig \subseteq Dests
    /\ pc \in [RunIds -> Stages]
    /\ targets \in [RunIds -> SUBSET Dests]
    /\ job \in [RunIds -> [Dests -> Jobs]]
    /\ result \in [RunIds -> {"none", "failed", "built"}]
    /\ alone \subseteq RunIds

\* No destination is served before the files are resolved.
NoneYet == \A r \in RunIds : pc[r] \in {"none", "resolving"} => \A d \in Dests : job[r][d] = "waiting"

\* A destination is begun when those before it have ended.
InOrder ==
    \A r \in RunIds : \A d \in targets[r] :
      job[r][d] \notin {"waiting", "lost"} => \A e \in Predecessors(r, d) : job[r][e] \in Ended

RunsInv == RunsType /\ NoneYet /\ InOrder
-----------------------------------------------------------------------------
\* Steps that serve no destination.
LEMMA NotServing ==
    ASSUME RunsInv, UNCHANGED <<job, targets>>,
           \A r \in RunIds : pc'[r] \in {"none", "resolving"} => pc[r] \in {"none", "resolving"}
    PROVE  NoneYet' /\ InOrder'
<1>1. \A r \in RunIds : \A d : Predecessors(r, d)' = Predecessors(r, d)
  BY DEF Predecessors
<1> QED
  BY <1>1 DEF RunsInv, NoneYet, InOrder

\* A step of the destination d of the run r, whose turn it is.
LEMMA Serving ==
    ASSUME RunsInv, NEW r \in RunIds, NEW d \in Dests, NEW next \in Jobs,
           job' = [job EXCEPT ![r][d] = next], UNCHANGED targets,
           job[r][d] \notin Ended,
           d \in targets[r] => \A e \in Predecessors(r, d) : job[r][e] \in Ended,
           pc'[r] \notin {"none", "resolving"},
           \A q \in RunIds \ {r} : pc'[q] = pc[q]
    PROVE  NoneYet' /\ InOrder'
<1>1. \A q \in RunIds : \A e : Predecessors(q, e)' = Predecessors(q, e)
  BY DEF Predecessors
<1>2. /\ \A q \in RunIds \ {r} : job'[q] = job[q]
      /\ \A e \in Dests \ {d} : job'[r][e] = job[r][e]
  BY DEF RunsInv, RunsType
<1>3. NoneYet'
  BY <1>2 DEF RunsInv, NoneYet
<1>4. targets[r] \subseteq Dests
  BY DEF RunsInv, RunsType
<1>5. \A e \in targets[r] : Predecessors(r, e) \subseteq Dests
  BY <1>4 DEF Predecessors
<1>6. ASSUME NEW e \in targets[r], job'[r][e] \notin {"waiting", "lost"}, NEW f \in Predecessors(r, e)
      PROVE  job'[r][f] \in Ended
  <2>1. job[r][f] \in Ended
    <3>1. CASE e = d
      BY <1>6, <3>1
    <3>2. CASE e # d
      BY <1>2, <1>4, <1>6, <3>2 DEF RunsInv, InOrder
    <3> QED
      BY <3>1, <3>2
  <2>2. f # d
    BY <2>1
  <2> QED
    BY <1>2, <1>5, <1>6, <2>1, <2>2
<1>7. InOrder'
  BY <1>1, <1>2, <1>6 DEF RunsInv, InOrder
<1> QED
  BY <1>3, <1>7

\* When a destination may begin, those before it have ended.
LEMMA ItsTurn ==
    ASSUME RunsInv, NEW r \in RunIds, NEW d \in Dests, CanBegin(r, d)
    PROVE  /\ pc[r] \notin {"none", "resolving"} /\ d \in targets[r] /\ job[r][d] = "waiting"
           /\ \A e \in Predecessors(r, d) : job[r][e] \in Ended
<1>1. CASE MayBegin(r, d)
  BY <1>1 DEF MayBegin
<1>2. ASSUME d \in targets[r] \intersect Parallel, job[r][d] = "waiting",
             NEW p \in targets[r] \intersect Parallel, job[r][p] = "thrown"
      PROVE  /\ pc[r] \notin {"none", "resolving"}
             /\ \A e \in Predecessors(r, d) : job[r][e] \in Ended
  <2>1. Predecessors(r, d) = Predecessors(r, p)
    BY <1>2 DEF Predecessors
  <2>2. \A e \in Predecessors(r, p) : job[r][e] \in Ended
    BY <1>2 DEF RunsInv, InOrder
  <2>3. p \in Dests
    BY <1>2, RegistryAssumption
  <2> QED
    BY <1>2, <2>1, <2>2, <2>3 DEF RunsInv, NoneYet
<1> QED
  BY <1>1, <1>2 DEF CanBegin
-----------------------------------------------------------------------------
LEMMA InitRunsInv == Init => RunsInv
BY DEF Init, RunsInv, RunsType, NoneYet, InOrder, Stages, Jobs

LEMMA StartRunsInv ==
    ASSUME RunsInv, NEW r \in RunIds, NEW destinations \in SUBSET Dests, Start(r, destinations)
    PROVE  RunsInv'
<1>1. /\ pc[r] = "none" /\ pc'[r] = "resolving" /\ targets'[r] = destinations
      /\ \A q \in RunIds \ {r} : pc'[q] = pc[q] /\ targets'[q] = targets[q]
      /\ job' = job
  BY DEF Start, RunsInv, RunsType
<1>2. RunsType'
  BY DEF Start, RunsInv, RunsType, Stages, Working
<1>3. NoneYet'
  BY <1>1 DEF RunsInv, NoneYet
<1>4. \A q \in RunIds \ {r} : \A d : Predecessors(q, d)' = Predecessors(q, d)
  BY <1>1 DEF Predecessors
<1>5. \A d \in targets'[r] : job'[r][d] = "waiting"
  BY <1>1 DEF RunsInv, NoneYet
<1>6. InOrder'
  BY <1>1, <1>4, <1>5 DEF RunsInv, InOrder
<1> QED
  BY <1>2, <1>3, <1>6 DEF RunsInv

\* What a step of a destination does to its run.
Serves(r, d, next) ==
    /\ job' = [job EXCEPT ![r][d] = next] /\ UNCHANGED <<config, daemonConfig, targets, alone, dump>>
    /\ \/ UNCHANGED <<pc, result>>
       \/ /\ next = "thrown" /\ pc[r] = "storing"
          /\ pc' = [pc EXCEPT ![r] = "notifying"] /\ result' = [result EXCEPT ![r] = "failed"]

LEMMA ServesRunsInv ==
    ASSUME RunsInv, NEW r \in RunIds, NEW d \in Dests, NEW next \in Jobs, Serves(r, d, next),
           job[r][d] \notin Ended, pc[r] \notin {"none", "resolving"},
           d \in targets[r] => \A e \in Predecessors(r, d) : job[r][e] \in Ended
    PROVE  RunsInv'
<1>1. RunsType'
  <2>1. job' \in [RunIds -> [Dests -> Jobs]]
    BY DEF Serves, RunsInv, RunsType
  <2>2. pc' \in [RunIds -> Stages] /\ result' \in [RunIds -> {"none", "failed", "built"}]
    BY DEF Serves, RunsInv, RunsType, Stages, Working
  <2> QED
    BY <2>1, <2>2 DEF Serves, RunsInv, RunsType
<1>2. pc'[r] \notin {"none", "resolving"} /\ \A q \in RunIds \ {r} : pc'[q] = pc[q]
  BY DEF Serves, RunsInv, RunsType
<1>3. NoneYet' /\ InOrder'
  BY <1>2, Serving DEF Serves
<1> QED
  BY <1>1, <1>3 DEF RunsInv

\* Each step of a destination is one of these.
LEMMA DestinationSteps ==
    ASSUME NEW r \in RunIds, NEW d \in Dests
    PROVE  /\ Skip(r, d) => CanBegin(r, d) /\ Serves(r, d, "skipped")
           /\ StoreStarts(r, d) => CanBegin(r, d) /\ Serves(r, d, "storing")
           /\ StoreSucceeds(r, d) => job[r][d] = "storing" /\ Serves(r, d, "retaining")
           /\ StoreFails(r, d) => job[r][d] = "storing" /\ \E next \in {"error", "thrown"} : Serves(r, d, next)
           /\ Retained(r, d) => job[r][d] = "retaining" /\ \E next \in {"done", "thrown"} : Serves(r, d, next)
BY DEF Skip, StoreStarts, StoreSucceeds, StoreFails, Retained, Announce, Throws, Serves

LEMMA NextRunsInv == RunsInv /\ [Next]_vars => RunsInv'
<1> SUFFICES ASSUME RunsInv, [Next]_vars PROVE RunsInv'
  OBVIOUS
<1>1. CASE UNCHANGED vars
  BY <1>1, NotServing DEF vars, stage, RunsInv, RunsType
<1>2. ASSUME NEW d \in Editable, EditConfig(d) PROVE RunsInv'
  <2>1. config' \subseteq Dests
    BY <1>2, RunsAssumption DEF EditConfig, RunsInv, RunsType
  <2>2. UNCHANGED <<daemonConfig, pc, targets, job, result, alone>>
    BY <1>2 DEF EditConfig, stage
  <2> QED
    BY <2>1, <2>2, NotServing DEF RunsInv, RunsType
<1>3. ASSUME NEW r \in RunIds, StartManual(r) \/ StartScheduled(r) PROVE RunsInv'
  BY <1>3, StartRunsInv DEF StartManual, StartScheduled, RunsInv, RunsType
<1>4. ASSUME NEW r \in RunIds,
             Resolve(r) \/ ResolveNothing(r) \/ AllEnded(r) \/ Settle(r) \/ SettleUnrecorded(r)
      PROVE  RunsInv'
  <2>1. /\ UNCHANGED <<config, daemonConfig, job, targets, alone>>
        /\ pc'[r] \notin {"none", "resolving"} /\ \A q \in RunIds \ {r} : pc'[q] = pc[q]
        /\ pc' \in [RunIds -> Stages] /\ result' \in [RunIds -> {"none", "failed", "built"}]
    BY <1>4 DEF Resolve, ResolveNothing, AllEnded, Settle, SettleUnrecorded, RunsInv, RunsType, Stages, Working
  <2> QED
    BY <2>1, NotServing DEF RunsInv, RunsType
<1>5. ASSUME NEW r \in RunIds, NEW d \in Dests,
             Skip(r, d) \/ StoreStarts(r, d) \/ StoreSucceeds(r, d) \/ StoreFails(r, d) \/ Retained(r, d)
      PROVE  RunsInv'
  <2>1. {"skipped", "storing", "retaining", "error", "thrown", "done"} \subseteq Jobs
    BY DEF Jobs, Ended
  <2>2. CASE CanBegin(r, d)
    <3>1. \E next \in {"skipped", "storing"} : Serves(r, d, next)
      <4>1. job[r][d] = "waiting"
        BY <2>2, ItsTurn
      <4> QED
        BY <1>5, <4>1, DestinationSteps
    <3>2. job[r][d] \notin Ended
      BY <2>2, ItsTurn DEF Ended
    <3> QED
      BY <2>1, <2>2, <3>1, <3>2, ItsTurn, ServesRunsInv
  <2>3. CASE job[r][d] \in {"storing", "retaining"}
    <3>1. \E next \in Jobs : Serves(r, d, next)
      <4>1. ~CanBegin(r, d)
        BY <2>3, ItsTurn
      <4> QED
        BY <1>5, <2>1, <4>1, DestinationSteps
    <3>2. pc[r] \notin {"none", "resolving"} /\ job[r][d] \notin Ended
      BY <2>3 DEF RunsInv, NoneYet, Ended
    <3>3. d \in targets[r] => \A e \in Predecessors(r, d) : job[r][e] \in Ended
      BY <2>3 DEF RunsInv, InOrder
    <3> QED
      BY <3>1, <3>2, <3>3, ServesRunsInv
  <2> QED
    BY <1>5, <2>2, <2>3, DestinationSteps
<1>6. CASE Crash
  <2>1. /\ UNCHANGED <<config, targets, result, alone>> /\ daemonConfig' = config
        /\ pc' = [r \in RunIds |-> IF pc[r] \in Working THEN "lost" ELSE pc[r]]
        /\ job' = [r \in RunIds |->
                     [d \in Dests |->
                        IF pc[r] # "none" /\ job[r][d] \in {"waiting", "storing", "retaining"}
                          THEN "lost" ELSE job[r][d]]]
    BY <1>6 DEF Crash
  <2>2. RunsType'
    <3>1. pc' \in [RunIds -> Stages]
      BY <2>1 DEF RunsInv, RunsType, Stages
    <3>2. job' \in [RunIds -> [Dests -> Jobs]]
      BY <2>1 DEF RunsInv, RunsType, Jobs
    <3> QED
      BY <2>1, <3>1, <3>2 DEF RunsInv, RunsType
  <2>3. NoneYet'
    BY <2>1 DEF RunsInv, NoneYet, RunsType, Working
  <2>4. \A r \in RunIds : \A d : Predecessors(r, d)' = Predecessors(r, d)
    BY <2>1 DEF Predecessors
  <2>5. ASSUME NEW r \in RunIds, NEW d \in targets[r], job'[r][d] \notin {"waiting", "lost"},
               NEW e \in Predecessors(r, d)
        PROVE  job'[r][e] \in Ended
    <3>1. d \in Dests /\ e \in Dests
      BY DEF RunsInv, RunsType, Predecessors
    <3>2. job[r][d] \notin {"waiting", "lost"}
      BY <2>1, <2>5, <3>1 DEF RunsInv, NoneYet
    <3>3. job[r][e] \in Ended
      BY <2>5, <3>2 DEF RunsInv, InOrder
    <3> QED
      BY <2>1, <3>1, <3>3 DEF Ended
  <2>6. InOrder'
    BY <2>1, <2>4, <2>5 DEF InOrder
  <2> QED
    BY <2>2, <2>3, <2>6 DEF RunsInv
<1> QED
  BY <1>1, <1>2, <1>3, <1>4, <1>5, <1>6 DEF Next, RunStep

LEMMA RunsInvHolds == Spec => []RunsInv
BY InitRunsInv, NextRunsInv, PTL DEF Spec
-----------------------------------------------------------------------------
\* Of two destinations that are not parallel one is before the other.
LEMMA OneIsFirst ==
    ASSUME NEW r \in RunIds, targets[r] \subseteq Dests,
           NEW d \in targets[r], NEW e \in targets[r], d \notin Parallel, e \notin Parallel, d # e
    PROVE  d \in Predecessors(r, e) \/ e \in Predecessors(r, d)
<1>1. Place[d] \in Nat /\ Place[e] \in Nat /\ Place[d] # Place[e]
  BY RegistryAssumption
<1>2. Place[d] < Place[e] \/ Place[e] < Place[d]
  BY <1>1
<1> QED
  BY <1>2 DEF Predecessors

\* Of the destinations that are not parallel one is served at a time, and the
\* parallel ones begin when they have all ended (runDestinations).
THEOREM DestinationsTakeTurns == Spec => []OneAfterTheOther
<1>1. RunsInv => OneAfterTheOther
  <2> SUFFICES ASSUME RunsInv, NEW r \in RunIds
               PROVE  /\ Cardinality({d \in targets[r] : job[r][d] \in {"storing", "retaining"}} \ Parallel) <= 1
                      /\ (\E d \in targets[r] \intersect Parallel : job[r][d] \notin {"waiting", "lost"}) =>
                           \A d \in targets[r] \ Parallel : job[r][d] \in Ended
    BY DEF OneAfterTheOther
  <2> DEFINE A == {d \in targets[r] : job[r][d] \in {"storing", "retaining"}} \ Parallel
  <2>1. targets[r] \subseteq Dests
    BY DEF RunsInv, RunsType
  <2>2. ASSUME NEW d \in A, NEW e \in A PROVE d = e
    <3>1. \A f \in Predecessors(r, d) \union Predecessors(r, e) : job[r][f] \in Ended
      BY <2>2 DEF RunsInv, InOrder
    <3>2. job[r][d] \notin Ended /\ job[r][e] \notin Ended
      BY <2>2 DEF Ended
    <3>3. d \notin Predecessors(r, e) /\ e \notin Predecessors(r, d)
      BY <3>1, <3>2
    <3> QED
      BY <2>1, <2>2, <3>3, OneIsFirst
  <2>3. Cardinality(A) <= 1
    <3>1. CASE A = {}
      BY <3>1, FS_EmptySet
    <3>2. ASSUME NEW d \in A PROVE Cardinality(A) = 1
      <4>1. A = {d}
        BY <2>2
      <4> HIDE DEF A
      <4> QED
        BY <4>1, FS_Singleton
    <3> QED
      BY <3>1, <3>2
  <2>4. ASSUME NEW p \in targets[r] \intersect Parallel, job[r][p] \notin {"waiting", "lost"},
               NEW d \in targets[r] \ Parallel
        PROVE  job[r][d] \in Ended
    <3>1. \A f \in Predecessors(r, p) : job[r][f] \in Ended
      BY <2>4 DEF RunsInv, InOrder
    <3>2. d \in Predecessors(r, p)
      BY <2>4 DEF Predecessors
    <3> QED
      BY <3>1, <3>2
  <2> QED
    BY <2>3, <2>4
<1> QED
  BY <1>1, RunsInvHolds, PTL
-----------------------------------------------------------------------------
\* A run that is alone has the temp directory to itself while it is in progress.
DumpInv ==
    /\ \A r \in alone : pc[r] # "none"
    /\ \A r \in alone : pc[r] \in Working => \A q \in RunIds \ {r} : pc[q] \notin Working
    /\ \A r \in alone : pc[r] = "storing" => dump = r
    /\ \A r \in RunIds : \A d \in targets[r] :
         job[r][d] = "storing" /\ result[r] # "failed" => pc[r] = "storing"

LEMMA NextDumpInv == RunsInv /\ DumpInv /\ [Next]_vars => DumpInv'
<1> SUFFICES ASSUME RunsInv, DumpInv, [Next]_vars PROVE DumpInv'
  OBVIOUS
<1>0. ASSUME UNCHANGED <<alone, pc, dump, targets, job, result>> PROVE DumpInv'
  BY <1>0 DEF DumpInv
<1>1. CASE UNCHANGED vars
  BY <1>0, <1>1 DEF vars, stage
<1>2. ASSUME NEW d \in Editable, EditConfig(d) PROVE DumpInv'
  BY <1>0, <1>2 DEF EditConfig, stage
<1>3. ASSUME NEW r \in RunIds, NEW destinations \in SUBSET Dests, Start(r, destinations) PROVE DumpInv'
  <2>1. /\ pc[r] = "none" /\ pc'[r] = "resolving" /\ targets'[r] = destinations
        /\ \A q \in RunIds \ {r} : pc'[q] = pc[q] /\ targets'[q] = targets[q]
        /\ UNCHANGED <<job, result, dump>>
        /\ alone' = IF \E q \in RunIds : pc[q] \in Working
                      THEN {q \in alone : pc[q] \notin Working} ELSE alone \union {r}
    BY <1>3 DEF Start, RunsInv, RunsType
  <2>2. \A d \in targets'[r] : job'[r][d] # "storing"
    BY <2>1 DEF RunsInv, NoneYet
  <2>3. \A q \in alone' : q \in RunIds /\ (pc'[q] \in Working => q = r /\ \A p \in RunIds : pc[p] \notin Working)
    BY <2>1 DEF RunsInv, RunsType, DumpInv, Working
  <2>4. \A q \in alone' : pc'[q] # "none"
    BY <2>1 DEF RunsInv, RunsType, DumpInv
  <2>5. \A q \in alone' : pc'[q] # "storing"
    BY <2>1, <2>3 DEF Working
  <2>6. ASSUME NEW q \in alone', pc'[q] \in Working, NEW p \in RunIds \ {q} PROVE pc'[p] \notin Working
    BY <2>1, <2>3, <2>6
  <2>7. ASSUME NEW q \in RunIds, NEW d \in targets'[q], job'[q][d] = "storing", result'[q] # "failed"
        PROVE  pc'[q] = "storing"
    BY <2>1, <2>2, <2>7 DEF DumpInv
  <2> QED
    BY <2>4, <2>5, <2>6, <2>7 DEF DumpInv
<1>4. ASSUME NEW r \in RunIds,
             Resolve(r) \/ ResolveNothing(r) \/ AllEnded(r) \/ Settle(r) \/ SettleUnrecorded(r)
      PROVE  DumpInv'
  <2>1. /\ UNCHANGED <<job, targets, alone>> /\ pc[r] \in Working
        /\ \A q \in RunIds \ {r} : pc'[q] = pc[q] /\ result'[q] = result[q]
        /\ pc'[r] = "storing" => dump' = r
    BY <1>4 DEF Resolve, ResolveNothing, AllEnded, Settle, SettleUnrecorded, RunsInv, RunsType, Working
  <2>2. ASSUME NEW d \in targets[r], job[r][d] = "storing", result'[r] # "failed" PROVE pc'[r] = "storing"
    <3>1. d \in Dests /\ pc[r] # "resolving"
      BY <2>2 DEF RunsInv, RunsType, NoneYet
    <3>2. AllEnded(r) \/ Settle(r) \/ SettleUnrecorded(r)
      BY <1>4, <3>1 DEF Resolve, ResolveNothing
    <3>3. ~AllEnded(r)
      BY <2>2 DEF AllEnded, Ended
    <3>4. pc[r] = "notifying" /\ result' = result
      BY <3>2, <3>3 DEF Settle, SettleUnrecorded
    <3> QED
      BY <2>2, <3>4 DEF DumpInv
  <2>6. \A q \in alone : pc'[q] # "none"
    BY <1>4, <2>1 DEF DumpInv, RunsInv, RunsType, Resolve, ResolveNothing, AllEnded, Settle, SettleUnrecorded
  <2>3. ASSUME NEW q \in alone, pc'[q] \in Working PROVE pc[q] \in Working
    BY <2>1, <2>3 DEF RunsInv, RunsType
  <2>4. ASSUME NEW q \in alone, pc'[q] = "storing" PROVE dump' = q
    <3>1. CASE q = r
      BY <2>1, <2>4, <3>1
    <3>2. CASE q # r
      BY <2>1, <2>4, <3>2 DEF DumpInv, RunsInv, RunsType, Working
    <3> QED
      BY <3>1, <3>2
  <2>5. \A q \in alone : pc'[q] \in Working => \A p \in RunIds \ {q} : pc'[p] \notin Working
    BY <2>1, <2>3 DEF DumpInv, RunsInv, RunsType
  <2> QED
    BY <2>1, <2>2, <2>4, <2>5, <2>6 DEF DumpInv
<1>5. ASSUME NEW r \in RunIds, NEW d \in Dests, NEW next \in Jobs, Serves(r, d, next),
             next = "storing" => MayBegin(r, d) \/ result[r] = "failed"
      PROVE  DumpInv'
  <2>1. /\ UNCHANGED <<targets, alone, dump>>
        /\ \A q \in RunIds \ {r} : pc'[q] = pc[q] /\ result'[q] = result[q] /\ job'[q] = job[q]
        /\ job'[r][d] = next /\ \A e \in Dests \ {d} : job'[r][e] = job[r][e]
        /\ \/ pc'[r] = pc[r] /\ result'[r] = result[r]
           \/ pc[r] = "storing" /\ pc'[r] = "notifying" /\ result'[r] = "failed"
    BY <1>5 DEF Serves, RunsInv, RunsType
  <2>2. \A q \in RunIds : /\ pc'[q] \in Working => pc[q] \in Working
                          /\ pc'[q] = "storing" => pc[q] = "storing"
                          /\ pc[q] # "none" => pc'[q] # "none"
    BY <2>1 DEF Working
  <2>3. ASSUME NEW q \in RunIds, NEW e \in targets[q], job'[q][e] = "storing", result'[q] # "failed"
        PROVE  pc'[q] = "storing"
    <3>1. e \in Dests
      BY DEF RunsInv, RunsType
    <3>2. CASE q = r /\ e = d
      BY <1>5, <2>1, <2>3, <3>2 DEF MayBegin
    <3>3. CASE ~(q = r /\ e = d)
      <4>1. job[q][e] = "storing"
        BY <2>1, <2>3, <3>1, <3>3
      <4> QED
        BY <2>1, <2>3, <4>1 DEF DumpInv
    <3> QED
      BY <3>2, <3>3
  <2>4. alone \subseteq RunIds
    BY DEF RunsInv, RunsType
  <2> QED
    BY <2>1, <2>2, <2>3, <2>4 DEF DumpInv
<1>6. CASE Crash
  <2>1. \A r \in RunIds : pc'[r] \notin Working /\ (pc[r] # "none" => pc'[r] # "none")
    BY <1>6 DEF Crash, Working
  <2>2. \A r \in RunIds : \A d \in Dests : job'[r][d] # "storing"
    BY <1>6 DEF Crash, RunsInv, NoneYet
  <2>3. UNCHANGED <<alone, targets>>
    BY <1>6 DEF Crash
  <2> QED
    BY <2>1, <2>2, <2>3 DEF DumpInv, RunsInv, RunsType, Working
<1>7. ASSUME NEW r \in RunIds, NEW d \in Dests,
             Skip(r, d) \/ StoreStarts(r, d) \/ StoreSucceeds(r, d) \/ StoreFails(r, d) \/ Retained(r, d)
      PROVE  DumpInv'
  <2>1. {"skipped", "storing", "retaining", "error", "thrown", "done"} \subseteq Jobs
    BY DEF Jobs, Ended
  <2>2. CASE StoreStarts(r, d)
    <3>1. Serves(r, d, "storing") /\ (MayBegin(r, d) \/ result[r] = "failed")
      BY <2>2, DestinationSteps DEF CanBegin
    <3> QED
      BY <1>5, <2>1, <3>1
  <2>3. CASE ~StoreStarts(r, d)
    <3>1. \E next \in Jobs : Serves(r, d, next) /\ next # "storing"
      BY <1>7, <2>1, <2>3, DestinationSteps
    <3> QED
      BY <1>5, <3>1
  <2> QED
    BY <2>2, <2>3
<1> QED
  BY <1>1, <1>2, <1>3, <1>4, <1>6, <1>7 DEF Next, RunStep, StartManual, StartScheduled, RunsInv, RunsType

\* A run that no other overlaps finds its dump where it was made as long as a
\* destination stores it (executeRun).
THEOREM LoneRunsKeepTheirDumps == Spec => []DumpsStay
<1>1. Init => DumpInv
  BY DEF Init, DumpInv
<1>2. RunsInv /\ DumpInv => DumpsStay
  BY DEF DumpInv, DumpsStay, RunsInv, RunsType
<1> QED
  BY <1>1, <1>2, RunsInvHolds, NextDumpInv, PTL DEF Spec
-----------------------------------------------------------------------------
\* The registry, what it says of the runs, and where their destinations are.
Registries == [runs : [RunIds -> Snapshots \union {NoSnapshot}], recent : Seq(RunIds)]

Listed(reg, r) == \E i \in 1..Len(reg.recent) : reg.recent[i] = r

RegistryInv ==
    /\ registry \in Registries
    /\ \A r \in RunIds : Registered(registry, r) <=> Listed(registry, r)
    /\ \A r \in RunIds : Registered(registry, r) =>
         IF pc[r] \in Working THEN registry.runs[r].status = "running"
         ELSE pc[r] \in {"over", "unrecorded"} /\ registry.runs[r].status # "running"

\* The destinations of a run and its end: no destination is served after a run
\* whose result was built, and after one that failed only next to one that threw.
EndInv ==
    \A r \in RunIds :
      /\ \A d \in Dests : job[r][d] \in {"storing", "retaining"} =>
           pc[r] = "storing" \/ result[r] = "failed"
      /\ pc[r] \in {"none", "resolving", "storing"} => result[r] = "none"
      /\ pc[r] \in {"notifying", "over", "unrecorded"} => result[r] # "none"
      /\ result[r] = "built" => \A d \in targets[r] : job[r][d] \in Ended
      /\ \A d \in Dests \ targets[r] : job[r][d] \in {"waiting", "lost"}
      /\ ~Fails("throw") =>
           \A d \in Dests : /\ job[r][d] # "thrown"
                            /\ result[r] = "failed" => job[r][d] \in {"waiting", "lost"}

PhaseInv ==
    \A r \in RunIds : Registered(registry, r) =>
      (registry.runs[r].phase \in ActivePhases <=> pc[r] \in Working)

HistoryInv ==
    /\ history \in Seq([run : RunIds, status : Statuses \ {"running"}])
    /\ Len(history) <= MaxHistory
    /\ \A i \in 1..Len(history) : pc[history[i].run] = "over"
    /\ HistoryAgrees
-----------------------------------------------------------------------------
\* The first of some destinations is one of them.
LEMMA FirstIsOne ==
    ASSUME NEW S \in SUBSET Dests, S # {}
    PROVE  First(S) \in S
<1> DEFINE places == {Place[d] : d \in S}
<1>1. places \subseteq Nat /\ places # {}
  BY RegistryAssumption
<1>2. PICK x \in places : \A y \in places : <<y, x>> \notin OpToRel(<, Nat)
  BY <1>1, WFMin, NatLessThanWellFounded, Zenon
<1>3. \A y \in places : y \in Nat /\ x \in Nat
  BY <1>1
<1>4. \A y \in places : ~(y < x)
  BY <1>2, <1>3, Zenon DEF OpToRel
<1>5. \A y \in places : x <= y
  BY <1>3, <1>4
<1>6. \E d \in S : \A e \in S : Place[d] <= Place[e]
  BY <1>5
<1> QED
  BY <1>6, Zenon DEF First

LEMMA FirstResultIsOne ==
    ASSUME NEW S \in SUBSET Dests, S # {}
    PROVE  FirstResult(S) \in S
<1>1. CASE S \subseteq Parallel
  BY <1>1, FirstIsOne DEF FirstResult
<1>2. CASE ~(S \subseteq Parallel)
  <2>1. S \ Parallel \in SUBSET Dests /\ S \ Parallel # {}
    BY <1>2
  <2>2. First(S \ Parallel) \in S \ Parallel
    BY <2>1, FirstIsOne
  <2> QED
    BY <1>2, <2>2 DEF FirstResult
<1> QED
  BY <1>1, <1>2

\* What the operations of the registry do.
LEMMA EventInRegistry ==
    ASSUME NEW reg \in Registries, NEW r \in RunIds, NEW event, NEW d,
           \/ event \in {"run-start", "archiving"}
           \/ d \in Dests /\ event \in {"destination-start", "destination-skipped", "destination-done",
                                        "destination-error"}
    PROVE  LET after == ApplyProgressEvent(reg, r, event, d)
           IN  /\ after \in Registries /\ after.recent = reg.recent
               /\ \A q \in RunIds : Registered(after, q) <=> Registered(reg, q)
               /\ \A q \in RunIds \ {r} : after.runs[q] = reg.runs[q]
               /\ Registered(reg, r) =>
                    /\ after.runs[r].status = reg.runs[r].status
                    /\ after.runs[r].phase \in ActivePhases \union {reg.runs[r].phase}
<1> DEFINE after == ApplyProgressEvent(reg, r, event, d)
           old   == reg.runs[r]
           new   == EventOnSnapshot(old, event, d)
<1>1. CASE ~Registered(reg, r)
  BY <1>1 DEF ApplyProgressEvent
<1>2. CASE Registered(reg, r)
  <2>1. old \in Snapshots
    BY <1>2 DEF Registries, Registered
  <2>2. new \in Snapshots /\ new.status = old.status /\ new.phase \in ActivePhases \union {old.phase}
    <3>1. CASE event \in {"run-start", "archiving"}
      <4>1. new = [old EXCEPT !.phase = PhaseFor(event)] /\ PhaseFor(event) \in {"resolving", "archiving"}
        BY <3>1 DEF EventOnSnapshot, PhaseFor
      <4> QED
        BY <2>1, <4>1 DEF Snapshots, Phases, ActivePhases
    <3>2. CASE event \in {"destination-start", "destination-skipped", "destination-done", "destination-error"}
      <4> DEFINE found == FindDestination(old, d)
                 start == event = "destination-start" /\ found # {}
      <4>1. new = [phase  |-> IF start THEN PhaseFor(event) ELSE old.phase,
                   status |-> old.status,
                   dests  |-> [e \in Dests |-> IF e \in found THEN DestStatusFor(event) ELSE old.dests[e]]]
        BY <3>2 DEF EventOnSnapshot
      <4>2. start => PhaseFor(event) = "uploading"
        BY DEF PhaseFor
      <4>3. DestStatusFor(event) \in DestStatuses
        BY <3>2 DEF DestStatusFor, DestStatuses
      <4> HIDE DEF found, start, new, old
      <4>4. old.phase \in Phases /\ old.status \in Statuses /\ old.dests \in [Dests -> DestStatuses]
        BY <2>1 DEF Snapshots
      <4>5. new.phase \in ActivePhases \union {old.phase} /\ new.phase \in Phases
        BY <4>1, <4>2, <4>4 DEF Phases, ActivePhases
      <4>6. new.dests \in [Dests -> DestStatuses]
        BY <4>1, <4>3, <4>4
      <4>7. new.status = old.status
        BY <4>1
      <4>8. new = [phase |-> new.phase, status |-> new.status, dests |-> new.dests]
        BY <4>1
      <4> QED
        BY <4>4, <4>5, <4>6, <4>7, <4>8 DEF Snapshots
    <3> QED
      BY <3>1, <3>2
  <2>3. after = [reg EXCEPT !.runs[r] = new]
    BY <1>2 DEF ApplyProgressEvent
  <2>4. /\ after \in Registries /\ after.recent = reg.recent /\ after.runs[r] = new
        /\ \A q \in RunIds \ {r} : after.runs[q] = reg.runs[q]
    BY <2>2, <2>3 DEF Registries
  <2> QED
    BY <1>2, <2>2, <2>4, RegistryAssumption DEF Registered
<1> QED
  BY <1>1, <1>2

\* Settling replaces the snapshot of the run by one that is not running.
SettlesTo(reg, after, r, status) ==
    /\ after \in Registries /\ after.recent = reg.recent
    /\ \A q \in RunIds : Registered(after, q) <=> Registered(reg, q)
    /\ \A q \in RunIds \ {r} : after.runs[q] = reg.runs[q]
    /\ Registered(reg, r) =>
         after.runs[r].status = status /\ after.runs[r].phase \in {"completed", "failed"}

LEMMA StatusOfOutcomes ==
    ASSUME NEW success, NEW outcomes
    PROVE  DeriveRunStatus(success, outcomes) \in Statuses \ {"running"}
BY DEF DeriveRunStatus, Statuses

\* What the snapshot says of a destination once its run is settled.
Told(dests, d, outcomes) ==
    \/ dests[d] = "absent"
    \/ \A e \in DOMAIN outcomes : ~Matches(e, d)
    \/ \E e \in DOMAIN outcomes : Matches(e, d) /\ dests[d] = outcomes[e]

LEMMA CompleteInRegistry ==
    ASSUME NEW reg \in Registries, NEW r \in RunIds, NEW success \in BOOLEAN, NEW outcomes,
           DOMAIN outcomes \subseteq Dests, \A d \in DOMAIN outcomes : outcomes[d] \in DestStatuses
    PROVE  /\ SettlesTo(reg, CompleteRun(reg, r, success, outcomes), r, DeriveRunStatus(success, outcomes))
           /\ Registered(reg, r) =>
                \A d \in Dests : Told(CompleteRun(reg, r, success, outcomes).runs[r].dests, d, outcomes)
<1> DEFINE after == CompleteRun(reg, r, success, outcomes)
           old   == reg.runs[r]
           new   == [phase  |-> IF success THEN "completed" ELSE "failed",
                     status |-> DeriveRunStatus(success, outcomes),
                     dests  |-> SettleDestinations(old.dests, outcomes)]
           told(d) == {e \in DOMAIN outcomes : Matches(e, d)}
<1>1. CASE ~Registered(reg, r)
  BY <1>1 DEF CompleteRun, SettlesTo
<1>2. CASE Registered(reg, r)
  <2>1. old \in Snapshots
    BY <1>2 DEF Registries, Registered
  <2>2. \A d \in Dests : new.dests[d] = IF old.dests[d] = "absent" \/ told(d) = {}
                                          THEN old.dests[d] ELSE outcomes[FirstResult(told(d))]
    BY DEF SettleDestinations
  <2>3. \A d \in Dests : told(d) # {} => FirstResult(told(d)) \in told(d)
    BY FirstResultIsOne
  <2>4. new.dests \in [Dests -> DestStatuses]
    <3>1. new.dests = [d \in Dests |-> new.dests[d]]
      BY DEF SettleDestinations
    <3>2. old.dests \in [Dests -> DestStatuses]
      BY <2>1 DEF Snapshots
    <3>3. \A d \in Dests : new.dests[d] \in DestStatuses
      BY <2>2, <2>3, <3>2
    <3> HIDE DEF new
    <3> QED
      BY <3>1, <3>3
  <2>5. \A d \in Dests : Told(new.dests, d, outcomes)
    <3> SUFFICES ASSUME NEW d \in Dests PROVE Told(new.dests, d, outcomes)
      OBVIOUS
    <3>1. CASE old.dests[d] = "absent" \/ told(d) = {}
      BY <2>2, <3>1 DEF Told
    <3>2. CASE ~(old.dests[d] = "absent" \/ told(d) = {})
      BY <2>2, <2>3, <3>2 DEF Told
    <3> QED
      BY <3>1, <3>2
  <2>6. new \in Snapshots
    BY <2>4, StatusOfOutcomes DEF Snapshots, Phases
  <2>7. after = [reg EXCEPT !.runs[r] = new]
    BY <1>2 DEF CompleteRun
  <2>8. /\ after \in Registries /\ after.recent = reg.recent /\ after.runs[r] = new
        /\ \A q \in RunIds \ {r} : after.runs[q] = reg.runs[q]
    BY <2>6, <2>7 DEF Registries
  <2>9. new # NoSnapshot
    BY <2>6, RegistryAssumption
  <2>10. \A q \in RunIds : Registered(after, q) <=> Registered(reg, q)
    BY <1>2, <2>8, <2>9 DEF Registered
  <2> QED
    BY <1>2, <2>5, <2>8, <2>10 DEF SettlesTo
<1> QED
  BY <1>1, <1>2

LEMMA FailInRegistry ==
    ASSUME NEW reg \in Registries, NEW r \in RunIds
    PROVE  /\ SettlesTo(reg, FailRun(reg, r), r, "failed")
           /\ Registered(reg, r) => FailRun(reg, r).runs[r].dests = reg.runs[r].dests
<1> DEFINE new == [reg.runs[r] EXCEPT !.phase = "failed", !.status = "failed"]
<1>1. CASE ~Registered(reg, r)
  BY <1>1 DEF FailRun, SettlesTo
<1>2. CASE Registered(reg, r)
  <2>1. reg.runs[r] \in Snapshots
    BY <1>2 DEF Registries, Registered
  <2>2. new \in Snapshots /\ new.phase = "failed" /\ new.status = "failed" /\ new.dests = reg.runs[r].dests
    BY <2>1 DEF Snapshots, Phases, Statuses
  <2>3. FailRun(reg, r) = [reg EXCEPT !.runs[r] = new]
    BY <1>2 DEF FailRun, Registries
  <2>4. /\ FailRun(reg, r) \in Registries /\ FailRun(reg, r).recent = reg.recent
        /\ FailRun(reg, r).runs[r] = new
        /\ \A q \in RunIds \ {r} : FailRun(reg, r).runs[q] = reg.runs[q]
    <3> HIDE DEF new
    <3> QED
      BY <2>2, <2>3 DEF Registries
  <2>5. new # NoSnapshot
    BY <2>2, RegistryAssumption
  <2>6. \A q \in RunIds : Registered(FailRun(reg, r), q) <=> Registered(reg, q)
    BY <1>2, <2>4, <2>5 DEF Registered
  <2> QED
    BY <1>2, <2>2, <2>4, <2>6 DEF SettlesTo
<1> QED
  BY <1>1, <1>2

\* A run that starts is the newest, and makes the registry forget others.
LEMMA StartInRegistry ==
    ASSUME NEW reg \in Registries, \A q \in RunIds : Registered(reg, q) <=> Listed(reg, q),
           NEW r \in RunIds, NEW dests
    PROVE  LET after == StartRun(reg, r, dests)
           IN  /\ after \in Registries
               /\ \A q \in RunIds : Registered(after, q) <=> Listed(after, q)
               /\ Registered(after, r)
               /\ after.runs[r].status = "running" /\ after.runs[r].phase = "queued"
               /\ \A q \in RunIds \ {r} : Registered(after, q) => after.runs[q] = reg.runs[q]
<1> DEFINE after    == StartRun(reg, r, dests)
           snapshot == [phase |-> "queued", status |-> "running",
                        dests |-> [d \in Dests |-> IF d \in dests THEN "pending" ELSE "absent"]]
           recent   == <<r>> \o reg.recent
           kept     == SubSeq(recent, 1, IF Len(recent) > MaxRecentRuns THEN MaxRecentRuns ELSE Len(recent))
<1>1. snapshot \in Snapshots /\ snapshot # NoSnapshot
  <2>1. snapshot \in Snapshots
    BY DEF Snapshots, Phases, ActivePhases, Statuses, DestStatuses
  <2> QED
    BY <2>1, RegistryAssumption
<1>2. reg.recent \in Seq(RunIds) /\ reg.runs \in [RunIds -> Snapshots \union {NoSnapshot}]
  BY DEF Registries
<1>3. /\ recent \in Seq(RunIds) /\ Len(recent) = 1 + Len(reg.recent) /\ recent[1] = r
      /\ \A i \in 2..Len(recent) : i - 1 \in 1..Len(reg.recent) /\ recent[i] = reg.recent[i - 1]
  BY <1>2
<1>4. /\ kept \in Seq(RunIds) /\ Len(kept) \in 1..Len(recent)
      /\ \A i \in 1..Len(kept) : kept[i] = recent[i]
  BY <1>3, RegistryAssumption
<1>5. after.recent = kept
  BY DEF StartRun
<1>6. \A q \in RunIds :
        after.runs[q] = IF q = r THEN snapshot
                        ELSE IF \E i \in 1..Len(kept) : kept[i] = q THEN reg.runs[q] ELSE NoSnapshot
  BY DEF StartRun
<1>7. \A q \in RunIds \ {r} : (\E i \in 1..Len(kept) : kept[i] = q) => Listed(reg, q)
  BY <1>3, <1>4 DEF Listed
<1>8. \E i \in 1..Len(kept) : kept[i] = r
  BY <1>3, <1>4
<1>9. after \in Registries
  <2>1. after = [runs |-> after.runs, recent |-> kept]
    BY DEF StartRun
  <2>2. after.runs \in [RunIds -> Snapshots \union {NoSnapshot}]
    BY <1>1, <1>2 DEF StartRun
  <2> HIDE DEF after, kept
  <2> QED
    BY <1>4, <2>1, <2>2 DEF Registries
<1>10. ASSUME NEW q \in RunIds PROVE Registered(after, q) <=> Listed(after, q)
  <2>1. Listed(after, q) <=> \E i \in 1..Len(kept) : kept[i] = q
    BY <1>5, Zenon DEF Listed
  <2>2. CASE q = r
    BY <1>1, <1>6, <1>8, <2>1, <2>2, Zenon DEF Registered
  <2>3. CASE q # r /\ Listed(after, q)
    <3>1. after.runs[q] = reg.runs[q] /\ Registered(reg, q)
      BY <1>6, <1>7, <2>1, <2>3, Zenon
    <3> QED
      BY <2>3, <3>1 DEF Registered
  <2>4. CASE q # r /\ ~Listed(after, q)
    BY <1>6, <2>1, <2>4, Zenon DEF Registered
  <2> QED
    BY <2>2, <2>3, <2>4
<1> QED
  BY <1>1, <1>6, <1>9, <1>10 DEF Registered
-----------------------------------------------------------------------------
\* The ends of the runs.
LEMMA InitEndInv == Init => EndInv
BY DEF Init, EndInv

\* What a step of a destination may rely on, and where it leads.
LEMMA DestinationMoves ==
    ASSUME RunsInv, EndInv, NEW r \in RunIds, NEW d \in Dests,
           Skip(r, d) \/ StoreStarts(r, d) \/ StoreSucceeds(r, d) \/ StoreFails(r, d) \/ Retained(r, d)
    PROVE  /\ d \in targets[r] /\ job[r][d] \in {"waiting", "storing", "retaining"}
           /\ pc[r] = "storing" \/ result[r] = "failed"
           /\ ~Fails("throw") => pc[r] = "storing"
           /\ \E next \in Jobs \ {"waiting", "lost"} :
                Serves(r, d, next) /\ (next = "thrown" => Fails("throw"))
<1>1. {"skipped", "storing", "retaining", "error", "thrown", "done"} \subseteq Jobs \ {"waiting", "lost"}
  BY DEF Jobs, Ended
<1>2. CASE CanBegin(r, d)
  <2>1. d \in targets[r] /\ job[r][d] = "waiting"
    BY <1>2, ItsTurn
  <2>2. \E next \in {"skipped", "storing"} : Serves(r, d, next)
    BY <2>1, DestinationSteps
  <2>3. ~Fails("throw") => \A e \in targets[r] : job[r][e] # "thrown"
    BY DEF EndInv, RunsInv, RunsType
  <2>4. (pc[r] = "storing" \/ result[r] = "failed") /\ (~Fails("throw") => pc[r] = "storing")
    BY <1>2, <2>3 DEF CanBegin, MayBegin
  <2>5. \E next \in Jobs \ {"waiting", "lost"} : Serves(r, d, next) /\ (next = "thrown" => Fails("throw"))
    BY <1>1, <2>2
  <2> QED
    BY <2>1, <2>4, <2>5
<1>3. CASE job[r][d] \in {"storing", "retaining"}
  <2>1. d \in targets[r] /\ (pc[r] = "storing" \/ result[r] = "failed")
    BY <1>3 DEF EndInv
  <2>2. ~Fails("throw") => pc[r] = "storing"
    BY <1>3, <2>1 DEF EndInv
  <2>3. ~CanBegin(r, d)
    BY <1>3, ItsTurn
  <2>4. \E next \in {"retaining", "error", "thrown", "done"} :
          Serves(r, d, next) /\ (next = "thrown" => Fails("throw"))
    BY <2>3 DEF Skip, StoreStarts, StoreSucceeds, StoreFails, Retained, Announce, Throws, Serves
  <2> QED
    BY <1>1, <1>3, <2>1, <2>2, <2>4
<1> QED
  BY <1>2, <1>3, DestinationSteps

LEMMA NextEndInv == RunsInv /\ EndInv /\ [Next]_vars => EndInv'
<1> SUFFICES ASSUME RunsInv, EndInv, [Next]_vars PROVE EndInv'
  OBVIOUS
<1>1. CASE UNCHANGED vars \/ \E d \in Editable : EditConfig(d)
  <2>1. UNCHANGED <<pc, targets, job, result>>
    BY <1>1 DEF vars, stage, EditConfig
  <2> QED
    BY <2>1 DEF EndInv
<1>2. ASSUME NEW r \in RunIds, NEW destinations, Start(r, destinations) PROVE EndInv'
  <2>1. /\ pc[r] = "none" /\ pc'[r] = "resolving" /\ UNCHANGED <<job, result>>
        /\ \A q \in RunIds \ {r} : pc'[q] = pc[q] /\ targets'[q] = targets[q]
    BY <1>2 DEF Start, RunsInv, RunsType
  <2>2. result[r] = "none" /\ \A d \in Dests : job[r][d] = "waiting"
    BY <2>1 DEF EndInv, RunsInv, NoneYet
  <2> QED
    BY <2>1, <2>2 DEF EndInv
<1>3. ASSUME NEW r \in RunIds, Resolve(r) \/ ResolveNothing(r)
      PROVE  EndInv'
  <2>1. /\ pc[r] = "resolving" /\ UNCHANGED <<job, targets>>
        /\ \A q \in RunIds \ {r} : pc'[q] = pc[q] /\ result'[q] = result[q]
        /\ \/ pc'[r] = "storing" /\ result'[r] = result[r]
           \/ pc'[r] = "notifying" /\ result'[r] = "failed"
    BY <1>3 DEF Resolve, ResolveNothing, RunsInv, RunsType
  <2>2. result[r] = "none" /\ \A d \in Dests : job[r][d] = "waiting"
    BY <2>1 DEF EndInv, RunsInv, NoneYet
  <2> QED
    BY <2>1, <2>2 DEF EndInv
<1>4. ASSUME NEW r \in RunIds, AllEnded(r) PROVE EndInv'
  <2>1. /\ pc[r] = "storing" /\ UNCHANGED <<job, targets>>
        /\ \A q \in RunIds \ {r} : pc'[q] = pc[q] /\ result'[q] = result[q]
        /\ pc'[r] = "notifying" /\ result'[r] = "built"
        /\ \A d \in targets[r] : job[r][d] \in Ended
    BY <1>4 DEF AllEnded, RunsInv, RunsType
  <2>2. \A d \in Dests : job[r][d] \notin {"storing", "retaining"}
    BY <2>1 DEF EndInv, Ended
  <2> QED
    BY <2>1, <2>2 DEF EndInv
<1>5. ASSUME NEW r \in RunIds, Settle(r) \/ SettleUnrecorded(r) PROVE EndInv'
  <2>1. /\ pc[r] = "notifying" /\ UNCHANGED <<job, targets, result>>
        /\ \A q \in RunIds \ {r} : pc'[q] = pc[q]
        /\ pc'[r] \in {"over", "unrecorded"}
    BY <1>5 DEF Settle, SettleUnrecorded, RunsInv, RunsType
  <2> QED
    BY <2>1 DEF EndInv
<1>6. ASSUME NEW r \in RunIds, NEW d \in Dests,
             Skip(r, d) \/ StoreStarts(r, d) \/ StoreSucceeds(r, d) \/ StoreFails(r, d) \/ Retained(r, d)
      PROVE  EndInv'
  <2>1. PICK next \in Jobs \ {"waiting", "lost"} :
          Serves(r, d, next) /\ (next = "thrown" => Fails("throw"))
    BY <1>6, DestinationMoves
  <2>2. /\ UNCHANGED targets
        /\ \A q \in RunIds \ {r} : pc'[q] = pc[q] /\ result'[q] = result[q] /\ job'[q] = job[q]
        /\ job'[r][d] = next /\ \A e \in Dests \ {d} : job'[r][e] = job[r][e]
        /\ \/ pc'[r] = pc[r] /\ result'[r] = result[r]
           \/ next = "thrown" /\ pc[r] = "storing" /\ pc'[r] = "notifying" /\ result'[r] = "failed"
    BY <2>1 DEF Serves, RunsInv, RunsType
  <2>3. /\ d \in targets[r] /\ job[r][d] \notin Ended
        /\ pc[r] = "storing" \/ result[r] = "failed"
        /\ ~Fails("throw") => pc[r] = "storing"
    BY <1>6, DestinationMoves DEF Ended
  <2>4. result[r] # "built" /\ (~Fails("throw") => result[r] = "none")
    BY <2>3 DEF EndInv
  <2> QED
    BY <2>1, <2>2, <2>3, <2>4 DEF EndInv
<1>7. CASE Crash
  <2>1. /\ UNCHANGED <<targets, result>>
        /\ \A r \in RunIds : pc'[r] = IF pc[r] \in Working THEN "lost" ELSE pc[r]
        /\ \A r \in RunIds : \A d \in Dests :
             job'[r][d] = IF pc[r] # "none" /\ job[r][d] \in {"waiting", "storing", "retaining"}
                            THEN "lost" ELSE job[r][d]
    BY <1>7 DEF Crash
  <2>2. \A r \in RunIds : targets[r] \subseteq Dests
    BY DEF RunsInv, RunsType
  <2>3. \A r \in RunIds : pc[r] = "none" => \A d \in Dests : job[r][d] = "waiting"
    BY DEF RunsInv, NoneYet
  <2> QED
    BY <2>1, <2>2, <2>3 DEF EndInv, Working, Ended
<1> QED
  BY <1>1, <1>2, <1>3, <1>4, <1>5, <1>6, <1>7 DEF Next, RunStep, StartManual, StartScheduled
-----------------------------------------------------------------------------
\* A step of the run r between its start and its settling: what it may change.
Progress(r) ==
    /\ registry' \in Registries /\ registry'.recent = registry.recent
    /\ \A q \in RunIds : Registered(registry', q) <=> Registered(registry, q)
    /\ \A q \in RunIds \ {r} : registry'.runs[q] = registry.runs[q]
    /\ Registered(registry, r) => registry'.runs[r].status = registry.runs[r].status
    /\ UNCHANGED <<targets, history, lost>>
    /\ \A q \in RunIds \ {r} : /\ pc'[q] = pc[q] /\ job'[q] = job[q] /\ result'[q] = result[q]
                               /\ q \in troubled' <=> q \in troubled
    /\ \/ pc[r] \in Working /\ pc'[r] \in Working
       \/ pc'[r] = pc[r] /\ result[r] = "failed" /\ result'[r] = result[r]
    /\ ~Fails("throw") =>
         /\ pc[r] \in Working
         /\ Registered(registry, r) =>
              registry'.runs[r].phase \in ActivePhases \union {registry.runs[r].phase}

\* The registry after a step is the one before it, or has seen an event.
LEMMA RegistryProgress ==
    ASSUME registry \in Registries, NEW r \in RunIds,
           \/ registry' = registry
           \/ \E event \in {"run-start", "archiving"}, d \in Dests \union {NoOne} :
                registry' = ApplyProgressEvent(registry, r, event, d)
           \/ \E event \in {"destination-start", "destination-skipped", "destination-done", "destination-error"},
                 d \in Dests : registry' = ApplyProgressEvent(registry, r, event, d)
    PROVE  /\ registry' \in Registries /\ registry'.recent = registry.recent
           /\ \A q \in RunIds : Registered(registry', q) <=> Registered(registry, q)
           /\ \A q \in RunIds \ {r} : registry'.runs[q] = registry.runs[q]
           /\ Registered(registry, r) =>
                /\ registry'.runs[r].status = registry.runs[r].status
                /\ registry'.runs[r].phase \in ActivePhases \union {registry.runs[r].phase}
<1>1. CASE registry' = registry
  BY <1>1
<1>2. ASSUME NEW event, NEW d,
             \/ event \in {"run-start", "archiving"}
             \/ d \in Dests /\ event \in {"destination-start", "destination-skipped", "destination-done",
                                          "destination-error"},
             registry' = ApplyProgressEvent(registry, r, event, d)
      PROVE  /\ registry' \in Registries /\ registry'.recent = registry.recent
             /\ \A q \in RunIds : Registered(registry', q) <=> Registered(registry, q)
             /\ \A q \in RunIds \ {r} : registry'.runs[q] = registry.runs[q]
             /\ Registered(registry, r) =>
                  /\ registry'.runs[r].status = registry.runs[r].status
                  /\ registry'.runs[r].phase \in ActivePhases \union {registry.runs[r].phase}
  BY <1>2, EventInRegistry
<1> QED
  BY <1>1, <1>2

LEMMA ProgressSteps ==
    ASSUME RunsInv, EndInv, registry \in Registries, NEW r \in RunIds,
           \/ Resolve(r) \/ ResolveNothing(r) \/ AllEnded(r)
           \/ \E d \in Dests : \/ Skip(r, d) \/ StoreStarts(r, d) \/ StoreSucceeds(r, d)
                               \/ StoreFails(r, d) \/ Retained(r, d)
    PROVE  Progress(r)
<1>1. CASE Resolve(r) \/ ResolveNothing(r) \/ AllEnded(r)
  <2>1. \/ registry' = registry
        \/ registry' = ApplyProgressEvent(registry, r, "archiving", NoOne)
    BY <1>1 DEF Resolve, ResolveNothing, AllEnded
  <2>2. /\ pc[r] \in Working /\ pc'[r] \in Working /\ UNCHANGED <<targets, history, lost, job>>
        /\ \A q \in RunIds \ {r} : /\ pc'[q] = pc[q] /\ result'[q] = result[q]
                                   /\ q \in troubled' <=> q \in troubled
    BY <1>1 DEF Resolve, ResolveNothing, AllEnded, RunsInv, RunsType, Working
  <2> QED
    BY <2>1, <2>2, RegistryProgress DEF Progress
<1>2. ASSUME NEW d \in Dests,
             Skip(r, d) \/ StoreStarts(r, d) \/ StoreSucceeds(r, d) \/ StoreFails(r, d) \/ Retained(r, d)
      PROVE  Progress(r)
  <2>1. \/ registry' = registry
        \/ \E event \in {"destination-start", "destination-skipped", "destination-done", "destination-error"} :
             registry' = ApplyProgressEvent(registry, r, event, d)
    BY <1>2 DEF Skip, StoreStarts, StoreSucceeds, StoreFails, Retained, Announce
  <2>2. /\ UNCHANGED <<targets, history, lost>>
        /\ \A q \in RunIds \ {r} : q \in troubled' <=> q \in troubled
    BY <1>2 DEF Skip, StoreStarts, StoreSucceeds, StoreFails, Retained, Announce
  <2>3. PICK next : Serves(r, d, next)
    BY <1>2, DestinationMoves
  <2>4. /\ \A q \in RunIds \ {r} : pc'[q] = pc[q] /\ result'[q] = result[q] /\ job'[q] = job[q]
        /\ \/ pc'[r] = pc[r] /\ result'[r] = result[r]
           \/ pc[r] = "storing" /\ pc'[r] = "notifying" /\ result'[r] = "failed"
    BY <2>3 DEF Serves, RunsInv, RunsType
  <2>5. (pc[r] = "storing" \/ result[r] = "failed") /\ (~Fails("throw") => pc[r] = "storing")
    BY <1>2, DestinationMoves
  <2>6. \/ pc[r] \in Working /\ pc'[r] \in Working
        \/ pc'[r] = pc[r] /\ result[r] = "failed" /\ result'[r] = result[r]
    BY <2>4, <2>5 DEF Working
  <2>7. ~Fails("throw") => pc[r] \in Working
    BY <2>5 DEF Working
  <2> QED
    BY <2>1, <2>2, <2>4, <2>6, <2>7, RegistryProgress DEF Progress
<1> QED
  BY <1>1, <1>2

\* What a run that settles leaves in the registry.
Status(r) == DeriveRunStatus(Succeeded(r), Outcomes(r))

LEMMA SettleSteps ==
    ASSUME RunsInv, EndInv, registry \in Registries, NEW r \in RunIds,
           Settle(r) \/ SettleUnrecorded(r)
    PROVE  /\ pc[r] = "notifying" /\ UNCHANGED <<targets, job, troubled, result>>
           /\ \A q \in RunIds \ {r} : pc'[q] = pc[q]
           /\ \/ pc'[r] = "over" /\ Settle(r) /\ SettlesTo(registry, registry', r, Status(r))
              \/ /\ pc'[r] = "unrecorded" /\ (HistoryStays \/ HistoryIsLost)
                 /\ \/ SettlesTo(registry, registry', r, Status(r))
                    \/ SettlesTo(registry, registry', r, "failed")
           /\ Registered(registry, r) =>
                \A d \in Dests : Told(registry'.runs[r].dests, d, Outcomes(r))
<1> DEFINE completed == CompleteRun(registry, r, Succeeded(r), Outcomes(r))
<1>1. Succeeded(r) \in BOOLEAN
  BY DEF Succeeded
<1>2. /\ DOMAIN Outcomes(r) \subseteq Dests
      /\ \A d \in DOMAIN Outcomes(r) : Outcomes(r)[d] \in DestStatuses
  BY DEF Outcomes, EndInv, Ended, DestStatuses, RunsInv, RunsType
<1>3. /\ SettlesTo(registry, completed, r, Status(r))
      /\ Registered(registry, r) =>
           \A d \in Dests : Told(completed.runs[r].dests, d, Outcomes(r))
  BY <1>1, <1>2, CompleteInRegistry DEF Status
<1>4. /\ pc[r] = "notifying" /\ UNCHANGED <<targets, job, troubled, result>>
      /\ \A q \in RunIds \ {r} : pc'[q] = pc[q]
      /\ \/ Settle(r) /\ pc'[r] = "over" /\ registry' = completed
         \/ /\ pc'[r] = "unrecorded" /\ (HistoryStays \/ HistoryIsLost)
            /\ registry' = completed \/ registry' = FailRun(completed, r)
  BY DEF Settle, SettleUnrecorded, RunsInv, RunsType
<1> HIDE DEF completed
<1>5. CASE registry' = completed
  BY <1>3, <1>4, <1>5
<1>6. CASE registry' = FailRun(completed, r) /\ pc'[r] = "unrecorded"
  <2>1. completed \in Registries /\ (Registered(completed, r) <=> Registered(registry, r))
    BY <1>3 DEF SettlesTo
  <2>2. /\ SettlesTo(completed, registry', r, "failed")
        /\ Registered(completed, r) => registry'.runs[r].dests = completed.runs[r].dests
    BY <1>6, <2>1, FailInRegistry
  <2>3. SettlesTo(registry, registry', r, "failed")
    BY <1>3, <2>2 DEF SettlesTo
  <2> QED
    BY <1>3, <1>4, <1>6, <2>1, <2>2, <2>3
<1> QED
  BY <1>4, <1>5, <1>6
-----------------------------------------------------------------------------
\* Every step is one of five kinds.
LEMMA StepKinds ==
    ASSUME RunsInv, EndInv, registry \in Registries, [Next]_vars
    PROVE  \/ UNCHANGED <<registry, pc, targets, job, result, troubled, history, lost>>
           \/ \E r \in RunIds : \E destinations \in SUBSET Dests : Start(r, destinations)
           \/ \E r \in RunIds : Progress(r)
           \/ \E r \in RunIds : Settle(r) \/ SettleUnrecorded(r)
           \/ Crash
<1>1. CASE UNCHANGED vars \/ \E d \in Editable : EditConfig(d)
  BY <1>1 DEF vars, stage, EditConfig
<1>2. ASSUME NEW r \in RunIds, StartManual(r) \/ StartScheduled(r)
      PROVE  \E destinations \in SUBSET Dests : Start(r, destinations)
  BY <1>2 DEF StartManual, StartScheduled, RunsInv, RunsType
<1>3. ASSUME NEW r \in RunIds, RunStep(r) PROVE Progress(r) \/ Settle(r) \/ SettleUnrecorded(r)
  BY <1>3, ProgressSteps DEF RunStep
<1> QED
  BY <1>1, <1>2, <1>3 DEF Next

LEMMA InitRegistryInv == Init => RegistryInv
<1> SUFFICES ASSUME Init PROVE RegistryInv
  OBVIOUS
<1>1. registry = EmptyRegistry
  BY DEF Init
<1> QED
  BY <1>1 DEF RegistryInv, Registries, EmptyRegistry, Registered, Listed

LEMMA StartStep ==
    ASSUME RunsInv, RegistryInv, NEW r \in RunIds, NEW destinations, Start(r, destinations)
    PROVE  /\ pc[r] = "none" /\ pc'[r] = "resolving" /\ \A q \in RunIds \ {r} : pc'[q] = pc[q]
           /\ ~Registered(registry, r) /\ UNCHANGED <<job, troubled, result, history, lost>>
           /\ \A q \in RunIds \ {r} : targets'[q] = targets[q]
           /\ registry' \in Registries
           /\ \A q \in RunIds : Registered(registry', q) <=> Listed(registry', q)
           /\ Registered(registry', r)
           /\ registry'.runs[r].status = "running" /\ registry'.runs[r].phase \in ActivePhases
           /\ \A q \in RunIds \ {r} : Registered(registry', q) =>
                registry'.runs[q] = registry.runs[q] /\ Registered(registry, q)
<1> DEFINE started == StartRun(registry, r, config)
<1>1. /\ pc[r] = "none" /\ pc'[r] = "resolving" /\ \A q \in RunIds \ {r} : pc'[q] = pc[q]
      /\ \A q \in RunIds \ {r} : targets'[q] = targets[q]
      /\ UNCHANGED <<job, troubled, result, history, lost>>
      /\ registry' = ApplyProgressEvent(started, r, "run-start", NoOne)
  BY DEF Start, RunsInv, RunsType
<1>2. ~Registered(registry, r)
  BY <1>1 DEF RegistryInv, Working
<1>3. /\ started \in Registries
      /\ \A q \in RunIds : Registered(started, q) <=> Listed(started, q)
      /\ Registered(started, r)
      /\ started.runs[r].status = "running" /\ started.runs[r].phase = "queued"
      /\ \A q \in RunIds \ {r} : Registered(started, q) => started.runs[q] = registry.runs[q]
  BY StartInRegistry DEF RegistryInv
<1> HIDE DEF started
<1>4. /\ registry' \in Registries /\ registry'.recent = started.recent
      /\ \A q \in RunIds : Registered(registry', q) <=> Registered(started, q)
      /\ \A q \in RunIds \ {r} : registry'.runs[q] = started.runs[q]
      /\ registry'.runs[r].status = started.runs[r].status
      /\ registry'.runs[r].phase \in ActivePhases \union {started.runs[r].phase}
  BY <1>1, <1>3, EventInRegistry
<1>5. \A q \in RunIds : Listed(registry', q) <=> Listed(started, q)
  BY <1>4 DEF Listed
<1>6. registry'.runs[r].phase \in ActivePhases
  BY <1>3, <1>4 DEF ActivePhases
<1>7. \A q \in RunIds \ {r} : Registered(registry', q) =>
        registry'.runs[q] = registry.runs[q] /\ Registered(registry, q)
  BY <1>3, <1>4 DEF Registered
<1> QED
  BY <1>1, <1>2, <1>3, <1>4, <1>5, <1>6, <1>7

LEMMA NextRegistryInv ==
    ASSUME RunsInv, EndInv, RegistryInv, [Next]_vars
    PROVE  RegistryInv'
<1> USE DEF RegistryInv
<1>1. CASE UNCHANGED <<registry, pc, targets, job, result, troubled, history, lost>>
  BY <1>1 DEF Registered, Listed
<1>2. ASSUME NEW r \in RunIds, NEW destinations \in SUBSET Dests, Start(r, destinations)
      PROVE  RegistryInv'
  <2>1. ASSUME NEW q \in RunIds, Registered(registry', q)
        PROVE  IF pc'[q] \in Working THEN registry'.runs[q].status = "running"
               ELSE pc'[q] \in {"over", "unrecorded"} /\ registry'.runs[q].status # "running"
    BY <1>2, <2>1, StartStep DEF Working
  <2> QED
    BY <1>2, <2>1, StartStep DEF Registered, Listed
<1>3. ASSUME NEW r \in RunIds, Progress(r) PROVE RegistryInv'
  <2>1. /\ registry' \in Registries /\ registry'.recent = registry.recent
        /\ \A q \in RunIds : Registered(registry', q) <=> Registered(registry, q)
        /\ \A q \in RunIds : Registered(registry, q) => registry'.runs[q].status = registry.runs[q].status
        /\ \A q \in RunIds : pc'[q] = pc[q] \/ (pc[q] \in Working /\ pc'[q] \in Working)
    BY <1>3 DEF Progress
  <2> QED
    BY <2>1 DEF Registered, Listed
<1>4. ASSUME NEW r \in RunIds, Settle(r) \/ SettleUnrecorded(r) PROVE RegistryInv'
  <2>1. PICK status \in Statuses \ {"running"} : SettlesTo(registry, registry', r, status)
    <3>1. Status(r) \in Statuses \ {"running"} /\ "failed" \in Statuses \ {"running"}
      BY StatusOfOutcomes DEF Status, Statuses
    <3> QED
      BY <1>4, <3>1, SettleSteps
  <2>2. pc'[r] \in {"over", "unrecorded"} /\ \A q \in RunIds \ {r} : pc'[q] = pc[q]
    BY <1>4, SettleSteps
  <2>3. /\ registry' \in Registries /\ registry'.recent = registry.recent
        /\ \A q \in RunIds : Registered(registry', q) <=> Registered(registry, q)
        /\ \A q \in RunIds \ {r} : registry'.runs[q] = registry.runs[q]
        /\ Registered(registry, r) => registry'.runs[r].status # "running"
    BY <2>1 DEF SettlesTo
  <2>4. ASSUME NEW q \in RunIds, Registered(registry', q)
        PROVE  IF pc'[q] \in Working THEN registry'.runs[q].status = "running"
               ELSE pc'[q] \in {"over", "unrecorded"} /\ registry'.runs[q].status # "running"
    BY <2>2, <2>3, <2>4 DEF Working
  <2>5. \A q \in RunIds : Registered(registry', q) <=> Listed(registry', q)
    BY <2>3 DEF Listed
  <2> QED
    BY <2>3, <2>4, <2>5 DEF Registered, Listed
<1>5. CASE Crash
  <2>1. registry' = EmptyRegistry
    BY <1>5 DEF Crash
  <2> QED
    BY <2>1 DEF Registries, EmptyRegistry, Registered, Listed
<1> QED
  BY <1>1, <1>2, <1>3, <1>4, <1>5, StepKinds

\* The runs, their destinations and the registry.
RunsAndRegistry == RunsInv /\ EndInv /\ RegistryInv

LEMMA RunsAndRegistryHold == Spec => []RunsAndRegistry
<1>1. Init => RunsAndRegistry
  BY InitRunsInv, InitEndInv, InitRegistryInv DEF RunsAndRegistry
<1>2. RunsAndRegistry /\ [Next]_vars => RunsAndRegistry'
  BY NextRunsInv, NextEndInv, NextRegistryInv DEF RunsAndRegistry
<1> QED
  BY <1>1, <1>2, PTL DEF Spec
-----------------------------------------------------------------------------
\* The status of a run is derived from its destinations and its own errors.
LEMMA StatusTells ==
    ASSUME NEW r \in RunIds, result[r] = "built" => \A d \in targets[r] : job[r][d] \in Ended
    PROVE  LET stored == {d \in targets[r] : job[r][d] \in {"skipped", "done"}}
           IN  /\ result[r] = "failed" => Status(r) = "failed"
               /\ result[r] = "built" =>
                    /\ Status(r) = "success" => stored = targets[r] /\ r \notin troubled
                    /\ Status(r) = "skipped" => stored = targets[r] /\ \A d \in targets[r] : job[r][d] = "skipped"
                    /\ Status(r) = "partial" => stored # {} /\ (stored # targets[r] \/ r \in troubled)
<1> DEFINE stored  == {d \in targets[r] : job[r][d] \in {"skipped", "done"}}
           results == {job[r][d] : d \in targets[r]}
<1>1. ASSUME result[r] = "failed" PROVE Status(r) = "failed"
  <2>1. ~Succeeded(r) /\ DOMAIN Outcomes(r) = {}
    BY <1>1 DEF Succeeded, Outcomes
  <2>2. {Outcomes(r)[d] : d \in DOMAIN Outcomes(r)} = {}
    BY <2>1
  <2> QED
    BY <2>1, <2>2 DEF Status, DeriveRunStatus
<1>2. ASSUME result[r] = "built"
      PROVE  /\ Status(r) = "success" => stored = targets[r] /\ r \notin troubled
             /\ Status(r) = "skipped" => stored = targets[r] /\ \A d \in targets[r] : job[r][d] = "skipped"
             /\ Status(r) = "partial" => stored # {} /\ (stored # targets[r] \/ r \in troubled)
  <2>1. {Outcomes(r)[d] : d \in DOMAIN Outcomes(r)} = results
    BY <1>2 DEF Outcomes
  <2>2. Succeeded(r) <=> r \notin troubled /\ \A d \in targets[r] : job[r][d] # "error"
    BY <1>2 DEF Succeeded
  <2>3. Status(r) = IF results = {"skipped"} THEN "skipped"
                    ELSE IF Succeeded(r) THEN "success"
                    ELSE IF results \intersect {"skipped", "done"} # {} THEN "partial"
                    ELSE "failed"
    BY <2>1 DEF Status, DeriveRunStatus
  <2>4. stored = targets[r] <=> \A d \in targets[r] : job[r][d] # "error"
    BY <1>2 DEF Ended
  <2>5. results \intersect {"skipped", "done"} # {} <=> stored # {}
    OBVIOUS
  <2>6. results = {"skipped"} => \A d \in targets[r] : job[r][d] = "skipped"
    OBVIOUS
  <2> HIDE DEF stored, results
  <2> QED
    BY <2>2, <2>3, <2>4, <2>5, <2>6
<1> QED
  BY <1>1, <1>2

\* What the registry says of the run r, once it is settled.
Tells(r) ==
    Registered(registry, r) /\ pc[r] \in {"over", "unrecorded"} =>
      LET snap    == registry.runs[r]
          stored  == {d \in targets[r] : job[r][d] \in {"skipped", "done"}}
          allWell == result[r] = "built" /\ stored = targets[r]
      IN  /\ snap.status = "success" => allWell /\ r \notin troubled
          /\ snap.status = "skipped" => allWell /\ \A d \in targets[r] : job[r][d] = "skipped"
          /\ snap.status = "partial" => stored # {} /\ (stored # targets[r] \/ r \in troubled)
          /\ snap.status # "running"
          /\ result[r] = "built" =>
               \A d \in Dests :
                 LET told == {e \in targets[r] : Matches(e, d)}
                 IN  told # {} => snap.dests[d] \in {"absent"} \union {job[r][e] : e \in told}
          /\ result[r] = "failed" => snap.status = "failed"

TellInv == \A r \in RunIds : Tells(r)

\* A run that has ended and that a step leaves as it is still tells the same.
LEMMA StillTells ==
    ASSUME NEW r \in RunIds, Tells(r),
           Registered(registry', r) =>
             Registered(registry, r) /\ registry'.runs[r].status = registry.runs[r].status,
           pc'[r] \in {"over", "unrecorded"} => pc'[r] = pc[r] /\ result'[r] = result[r],
           result[r] = "failed"
           \/ /\ Registered(registry', r) => registry'.runs[r] = registry.runs[r]
              /\ targets'[r] = targets[r] /\ job'[r] = job[r]
              /\ r \in troubled' <=> r \in troubled
    PROVE  Tells(r)'
<1> SUFFICES ASSUME Registered(registry', r), pc'[r] \in {"over", "unrecorded"} PROVE Tells(r)'
  BY DEF Tells
<1>1. /\ Registered(registry, r) /\ pc[r] \in {"over", "unrecorded"} /\ result'[r] = result[r]
      /\ registry'.runs[r].status = registry.runs[r].status
  OBVIOUS
<1>2. CASE result[r] = "failed"
  <2>1. registry.runs[r].status = "failed"
    BY <1>1, <1>2 DEF Tells
  <2> QED
    BY <1>1, <1>2, <2>1 DEF Tells
<1>3. CASE result[r] # "failed"
  <2>1. /\ registry'.runs[r] = registry.runs[r] /\ targets'[r] = targets[r] /\ job'[r] = job[r]
        /\ r \in troubled' <=> r \in troubled
    BY <1>1, <1>3
  <2> QED
    BY <1>1, <1>3, <2>1 DEF Tells
<1> QED
  BY <1>2, <1>3

LEMMA NextTellInv == RunsAndRegistry /\ TellInv /\ [Next]_vars => TellInv'
<1> SUFFICES ASSUME RunsAndRegistry, TellInv, [Next]_vars, NEW q \in RunIds PROVE Tells(q)'
  BY DEF TellInv
<1> USE DEF RunsAndRegistry
<1>0. Tells(q)
  BY DEF TellInv
<1>1. CASE UNCHANGED <<registry, pc, targets, job, result, troubled, history, lost>>
  BY <1>0, <1>1, StillTells
<1>2. ASSUME NEW r \in RunIds, NEW destinations \in SUBSET Dests, Start(r, destinations)
      PROVE  Tells(q)'
  <2>1. CASE q = r
    BY <1>2, <2>1, StartStep DEF Tells
  <2>2. CASE q # r
    <3>1. /\ pc'[q] = pc[q] /\ targets'[q] = targets[q] /\ UNCHANGED <<job, troubled, result>>
          /\ Registered(registry', q) => registry'.runs[q] = registry.runs[q] /\ Registered(registry, q)
      BY <1>2, <2>2, StartStep
    <3> QED
      BY <1>0, <3>1, StillTells
  <2> QED
    BY <2>1, <2>2
<1>3. ASSUME NEW r \in RunIds, Progress(r) PROVE Tells(q)'
  <2>1. CASE q # r
    <3>1. /\ pc'[q] = pc[q] /\ targets'[q] = targets[q] /\ job'[q] = job[q] /\ result'[q] = result[q]
          /\ q \in troubled' <=> q \in troubled
          /\ registry'.runs[q] = registry.runs[q]
          /\ Registered(registry', q) => Registered(registry, q)
      BY <1>3, <2>1 DEF Progress
    <3> QED
      BY <1>0, <3>1, StillTells
  <2>2. CASE q = r /\ pc'[r] \in Working
    BY <2>2 DEF Tells, Working
  <2>3. CASE q = r /\ pc'[r] \notin Working
    <3>1. pc'[r] = pc[r] /\ result[r] = "failed" /\ result'[r] = result[r]
      BY <1>3, <2>3 DEF Progress
    <3>2. Registered(registry', r) =>
            Registered(registry, r) /\ registry'.runs[r].status = registry.runs[r].status
      BY <1>3 DEF Progress
    <3> QED
      BY <1>0, <2>3, <3>1, <3>2, StillTells
  <2> QED
    BY <2>1, <2>2, <2>3
<1>4. ASSUME NEW r \in RunIds, Settle(r) \/ SettleUnrecorded(r) PROVE Tells(q)'
  <2>1. /\ pc[r] = "notifying" /\ UNCHANGED <<targets, job, troubled, result>>
        /\ \A p \in RunIds \ {r} : pc'[p] = pc[p]
        /\ \/ SettlesTo(registry, registry', r, Status(r))
           \/ SettlesTo(registry, registry', r, "failed")
        /\ Registered(registry, r) =>
             \A d \in Dests : Told(registry'.runs[r].dests, d, Outcomes(r))
    BY <1>4, SettleSteps DEF RegistryInv
  <2>2. CASE q # r
    <3>1. registry'.runs[q] = registry.runs[q] /\ (Registered(registry', q) <=> Registered(registry, q))
      BY <2>1, <2>2 DEF SettlesTo
    <3> QED
      BY <1>0, <2>1, <2>2, <3>1, StillTells
  <2>3. ASSUME q = r, Registered(registry', r) PROVE Tells(r)'
    <3>1. Registered(registry, r) /\ registry'.runs[r].status \in {Status(r), "failed"}
      BY <2>1, <2>3 DEF SettlesTo
    <3>2. Status(r) # "running"
      BY StatusOfOutcomes DEF Status
    <3>3. targets[r] \subseteq Dests /\ result[r] \in {"failed", "built"}
      BY <2>1 DEF RunsInv, RunsType, EndInv
    <3>4. ASSUME result[r] = "built", NEW d \in Dests
          PROVE  LET told == {e \in targets[r] : Matches(e, d)}
                 IN  told # {} => registry'.runs[r].dests[d] \in {"absent"} \union {job[r][e] : e \in told}
      <4>1. Outcomes(r) = [e \in targets[r] |-> job[r][e]]
        BY <3>4 DEF Outcomes
      <4>2. Told(registry'.runs[r].dests, d, Outcomes(r))
        BY <2>1, <3>1
      <4> QED
        BY <4>1, <4>2 DEF Told
    <3>5. result[r] = "built" => \A d \in targets[r] : job[r][d] \in Ended
      BY DEF EndInv
    <3>6. CASE result[r] = "failed"
      BY <2>1, <3>1, <3>5, <3>6, StatusTells DEF Tells
    <3>7. CASE result[r] = "built"
      BY <2>1, <3>1, <3>2, <3>4, <3>5, <3>7, StatusTells DEF Tells
    <3> QED
      BY <3>3, <3>6, <3>7
  <2> QED
    BY <2>2, <2>3 DEF Tells
<1>5. CASE Crash
  <2>1. ~Registered(registry', q)
    BY <1>5 DEF Crash, EmptyRegistry, Registered
  <2> QED
    BY <2>1 DEF Tells
<1> QED
  BY <1>1, <1>2, <1>3, <1>4, <1>5, StepKinds DEF RegistryInv

\* What the registry says of a settled run is what happened in it: its status
\* goes back to its destinations and to its own errors, and each destination it
\* lists shows how it ended, or how one did whose name or path is taken for its
\* own (deriveRunStatus, settleDestinations).
THEOREM SettledRunsAreTold == Spec => []SettledRunTellsWhatHappened
<1>1. Init => TellInv
  BY DEF Init, TellInv, Tells
<1>2. TellInv => SettledRunTellsWhatHappened
  BY DEF TellInv, Tells, SettledRunTellsWhatHappened
<1> QED
  BY <1>1, <1>2, NextTellInv, RunsAndRegistryHold, PTL DEF Spec
-----------------------------------------------------------------------------
\* When no manifest can throw, phase and stage of a run go together.
LEMMA NextPhaseInv == ~Fails("throw") /\ RunsAndRegistry /\ PhaseInv /\ [Next]_vars => PhaseInv'
<1> SUFFICES ASSUME ~Fails("throw"), RunsAndRegistry, PhaseInv, [Next]_vars,
                    NEW q \in RunIds, Registered(registry', q)
             PROVE  registry'.runs[q].phase \in ActivePhases <=> pc'[q] \in Working
  BY DEF PhaseInv
<1> USE DEF RunsAndRegistry
<1>1. CASE UNCHANGED <<registry, pc, targets, job, result, troubled, history, lost>>
  BY <1>1 DEF PhaseInv
<1>2. ASSUME NEW r \in RunIds, NEW destinations \in SUBSET Dests, Start(r, destinations)
      PROVE  registry'.runs[q].phase \in ActivePhases <=> pc'[q] \in Working
  BY <1>2, StartStep DEF PhaseInv, Working
<1>3. ASSUME NEW r \in RunIds, Progress(r)
      PROVE  registry'.runs[q].phase \in ActivePhases <=> pc'[q] \in Working
  <2>1. CASE q = r
    <3>1. /\ Registered(registry, r) /\ pc[r] \in Working /\ pc'[r] \in Working
          /\ registry'.runs[r].phase \in ActivePhases \union {registry.runs[r].phase}
      BY <1>3, <2>1 DEF Progress
    <3> QED
      BY <2>1, <3>1 DEF PhaseInv
  <2>2. CASE q # r
    <3>1. Registered(registry, q) /\ registry'.runs[q] = registry.runs[q] /\ pc'[q] = pc[q]
      BY <1>3, <2>2 DEF Progress
    <3> QED
      BY <3>1 DEF PhaseInv
  <2> QED
    BY <2>1, <2>2
<1>4. ASSUME NEW r \in RunIds, Settle(r) \/ SettleUnrecorded(r)
      PROVE  registry'.runs[q].phase \in ActivePhases <=> pc'[q] \in Working
  <2>1. /\ \A p \in RunIds \ {r} : pc'[p] = pc[p]
        /\ pc'[r] \in {"over", "unrecorded"}
        /\ \E status : SettlesTo(registry, registry', r, status)
    BY <1>4, SettleSteps DEF RegistryInv
  <2>2. /\ Registered(registry, q)
        /\ q # r => registry'.runs[q] = registry.runs[q]
        /\ Registered(registry, r) => registry'.runs[r].phase \in {"completed", "failed"}
    BY <2>1 DEF SettlesTo
  <2> QED
    BY <2>1, <2>2 DEF PhaseInv, ActivePhases, Working
<1>5. CASE Crash
  BY <1>5 DEF Crash, EmptyRegistry, Registered
<1> QED
  BY <1>1, <1>2, <1>3, <1>4, <1>5, StepKinds DEF RegistryInv

\* getActiveRun finds a run in an active phase if there is one.
LEMMA ActiveRunFound ==
    ASSUME RegistryInv
    PROVE  /\ GetActiveRun(registry) # NoSnapshot => GetActiveRun(registry) \in ActiveRuns(registry)
           /\ ActiveRuns(registry) # {} => GetActiveRun(registry) # NoSnapshot
<1> DEFINE active == {i \in 1..Len(registry.recent) : registry.recent[i] \in ActiveRuns(registry)}
           first  == CHOOSE i \in active : \A k \in active : i <= k
<1>1. registry.recent \in Seq(RunIds)
  BY DEF RegistryInv, Registries
<1>2. ASSUME active # {} PROVE first \in active
  <2>1. active \subseteq Nat
    BY <1>1
  <2>2. PICK x \in active : \A y \in active : <<y, x>> \notin OpToRel(<, Nat)
    BY <1>2, <2>1, WFMin, NatLessThanWellFounded, Zenon
  <2>3. \A y \in active : ~(y < x)
    BY <2>1, <2>2, Zenon DEF OpToRel
  <2>4. \A y \in active : x <= y
    <3> HIDE DEF active
    <3> QED
      BY <2>1, <2>3
  <2> HIDE DEF active
  <2> QED
    BY <2>4, Zenon
<1>3. active = {} => GetActiveRun(registry) = NoSnapshot
  BY DEF GetActiveRun
<1>4. active # {} => GetActiveRun(registry) = registry.recent[first]
  BY DEF GetActiveRun
<1>5. active # {} => registry.recent[first] \in ActiveRuns(registry) /\ registry.recent[first] \in RunIds
  <2>1. first \in active => registry.recent[first] \in ActiveRuns(registry) /\ registry.recent[first] \in RunIds
    BY DEF ActiveRuns
  <2> QED
    BY <1>2, <2>1
<1>6. ASSUME NEW r \in ActiveRuns(registry) PROVE active # {}
  BY DEF ActiveRuns, RegistryInv, Listed
<1> HIDE DEF active, first
<1>7. \A r \in RunIds : r # NoSnapshot
  BY RegistryAssumption
<1> QED
  BY <1>3, <1>4, <1>5, <1>6, <1>7

\* GET /api/backups/active, as long as no manifest write throws: while a run
\* the registry knows is in progress some run is shown, and the run shown is in
\* progress (run-events.ts, also for two runs that overlap).  With a manifest
\* that throws it is not so: the run fails with a destination still in work.
THEOREM ActiveRunIsShown == ASSUME ~Fails("throw") PROVE Spec => []ActiveRunShown
<1>1. Init => PhaseInv
  BY DEF Init, PhaseInv, EmptyRegistry, Registered
<1>2. RegistryInv /\ PhaseInv => ActiveRunShown
  <2> SUFFICES ASSUME RegistryInv, PhaseInv PROVE ActiveRunShown
    OBVIOUS
  <2>1. \A r \in ActiveRuns(registry) : pc[r] \in Working
    BY DEF ActiveRuns, PhaseInv
  <2>2. \A r \in RunIds : Registered(registry, r) /\ pc[r] \in Working => r \in ActiveRuns(registry)
    BY DEF ActiveRuns, PhaseInv
  <2> QED
    BY <2>1, <2>2, ActiveRunFound DEF ActiveRunShown, ActiveRunIsWorking
<1>3. RunsAndRegistry => RegistryInv
  BY DEF RunsAndRegistry
<1>4. PhaseInv /\ RunsAndRegistry /\ [Next]_vars => PhaseInv'
  BY NextPhaseInv
<1> QED
  BY <1>1, <1>2, <1>3, <1>4, RunsAndRegistryHold, PTL DEF Spec
-----------------------------------------------------------------------------
Records == [run : RunIds, status : Statuses \ {"running"}]

\* A record goes to the front, and the oldest ones make room.
LEMMA RecordInFront ==
    ASSUME history \in Seq(Records), Len(history) <= MaxHistory, NEW r \in RunIds,
           history' = Newest(<<[run |-> r, status |-> Status(r)]>> \o history)
    PROVE  /\ history' \in Seq(Records) /\ Len(history') \in 1..MaxHistory
           /\ history'[1] = [run |-> r, status |-> Status(r)]
           /\ \A i \in 2..Len(history') : i - 1 \in 1..Len(history) /\ history'[i] = history[i - 1]
           /\ Len(history') < MaxHistory => Len(history') = Len(history) + 1
<1> DEFINE record  == [run |-> r, status |-> Status(r)]
           records == <<record>> \o history
           kept    == IF Len(records) > MaxHistory THEN MaxHistory ELSE Len(records)
<1>1. record \in Records
  BY StatusOfOutcomes DEF Records, Status
<1>2. history' = SubSeq(records, 1, kept)
  BY DEF Newest
<1> HIDE DEF record
<1>3. /\ records \in Seq(Records) /\ Len(records) = Len(history) + 1 /\ records[1] = record
      /\ \A i \in 2..Len(records) : i - 1 \in 1..Len(history) /\ records[i] = history[i - 1]
  BY <1>1
<1>4. kept \in 1..MaxHistory /\ kept <= Len(records) /\ (kept < MaxHistory => kept = Len(records))
  BY <1>3, RunsAssumption
<1> HIDE DEF records, kept
<1>5. history' \in Seq(Records) /\ Len(history') = kept /\ \A i \in 1..kept : history'[i] = records[i]
  BY <1>2, <1>3, <1>4
<1>6. history'[1] = record /\ \A i \in 2..kept : i - 1 \in 1..Len(history) /\ history'[i] = history[i - 1]
  <2>1. MaxHistory \in Nat /\ Len(history) \in Nat
    BY RunsAssumption
  <2>2. kept \in Nat /\ 1 \in 1..kept /\ \A i \in 2..kept : i \in 1..kept /\ i \in 2..Len(records)
    BY <1>3, <1>4, <2>1
  <2>3. history'[1] = record
    BY <1>3, <1>5, <2>2
  <2>4. \A i \in 2..kept : history'[i] = records[i]
    BY <1>5, <2>2
  <2> QED
    BY <1>3, <2>2, <2>3, <2>4
<1> QED
  BY <1>3, <1>4, <1>5, <1>6 DEF record

\* An empty history agrees with everything once the runs that were over are
\* counted as lost.
LEMMA HistoryAnew ==
    ASSUME HistoryIsLost, \A q \in RunIds : pc'[q] = "over" => pc[q] = "over"
    PROVE  HistoryInv'
BY RunsAssumption DEF HistoryIsLost, HistoryInv, HistoryAgrees

LEMMA NextHistoryInv == RunsAndRegistry /\ HistoryInv /\ [Next]_vars => HistoryInv'
<1> SUFFICES ASSUME RunsAndRegistry, HistoryInv, [Next]_vars PROVE HistoryInv'
  OBVIOUS
<1> USE DEF RunsAndRegistry
<1>0. /\ history \in Seq(Records) /\ Len(history) \in Nat /\ Len(history) <= MaxHistory
      /\ \A i \in 1..Len(history) : history[i].run \in RunIds /\ pc[history[i].run] = "over"
  <2>1. history \in Seq(Records) /\ Len(history) \in Nat
    BY DEF HistoryInv, Records
  <2>2. \A i \in 1..Len(history) : history[i] \in Records
    BY <2>1
  <2> QED
    BY <2>1, <2>2 DEF HistoryInv, Records
\* Steps that leave the history, and the runs in it, as they are.
<1>1. ASSUME UNCHANGED <<history, lost>>,
             \A q \in RunIds : pc[q] = "over" <=> pc'[q] = "over",
             \A q \in RunIds : pc[q] = "over" /\ Registered(registry', q) =>
               Registered(registry, q) /\ registry'.runs[q].status = registry.runs[q].status
      PROVE  HistoryInv'
  BY <1>0, <1>1 DEF HistoryInv, HistoryAgrees
<1>2. CASE UNCHANGED <<registry, pc, targets, job, result, troubled, history, lost>>
  BY <1>1, <1>2
<1>3. ASSUME NEW r \in RunIds, NEW destinations \in SUBSET Dests, Start(r, destinations)
      PROVE  HistoryInv'
  <2>1. /\ pc[r] = "none" /\ pc'[r] = "resolving" /\ UNCHANGED <<history, lost>>
        /\ \A q \in RunIds \ {r} : pc'[q] = pc[q]
        /\ \A q \in RunIds \ {r} : Registered(registry', q) =>
             registry'.runs[q] = registry.runs[q] /\ Registered(registry, q)
    BY <1>3, StartStep
  <2> QED
    BY <1>1, <2>1
<1>4. ASSUME NEW r \in RunIds, Progress(r) PROVE HistoryInv'
  <2>1. /\ UNCHANGED <<history, lost>>
        /\ \A q \in RunIds : pc'[q] = pc[q] \/ (pc[q] \in Working /\ pc'[q] \in Working)
        /\ \A q \in RunIds : Registered(registry', q) =>
             Registered(registry, q) /\ registry'.runs[q].status = registry.runs[q].status
    BY <1>4 DEF Progress
  <2>2. "over" \notin Working
    BY DEF Working
  <2>3. \A q \in RunIds : pc[q] = "over" <=> pc'[q] = "over"
    BY <2>1, <2>2
  <2> QED
    BY <1>1, <2>1, <2>3
<1>5. ASSUME NEW r \in RunIds, Settle(r) \/ SettleUnrecorded(r), pc'[r] = "unrecorded" PROVE HistoryInv'
  <2>1. /\ pc[r] = "notifying" /\ (HistoryStays \/ HistoryIsLost)
        /\ \A q \in RunIds \ {r} : pc'[q] = pc[q]
        /\ \E status : SettlesTo(registry, registry', r, status)
    BY <1>5, SettleSteps DEF RegistryInv
  <2>2. \A q \in RunIds \ {r} : /\ Registered(registry', q) <=> Registered(registry, q)
                                /\ registry'.runs[q] = registry.runs[q]
    BY <2>1 DEF SettlesTo
  <2>3. \A q \in RunIds : pc[q] = "over" <=> pc'[q] = "over"
    BY <1>5, <2>1
  <2>4. CASE HistoryStays
    BY <1>1, <2>1, <2>2, <2>3, <2>4 DEF HistoryStays
  <2>5. CASE HistoryIsLost
    BY <2>3, <2>5, HistoryAnew
  <2> QED
    BY <2>1, <2>4, <2>5
<1>6. ASSUME NEW r \in RunIds, pc[r] = "notifying", pc'[r] = "over",
             \A q \in RunIds \ {r} : pc'[q] = pc[q],
             SettlesTo(registry, registry', r, Status(r)),
             history' = Newest(<<[run |-> r, status |-> Status(r)]>> \o history), UNCHANGED lost
      PROVE  HistoryInv'
  <2>1. /\ pc[r] = "notifying" /\ pc'[r] = "over"
        /\ \A q \in RunIds \ {r} : pc'[q] = pc[q]
        /\ SettlesTo(registry, registry', r, Status(r))
    BY <1>6
  <2>2. /\ history' \in Seq(Records) /\ Len(history') \in 1..MaxHistory
        /\ history'[1].run = r /\ history'[1].status = Status(r)
        /\ \A i \in 2..Len(history') : i - 1 \in 1..Len(history) /\ history'[i] = history[i - 1]
        /\ Len(history') < MaxHistory => Len(history') = Len(history) + 1
    <3>1. history'[1] = [run |-> r, status |-> Status(r)]
      BY <1>0, <1>6, RecordInFront
    <3>2. history'[1].run = r /\ history'[1].status = Status(r)
      BY <3>1
    <3> QED
      BY <1>0, <1>6, <3>2, RecordInFront
  <2>3. /\ \A q \in RunIds : Registered(registry', q) <=> Registered(registry, q)
        /\ \A q \in RunIds \ {r} : registry'.runs[q] = registry.runs[q]
        /\ Registered(registry', r) => registry'.runs[r].status = Status(r)
    BY <2>1 DEF SettlesTo
  <2>4. \A i \in 1..Len(history') : i = 1 \/ i \in 2..Len(history')
    BY <2>2
  <2>5. \A i \in 2..Len(history') : history'[i].run \in RunIds \ {r} /\ pc'[history'[i].run] = "over"
    BY <1>0, <2>1, <2>2
  <2>6. \A i \in 1..Len(history') : pc'[history'[i].run] = "over"
    BY <2>1, <2>2, <2>4, <2>5
  <2>7. ASSUME NEW i \in 1..Len(history'), NEW j \in 1..Len(history'), history'[i].run = history'[j].run
        PROVE  i = j
    <3>1. CASE i = 1 \/ j = 1
      BY <2>2, <2>4, <2>5, <2>7, <3>1
    <3>2. CASE i # 1 /\ j # 1
      <4>1. i \in 2..Len(history') /\ j \in 2..Len(history')
        BY <2>4, <3>2
      <4>2. /\ i - 1 \in 1..Len(history) /\ j - 1 \in 1..Len(history)
            /\ history[i - 1].run = history[j - 1].run
        BY <2>2, <2>7, <4>1
      <4>3. i - 1 = j - 1
        BY <4>2 DEF HistoryInv, HistoryAgrees
      <4> QED
        BY <2>2, <4>3
    <3> QED
      BY <3>1, <3>2
  <2>8. ASSUME NEW i \in 1..Len(history'), Registered(registry', history'[i].run)
        PROVE  registry'.runs[history'[i].run].status = history'[i].status
    <3>1. CASE i = 1
      BY <2>2, <2>3, <2>8, <3>1
    <3>2. CASE i # 1
      <4>1. /\ i - 1 \in 1..Len(history) /\ history'[i] = history[i - 1]
            /\ history'[i].run \in RunIds \ {r}
        BY <2>2, <2>4, <2>5, <3>2
      <4> QED
        BY <2>3, <2>8, <4>1 DEF HistoryInv, HistoryAgrees
    <3> QED
      BY <3>1, <3>2
  <2>9. ASSUME NEW q \in RunIds, pc'[q] = "over", q \notin lost',
               \A i \in 1..Len(history') : history'[i].run # q
        PROVE  Len(history') = MaxHistory
    <3> SUFFICES ASSUME Len(history') # MaxHistory PROVE FALSE
      OBVIOUS
    <3>1. Len(history') = Len(history) + 1 /\ q # r /\ 1 \in 1..Len(history')
      BY <2>2, <2>9, RunsAssumption
    <3>2. \A i \in 1..Len(history) : i + 1 \in 2..Len(history') /\ history[i] = history'[i + 1]
      BY <1>0, <2>2, <3>1
    <3>3. \A i \in 1..Len(history) : history[i].run # q
      BY <2>9, <3>1, <3>2
    <3>4. Len(history) # MaxHistory /\ pc[q] = "over" /\ q \notin lost
      BY <1>0, <1>6, <2>1, <2>2, <2>9, <3>1, RunsAssumption
    <3> QED
      BY <3>3, <3>4 DEF HistoryInv, HistoryAgrees
  <2>10. HistoryAgrees'
    BY <2>7, <2>8, <2>9 DEF HistoryAgrees
  <2>11. Len(history') <= MaxHistory
    BY <2>2, RunsAssumption
  <2> QED
    BY <2>2, <2>6, <2>10, <2>11 DEF HistoryInv, Records
\* A read that failed: the record is the only one left.
<1>7. ASSUME NEW r \in RunIds, pc[r] = "notifying", pc'[r] = "over",
             \A q \in RunIds \ {r} : pc'[q] = pc[q],
             SettlesTo(registry, registry', r, Status(r)),
             history' = <<[run |-> r, status |-> Status(r)]>>, lost' = {q \in RunIds : pc[q] = "over"}
      PROVE  HistoryInv'
  <2> DEFINE record == [run |-> r, status |-> Status(r)]
  <2>1. record \in Records /\ record.run = r /\ record.status = Status(r)
    BY StatusOfOutcomes DEF Records, Status
  <2> HIDE DEF record
  <2>2. history' = <<record>>
    BY <1>7 DEF record
  <2>3. history' \in Seq(Records) /\ Len(history') = 1 /\ history'[1] = record
    BY <2>1, <2>2
  <2>4. \A i \in 1..Len(history') : i = 1
    BY <2>3
  <2>5. Registered(registry', r) => registry'.runs[r].status = Status(r)
    BY <1>7 DEF SettlesTo
  <2>6. \A q \in RunIds : pc'[q] = "over" => q = r \/ q \in lost'
    BY <1>7
  <2>7. 1 \in 1..Len(history') /\ Len(history') <= MaxHistory
    BY <2>3, RunsAssumption
  <2>8. HistoryAgrees'
    BY <2>1, <2>3, <2>4, <2>5, <2>6, <2>7 DEF HistoryAgrees
  <2>9. \A i \in 1..Len(history') : pc'[history'[i].run] = "over"
    BY <1>7, <2>1, <2>3, <2>4
  <2> QED
    BY <2>3, <2>7, <2>8, <2>9 DEF HistoryInv, Records
<1>8. ASSUME NEW r \in RunIds, Settle(r) \/ SettleUnrecorded(r), pc'[r] # "unrecorded" PROVE HistoryInv'
  <2>1. /\ pc[r] = "notifying" /\ pc'[r] = "over"
        /\ \A q \in RunIds \ {r} : pc'[q] = pc[q]
        /\ Record(r) /\ SettlesTo(registry, registry', r, Status(r))
    BY <1>8, SettleSteps DEF RegistryInv, Settle
  <2>2. \/ history' = Newest(<<[run |-> r, status |-> Status(r)]>> \o history) /\ UNCHANGED lost
        \/ /\ history' = <<[run |-> r, status |-> Status(r)]>>
           /\ lost' = {q \in RunIds : pc[q] = "over"}
    BY <2>1 DEF Record, Status
  <2> QED
    BY <1>6, <1>7, <2>1, <2>2
<1>9. CASE Crash
  <2>1. /\ HistoryStays \/ HistoryIsLost
        /\ \A q \in RunIds : ~Registered(registry', q)
        /\ \A q \in RunIds : pc'[q] = IF pc[q] \in Working THEN "lost" ELSE pc[q]
    BY <1>9 DEF Crash, EmptyRegistry, Registered
  <2>2. \A q \in RunIds : pc[q] = "over" <=> pc'[q] = "over"
    BY <2>1 DEF Working
  <2>3. CASE HistoryStays
    BY <1>1, <2>1, <2>2, <2>3 DEF HistoryStays
  <2>4. CASE HistoryIsLost
    BY <2>2, <2>4, HistoryAnew
  <2> QED
    BY <2>1, <2>3, <2>4
<1> QED
  BY <1>2, <1>3, <1>4, <1>5, <1>8, <1>9, StepKinds DEF RegistryInv

\* The history and the registry tell the same of a run, a run has one record,
\* and a run that was recorded is found unless newer records pushed it out or
\* the file was lost since, by a read or a write that failed or by a kill while
\* it was written (addBackupRecord, completeRun).
THEOREM HistoryAndRegistryAgree == Spec => []HistoryAgrees
<1>1. Init => HistoryInv
  BY RunsAssumption DEF Init, HistoryInv, HistoryAgrees
<1>2. HistoryInv => HistoryAgrees
  BY DEF HistoryInv
<1> QED
  BY <1>1, <1>2, NextHistoryInv, RunsAndRegistryHold, PTL DEF Spec

\* The variables of the runs keep their types, for any number of runs and
\* destinations and any faults (BackupRuns).
THEOREM RunsTypeCorrect == Spec => []TypeOK
<1> DEFINE RestOK == /\ troubled \subseteq RunIds /\ lost \subseteq RunIds /\ ticking \in BOOLEAN
                     /\ dump \in RunIds \union {NoOne}
<1>1. Init => RestOK /\ HistoryInv
  BY RunsAssumption DEF Init, HistoryInv, HistoryAgrees
<1>2. RestOK /\ [Next]_vars => RestOK'
  <2> SUFFICES ASSUME RestOK, [Next]_vars PROVE RestOK'
    OBVIOUS
  <2>1. ASSUME NEW r \in RunIds, NEW d \in Dests,
               Skip(r, d) \/ StoreStarts(r, d) \/ StoreSucceeds(r, d) \/ StoreFails(r, d) \/ Retained(r, d)
        PROVE  RestOK'
    BY <2>1 DEF Skip, StoreStarts, StoreSucceeds, StoreFails, Retained, Announce
  <2>2. ASSUME NEW r \in RunIds, RunStep(r) PROVE RestOK'
    BY <2>1, <2>2 DEF RunStep, Resolve, ResolveNothing, AllEnded, Settle, SettleUnrecorded, Record,
                      HistoryStays, HistoryIsLost
  <2> QED
    BY <2>2 DEF HistoryStays, HistoryIsLost, Next, vars, stage, EditConfig, StartManual, StartScheduled, Start, Crash
<1>3. RunsAndRegistry /\ HistoryInv /\ RestOK => TypeOK
  <2> SUFFICES ASSUME RunsInv, RegistryInv, HistoryInv, RestOK PROVE TypeOK
    BY DEF RunsAndRegistry
  <2>1. registry.recent \in Seq({r \in RunIds : Registered(registry, r)})
    BY DEF RegistryInv, Registries, Listed
  <2> QED
    BY <2>1 DEF TypeOK, RunsInv, RunsType, Stages, RegistryInv, Registries, HistoryInv
<1> QED
  BY <1>1, <1>2, <1>3, NextHistoryInv, RunsAndRegistryHold, PTL DEF Spec
-----------------------------------------------------------------------------
\* The runs as GET /api/backups/:id shows them.
life == [r \in RunIds |-> LifeOf(r)]

\* A registered run is known, and a run without a snapshot is not.
LEMMA KnownRuns ==
    ASSUME RegistryInv, NEW r \in RunIds
    PROVE  /\ Registered(registry, r) => life[r] = registry.runs[r].status /\ life[r] \in Statuses
           /\ ~Registered(registry, r) => life[r] = IF pc[r] = "none" THEN "unknown" ELSE "forgotten"
           /\ Registered(registry, r) <=> life[r] \in Statuses
<1>1. Registered(registry, r) => registry.runs[r] \in Snapshots
  BY DEF RegistryInv, Registries, Registered
<1>2. Registered(registry, r) => registry.runs[r].status \in Statuses
  BY <1>1 DEF Snapshots
<1>3. life[r] = LifeOf(r)
  BY DEF life
<1> QED
  BY <1>2, <1>3 DEF LifeOf, Statuses

LEMMA KnownAre == Statuses = Lifecycle!Known /\ Statuses \ {"running"} = Lifecycle!Final
BY DEF Statuses, Lifecycle!Known, Lifecycle!Final

\* Every step is a step of RunLifecycle, or shows nothing.
LEMMA LifecycleSteps ==
    ASSUME RunsAndRegistry, RegistryInv', [Next]_vars
    PROVE  Lifecycle!Next \/ UNCHANGED life
<1> USE DEF RunsAndRegistry
<1>0. /\ life = [r \in RunIds |-> life[r]] /\ life' = [r \in RunIds |-> life'[r]]
      /\ \A r \in RunIds : life[r] = LifeOf(r) /\ life'[r] = LifeOf(r)'
  BY DEF life
<1>1. CASE UNCHANGED <<registry, pc, targets, job, result, troubled, history, lost>>
  BY <1>0, <1>1 DEF LifeOf, Registered
<1>2. ASSUME NEW r \in RunIds, NEW destinations \in SUBSET Dests, Start(r, destinations)
      PROVE  Lifecycle!Next
  <2> DEFINE forgotten == {q \in RunIds : Registered(registry, q) /\ ~Registered(registry', q)}
  <2>1. /\ pc[r] = "none" /\ pc'[r] = "resolving" /\ \A q \in RunIds \ {r} : pc'[q] = pc[q]
        /\ ~Registered(registry, r) /\ Registered(registry', r)
        /\ registry'.runs[r].status = "running"
        /\ \A q \in RunIds \ {r} : Registered(registry', q) =>
             registry'.runs[q] = registry.runs[q] /\ Registered(registry, q)
    BY <1>2, StartStep
  <2>2. life[r] = "unknown" /\ life'[r] = "running"
    BY <2>1, <1>0 DEF LifeOf
  <2>3. \A q \in forgotten : life[q] \in Lifecycle!Known
    BY KnownRuns, KnownAre
  <2>4. ASSUME NEW q \in RunIds, q # r
        PROVE  life'[q] = IF q \in forgotten THEN "forgotten" ELSE life[q]
    <3>1. CASE q \in forgotten
      <4>1. pc[q] # "none" /\ pc'[q] = pc[q]
        BY <2>1, <2>4, <3>1 DEF RegistryInv, Working
      <4> QED
        BY <1>0, <3>1, <4>1 DEF LifeOf
    <3>2. CASE q \notin forgotten
      <4>1. /\ Registered(registry', q) <=> Registered(registry, q)
            /\ Registered(registry, q) => registry'.runs[q] = registry.runs[q]
            /\ pc'[q] = pc[q]
        BY <2>1, <2>4, <3>2
      <4> QED
        BY <1>0, <3>2, <4>1 DEF LifeOf
    <3> QED
      BY <3>1, <3>2
  <2>5. life' = [q \in RunIds |-> IF q = r THEN "running"
                                  ELSE IF q \in forgotten THEN "forgotten" ELSE life[q]]
    BY <1>0, <2>2, <2>4
  <2>6. forgotten \in SUBSET RunIds
    OBVIOUS
  <2> HIDE DEF forgotten
  <2>7. Lifecycle!Start(r, forgotten)
    BY <2>2, <2>3, <2>5 DEF Lifecycle!Start, life
  <2> QED
    BY <2>6, <2>7 DEF Lifecycle!Next
<1>3. ASSUME NEW r \in RunIds, Progress(r) PROVE UNCHANGED life
  <2>1. ASSUME NEW q \in RunIds PROVE LifeOf(q)' = LifeOf(q)
    <3>1. /\ Registered(registry', q) <=> Registered(registry, q)
          /\ Registered(registry, q) => registry'.runs[q].status = registry.runs[q].status
          /\ pc'[q] = pc[q] \/ (pc[q] \in Working /\ pc'[q] \in Working)
      BY <1>3 DEF Progress
    <3> QED
      BY <3>1 DEF LifeOf, Working
  <2> QED
    BY <1>0, <2>1
<1>4. ASSUME NEW r \in RunIds, Settle(r) \/ SettleUnrecorded(r) PROVE Lifecycle!Next \/ UNCHANGED life
  <2>1. PICK status \in Statuses \ {"running"} : SettlesTo(registry, registry', r, status)
    <3>1. Status(r) \in Statuses \ {"running"} /\ "failed" \in Statuses \ {"running"}
      BY StatusOfOutcomes DEF Status, Statuses
    <3> QED
      BY <1>4, <3>1, SettleSteps DEF RegistryInv
  <2>2. pc[r] = "notifying" /\ pc'[r] # "none" /\ \A q \in RunIds \ {r} : pc'[q] = pc[q]
    BY <1>4, SettleSteps DEF RegistryInv
  <2>3. /\ \A q \in RunIds : Registered(registry', q) <=> Registered(registry, q)
        /\ \A q \in RunIds \ {r} : registry'.runs[q] = registry.runs[q]
        /\ Registered(registry, r) => registry'.runs[r].status = status
    BY <2>1 DEF SettlesTo
  <2>4. \A q \in RunIds \ {r} : life'[q] = life[q]
    BY <1>0, <2>2, <2>3 DEF LifeOf
  <2>5. CASE Registered(registry, r)
    <3>1. life[r] = "running" /\ life'[r] = status
      BY <1>0, <2>2, <2>3, <2>5 DEF LifeOf, RegistryInv, Working
    <3>2. life' = [life EXCEPT ![r] = status]
      BY <1>0, <2>4, <3>1
    <3>3. Lifecycle!Settle(r, status)
      BY <3>1, <3>2 DEF Lifecycle!Settle, life
    <3> QED
      BY <2>1, <3>3, KnownAre DEF Lifecycle!Next
  <2>6. CASE ~Registered(registry, r)
    <3>1. life'[r] = life[r]
      BY <1>0, <2>2, <2>3, <2>6 DEF LifeOf
    <3> QED
      BY <1>0, <2>4, <3>1
  <2> QED
    BY <2>5, <2>6
<1>5. CASE Crash
  <2>1. /\ \A q \in RunIds : ~Registered(registry', q)
        /\ \A q \in RunIds : pc'[q] = "none" <=> pc[q] = "none"
    BY <1>5 DEF Crash, EmptyRegistry, Registered, Working
  <2>2. ASSUME NEW q \in RunIds
        PROVE  life'[q] = IF life[q] \in Lifecycle!Known THEN "forgotten" ELSE life[q]
    <3>1. CASE Registered(registry, q)
      <4>1. pc[q] # "none" /\ life[q] \in Lifecycle!Known
        BY <3>1, KnownRuns, KnownAre DEF RegistryInv, Working
      <4> QED
        BY <1>0, <2>1, <4>1 DEF LifeOf
    <3>2. CASE ~Registered(registry, q)
      <4>1. life[q] \notin Lifecycle!Known
        BY <3>2, KnownRuns, KnownAre DEF RegistryInv
      <4> QED
        BY <1>0, <2>1, <3>2, <4>1 DEF LifeOf
    <3> QED
      BY <3>1, <3>2
  <2>3. life' = [r \in RunIds |-> IF life[r] \in Lifecycle!Known THEN "forgotten" ELSE life[r]]
    BY <1>0, <2>2
  <2>4. Lifecycle!Restart
    BY <2>3 DEF Lifecycle!Restart, life
  <2> QED
    BY <2>4 DEF Lifecycle!Next
<1> QED
  BY <1>1, <1>2, <1>3, <1>4, <1>5, StepKinds DEF RegistryInv

\* Seen through GET /api/backups/:id a run is running until it is settled, is
\* settled once, and does not come back once the registry has forgotten it:
\* BackupRuns implements RunLifecycle.
THEOREM RunsHaveTheirLifecycle == Spec => LifecycleHolds
<1>1. Init => Lifecycle!Init
  <2> SUFFICES ASSUME Init PROVE Lifecycle!Init
    OBVIOUS
  <2>1. \A r \in RunIds : LifeOf(r) = "unknown"
    BY DEF Init, EmptyRegistry, Registered, LifeOf
  <2> QED
    BY <2>1 DEF Lifecycle!Init
<1>2. RunsAndRegistry /\ RegistryInv' /\ [Next]_vars => [Lifecycle!Next]_life
  BY LifecycleSteps
<1>3. RunsAndRegistry => RegistryInv
  BY DEF RunsAndRegistry
<1> QED
  BY <1>1, <1>2, <1>3, RunsAndRegistryHold, PTL DEF Spec, LifecycleHolds, Lifecycle!Spec, life
=============================================================================
