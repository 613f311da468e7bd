----------------------------- MODULE DaemonProofs -----------------------------
(***************************************************************************)
(* The invariants of the daemon and of what its runs do to containers and  *)
(* to the temp directory, for every set of containers, databases, plans,   *)
(* configs and faults.                                                     *)
(***************************************************************************)
EXTENDS Daemon, FiniteSetTheorems, TLAPS

Stages == {"none", "stopping", "dumping", "starting", "storing"}

PlanOK ==
    /\ DOMAIN plan = Runs
    /\ \A r \in Runs : Volumes(r) \in Seq(Containers) /\ plan[r].databases \subseteq Databases

\* The container a run has got to is one of its plan.
AtOK == \A r \in Runs : stage[r] \in {"stopping", "starting"} => at[r] \in 1..Len(Volumes(r))

TypeInv ==
    /\ up \subseteq Containers /\ wanted \subseteq Containers
    /\ stage \in [Runs -> Stages] /\ at \in [Runs -> Nat]
    /\ dumping \in [Runs -> SUBSET Databases] /\ begun \in [Runs -> SUBSET Databases]
    /\ dumped \in [Runs -> SUBSET Databases]
    /\ DOMAIN temp = Names /\ alone \subseteq Runs
    /\ PlanOK /\ AtOK

LEMMA NamesOf == \A s \in Databases : DumpName[s] \in Names
BY DEF Names

LEMMA InitTypeInv == Init => TypeInv
<1> SUFFICES ASSUME Init PROVE TypeInv
  OBVIOUS
<1>1. PlanOK
  <2>1. <<>> \in Seq(Containers)
    OBVIOUS
  <2>2. \A r \in Runs : plan[r].volumes = <<>> /\ plan[r].databases = {}
    BY DEF Init, ScanInit
  <2>3. DOMAIN plan = Runs
    BY DEF Init, ScanInit
  <2> QED
    BY <2>1, <2>2, <2>3 DEF PlanOK, Volumes
<1>2. AtOK
  BY DEF Init, ScanInit, AtOK
<1> QED
  BY <1>1, <1>2 DEF Init, ScanInit, TypeInv, Stages

\* A step that changes neither the plans nor how far the runs have got.
LEMMA SamePlan == PlanOK /\ UNCHANGED plan => PlanOK'
BY DEF PlanOK, Volumes

LEMMA SamePlace == AtOK /\ UNCHANGED <<plan, stage, at>> => AtOK'
BY DEF AtOK, Volumes

LEMMA OthersPlace ==
    ASSUME TypeInv, NEW r \in Runs, UNCHANGED plan,
           \A q \in Runs \ {r} : stage'[q] = stage[q] /\ at'[q] = at[q],
           stage'[r] \in {"stopping", "starting"} => at'[r] \in 1..Len(Volumes(r))
    PROVE  PlanOK' /\ AtOK'
<1>1. \A q \in Runs : Volumes(q)' = Volumes(q)
  BY DEF Volumes
<1>2. AtOK'
  BY <1>1 DEF TypeInv, AtOK
<1> QED
  BY <1>2, SamePlan DEF TypeInv

LEMMA BeginRunTypeInv ==
    ASSUME TypeInv, NEW r \in Runs, NEW p \in Plans, BeginRun(r, p)
    PROVE  TypeInv'
<1>1. p.volumes \in Seq(Containers) /\ p.databases \subseteq Databases
  BY ScanAssumption
<1>2. p.volumes # <<>> => 1 \in 1..Len(p.volumes)
  BY <1>1
<1>3. /\ plan'[r] = p /\ \A q \in Runs \ {r} : plan'[q] = plan[q]
      /\ DOMAIN plan' = Runs
  BY DEF BeginRun, TypeInv, PlanOK
<1>4. PlanOK'
  BY <1>1, <1>3 DEF TypeInv, PlanOK, Volumes
<1>5. /\ stage'[r] = "stopping" => p.volumes # <<>> /\ at'[r] = 1
      /\ stage'[r] # "starting"
      /\ \A q \in Runs \ {r} : stage'[q] = stage[q] /\ at'[q] = at[q]
  BY DEF BeginRun, TypeInv
<1>6. AtOK'
  BY <1>2, <1>3, <1>5 DEF TypeInv, AtOK, Volumes
<1>7. stage' \in [Runs -> Stages] /\ at' \in [Runs -> Nat] /\ alone' \subseteq Runs /\ DOMAIN temp' = Names
  BY DEF BeginRun, TypeInv, Stages
<1> QED
  BY <1>4, <1>6, <1>7 DEF BeginRun, TypeInv

\* The end of resolveSources.
LEMMA ResolvedTypeInv ==
    ASSUME TypeInv, NEW r \in Runs, stage[r] = "dumping", Resolved(r),
           UNCHANGED <<up, wanted, plan, dumping, begun, dumped, alone>>, DOMAIN temp' = Names
    PROVE  TypeInv'
<1>1. Volumes(r) \in Seq(Containers)
  BY DEF TypeInv, PlanOK
<1>2. Volumes(r) # <<>> => 1 \in 1..Len(Volumes(r))
  BY <1>1
<1>3. /\ stage'[r] = IF Volumes(r) = <<>> THEN "storing" ELSE "starting"
      /\ at'[r] = 1
      /\ \A q \in Runs \ {r} : stage'[q] = stage[q] /\ at'[q] = at[q]
      /\ stage' \in [Runs -> Stages] /\ at' \in [Runs -> Nat]
  BY DEF Resolved, TypeInv, Stages
<1> QED
  BY <1>2, <1>3, OthersPlace DEF TypeInv

LEMMA ScanStepTypeInv ==
    ASSUME TypeInv, NEW r \in Runs, ScanStep(r)
    PROVE  TypeInv'
<1>1. CASE StopNext(r) \/ StartNext(r)
  <2>1. /\ Volumes(r) \in Seq(Containers) /\ Len(Volumes(r)) \in Nat
        /\ at[r] \in 1..Len(Volumes(r)) /\ Volumes(r)[at[r]] \in Containers
    BY <1>1 DEF StopNext, StartNext, TypeInv, PlanOK, AtOK
  <2>2. /\ stage' \in [Runs -> Stages] /\ at' \in [Runs -> Nat]
        /\ \A q \in Runs \ {r} : stage'[q] = stage[q] /\ at'[q] = at[q]
        /\ stage'[r] \in {"stopping", "starting"} => at'[r] = at[r] + 1 /\ at[r] < Len(Volumes(r))
    <3>1. stage \in [Runs -> Stages] /\ at \in [Runs -> Nat] /\ at[r] \in Nat
      BY DEF TypeInv
    <3>2. \/ stage' = stage /\ at' = [at EXCEPT ![r] = @ + 1] /\ at[r] < Len(Volumes(r))
          \/ stage' = [stage EXCEPT ![r] = "dumping"] /\ at' = [at EXCEPT ![r] = 0]
          \/ stage' = [stage EXCEPT ![r] = "storing"] /\ at' = at
      BY <1>1 DEF StopNext, StartNext
    <3> QED
      BY <3>1, <3>2 DEF Stages
  <2>3. stage'[r] \in {"stopping", "starting"} => at'[r] \in 1..Len(Volumes(r))
    BY <2>1, <2>2
  <2>4. up' \subseteq Containers
    BY <1>1, <2>1 DEF StopNext, StartNext, TypeInv
  <2>5. UNCHANGED <<plan, dumping, begun, dumped, temp, wanted, alone>>
    BY <1>1 DEF StopNext, StartNext
  <2> QED
    BY <2>2, <2>3, <2>4, <2>5, OthersPlace DEF TypeInv
<1>3. CASE ScanThrows(r)
  BY <1>3, ResolvedTypeInv DEF ScanThrows, TypeInv
<1>4. CASE NextDumps(r)
  <2>1. CASE Kinds(r) = {} /\ Resolved(r) /\ UNCHANGED <<dumping, begun, temp, old>>
    BY <1>4, <2>1, ResolvedTypeInv DEF NextDumps, TypeInv
  <2>2. ASSUME NEW k \in Kinds(r), NEW next \in SUBSET plan[r].databases,
               at' = [at EXCEPT ![r] = k], dumping' = [dumping EXCEPT ![r] = next],
               begun' = [begun EXCEPT ![r] = @ \union next], DOMAIN temp' = Names,
               UNCHANGED stage
        PROVE  TypeInv'
    <3>1. k \in Nat /\ next \in SUBSET Databases
      BY DEF Kinds, TypeInv, PlanOK
    <3>2. stage[r] = "dumping" /\ UNCHANGED <<up, wanted, plan, dumped, alone>>
      BY <1>4 DEF NextDumps
    <3>3. /\ at' \in [Runs -> Nat] /\ \A q \in Runs \ {r} : at'[q] = at[q]
      BY <2>2, <3>1 DEF TypeInv
    <3>4. PlanOK' /\ AtOK'
      BY <2>2, <3>2, <3>3, OthersPlace
    <3> QED
      BY <2>2, <3>1, <3>2, <3>3, <3>4 DEF TypeInv
  <2> QED
    BY <1>4, <2>1, <2>2 DEF NextDumps
<1>6. ASSUME NEW s \in Databases, DumpEnds(r, s) PROVE TypeInv'
  <2>1. /\ dumping' \in [Runs -> SUBSET Databases] /\ dumped' \in [Runs -> SUBSET Databases]
        /\ DOMAIN temp' = Names
    BY <1>6 DEF DumpEnds, TypeInv
  <2>2. UNCHANGED <<up, wanted, plan, stage, at, begun, alone>>
    BY <1>6 DEF DumpEnds
  <2> QED
    BY <2>1, <2>2, SamePlan, SamePlace DEF TypeInv
<1> QED
  BY <1>1, <1>3, <1>4, <1>6 DEF ScanStep

ConfigOK == file \in Configs /\ config \in Configs

LEMMA NextConfigOK == ConfigOK /\ [Next]_vars => ConfigOK'
BY DEF ConfigOK, Next, vars, StartDaemon, OnTick, RunNow, EndScheduled, EndManual, Exit, EditFile, DayPasses

LEMMA NextTypeInv == TypeInv /\ ConfigOK /\ [Next]_vars => TypeInv'
<1> SUFFICES ASSUME TypeInv, ConfigOK, [Next]_vars PROVE TypeInv'
  OBVIOUS
<1>0. ASSUME UNCHANGED scan PROVE TypeInv'
  BY <1>0, SamePlan, SamePlace DEF scan, TypeInv
<1>1. CASE StartDaemon \/ EditFile \/ DayPasses \/ UNCHANGED vars
  BY <1>0, <1>1 DEF StartDaemon, EditFile, DayPasses, vars
<1>2. CASE OnTick
  BY <1>2, BeginRunTypeInv, DaemonAssumption DEF OnTick, ConfigOK
<1>3. CASE RunNow
  BY <1>3, BeginRunTypeInv, DaemonAssumption DEF RunNow, ConfigOK
<1>4. ASSUME NEW r \in Runs, EndRun(r) PROVE TypeInv'
  <2>1. /\ stage' \in [Runs -> Stages] /\ at' \in [Runs -> Nat]
        /\ \A q \in Runs \ {r} : stage'[q] = stage[q] /\ at'[q] = at[q]
        /\ stage'[r] = "none" /\ UNCHANGED plan
    BY <1>4 DEF EndRun, TypeInv, Stages
  <2>2. PlanOK' /\ AtOK'
    BY <2>1, OthersPlace
  <2> QED
    BY <1>4, <2>1, <2>2 DEF EndRun, TypeInv
<1>5. CASE Exit
  <2>1. AtOK'
    BY <1>5 DEF Exit, ScanLost, AtOK
  <2> QED
    BY <1>5, <2>1, SamePlan DEF Exit, ScanLost, TypeInv, Stages
<1>6. ASSUME NEW c \in Switched, UserSwitches(c) PROVE TypeInv'
  BY <1>6, SamePlan, SamePlace, ScanAssumption DEF UserSwitches, TypeInv
<1>7. ASSUME NEW n \in Names, Ages(n) PROVE TypeInv'
  BY <1>7, SamePlan, SamePlace DEF Ages, TypeInv
<1> QED
  BY <1>1, <1>2, <1>3, <1>4, <1>5, <1>6, <1>7, ScanStepTypeInv, DaemonAssumption
     DEF Next, EndScheduled, EndManual
-----------------------------------------------------------------------------
(***************************************************************************)
(* The dumps of a run, and the files in the temp directory.                *)
(***************************************************************************)
\* What a run has dumped at each of its stages; kinds are taken in order.
DumpsFollow(r) ==
    /\ dumping[r] \subseteq begun[r] /\ dumped[r] \subseteq begun[r]
    /\ stage[r] # "dumping" => dumping[r] = {}
    /\ stage[r] \in {"none", "stopping"} => begun[r] = {}
    /\ stage[r] = "dumping" => \A s \in begun[r] : Kind[s] <= at[r]

StageInv == \A r \in Runs : DumpsFollow(r)

DaemonInv == TypeInv /\ ConfigOK /\ StageInv

LEMMA KindIsPositive == \A s \in Databases : Kind[s] \in Nat /\ Kind[s] >= 1
BY ScanAssumption

LEMMA OthersFollow ==
    ASSUME StageInv, NEW r \in Runs, DumpsFollow(r)',
           \A q \in Runs \ {r} : /\ stage'[q] = stage[q] /\ at'[q] = at[q] /\ dumping'[q] = dumping[q]
                                 /\ begun'[q] = begun[q] /\ dumped'[q] = dumped[q]
    PROVE  StageInv'
<1>1. \A q \in Runs \ {r} : DumpsFollow(q)'
  BY DEF StageInv, DumpsFollow
<1> QED
  BY <1>1 DEF StageInv

LEMMA ScanStepStageInv ==
    ASSUME DaemonInv, NEW r \in Runs, ScanStep(r)
    PROVE  StageInv'
<1> USE DEF DaemonInv
<1>0. DumpsFollow(r) /\ TypeInv
  BY DEF StageInv
<1>1. CASE StopNext(r)
  <2>1. begun[r] = {} /\ dumping[r] = {} /\ dumped[r] = {}
    BY <1>0, <1>1 DEF StopNext, DumpsFollow
  <2>2. UNCHANGED <<dumping, begun, dumped>>
        /\ stage'[r] \in {"stopping", "dumping"}
        /\ \A q \in Runs \ {r} : stage'[q] = stage[q] /\ at'[q] = at[q]
    BY <1>0, <1>1 DEF StopNext, TypeInv
  <2>3. DumpsFollow(r)'
    BY <2>1, <2>2 DEF DumpsFollow
  <2> QED
    BY <2>2, <2>3, OthersFollow
<1>2. ASSUME Resolved(r), dumping[r] = {}, UNCHANGED <<dumping, begun, dumped>>
      PROVE  StageInv'
  <2>1. /\ stage'[r] \in {"storing", "starting"}
        /\ \A q \in Runs \ {r} : stage'[q] = stage[q] /\ at'[q] = at[q]
    BY <1>0, <1>2 DEF Resolved, TypeInv
  <2>2. DumpsFollow(r)'
    BY <1>0, <1>2, <2>1 DEF DumpsFollow
  <2> QED
    BY <1>2, <2>1, <2>2, OthersFollow
<1>3. CASE ScanThrows(r)
  <2>1. dumping[r] = {}
    BY <1>0, <1>3, KindIsPositive DEF ScanThrows, DumpsFollow, TypeInv
  <2> QED
    BY <1>2, <1>3, <2>1 DEF ScanThrows
<1>4. CASE NextDumps(r)
  <2>1. CASE Resolved(r) /\ UNCHANGED <<dumping, begun, temp, old>>
    BY <1>2, <1>4, <2>1 DEF NextDumps
  <2>2. ASSUME NEW k \in Kinds(r), NEW next \in SUBSET plan[r].databases,
               next = {s \in plan[r].databases : Kind[s] = k},
               at' = [at EXCEPT ![r] = k], dumping' = [dumping EXCEPT ![r] = next],
               begun' = [begun EXCEPT ![r] = @ \union next], UNCHANGED stage
        PROVE  StageInv'
    <3>1. k \in Nat /\ k > at[r] /\ at[r] \in Nat
      BY <1>0 DEF Kinds, TypeInv
    <3>2. stage[r] = "dumping" /\ dumped' = dumped
      BY <1>4 DEF NextDumps
    <3>3. /\ at'[r] = k /\ dumping'[r] = next /\ begun'[r] = begun[r] \union next
          /\ \A q \in Runs \ {r} : at'[q] = at[q] /\ dumping'[q] = dumping[q] /\ begun'[q] = begun[q]
      BY <1>0, <2>2 DEF TypeInv
    <3>4. \A s \in begun[r] : Kind[s] <= k
      BY <1>0, <3>1, <3>2, KindIsPositive DEF DumpsFollow, TypeInv
    <3>5. \A s \in next : Kind[s] <= k
      BY <2>2, <3>1
    <3>6. DumpsFollow(r)'
      BY <1>0, <2>2, <3>2, <3>3, <3>4, <3>5 DEF DumpsFollow
    <3> QED
      BY <2>2, <3>2, <3>3, <3>6, OthersFollow
  <2> QED
    BY <1>4, <2>1, <2>2 DEF NextDumps
<1>5. CASE StartNext(r)
  <2>1. /\ stage[r] = "starting" /\ stage'[r] \in {"starting", "storing"}
        /\ \A q \in Runs \ {r} : stage'[q] = stage[q] /\ at'[q] = at[q]
        /\ UNCHANGED <<dumping, begun, dumped>>
    BY <1>0, <1>5 DEF StartNext, TypeInv
  <2>2. DumpsFollow(r)'
    BY <1>0, <2>1 DEF DumpsFollow
  <2> QED
    BY <2>1, <2>2, OthersFollow
<1>6. ASSUME NEW s \in Databases, DumpEnds(r, s) PROVE StageInv'
  <2>1. /\ s \in dumping[r] /\ dumping'[r] = dumping[r] \ {s}
        /\ dumped'[r] \subseteq dumped[r] \union {s}
        /\ \A q \in Runs \ {r} : dumping'[q] = dumping[q] /\ dumped'[q] = dumped[q]
        /\ UNCHANGED <<stage, at, begun>>
    BY <1>0, <1>6 DEF DumpEnds, TypeInv
  <2>2. DumpsFollow(r)'
    BY <1>0, <2>1 DEF DumpsFollow
  <2> QED
    BY <2>1, <2>2, OthersFollow
<1> QED
  BY <1>1, <1>3, <1>4, <1>5, <1>6 DEF ScanStep

LEMMA NextStageInv == DaemonInv /\ [Next]_vars => StageInv'
<1> SUFFICES ASSUME DaemonInv, [Next]_vars PROVE StageInv'
  OBVIOUS
<1> USE DEF DaemonInv
<1>0. ASSUME UNCHANGED <<stage, at, dumping, begun, dumped>> PROVE StageInv'
  BY <1>0 DEF StageInv, DumpsFollow
<1>1. CASE StartDaemon \/ EditFile \/ DayPasses \/ UNCHANGED vars
  BY <1>0, <1>1 DEF StartDaemon, EditFile, DayPasses, vars, scan
<1>2. ASSUME NEW r \in Runs, NEW p, BeginRun(r, p) PROVE StageInv'
  <2>1. /\ stage[r] = "none" /\ stage'[r] \in {"stopping", "dumping"}
        /\ \A q \in Runs \ {r} : stage'[q] = stage[q] /\ at'[q] = at[q]
        /\ UNCHANGED <<dumping, begun, dumped>>
    BY <1>2 DEF BeginRun, TypeInv
  <2>2. DumpsFollow(r)'
    BY <2>1 DEF StageInv, DumpsFollow
  <2> QED
    BY <2>1, <2>2, OthersFollow
<1>3. ASSUME NEW r \in Runs, EndRun(r) PROVE StageInv'
  <2>1. /\ stage[r] = "storing" /\ stage'[r] = "none" /\ begun'[r] = {} /\ dumped'[r] = {}
        /\ \A q \in Runs \ {r} : /\ stage'[q] = stage[q] /\ at'[q] = at[q]
                                 /\ begun'[q] = begun[q] /\ dumped'[q] = dumped[q]
        /\ dumping' = dumping
    BY <1>3 DEF EndRun, TypeInv
  <2>2. DumpsFollow(r)'
    BY <2>1 DEF StageInv, DumpsFollow
  <2> QED
    BY <2>1, <2>2, OthersFollow
<1>4. CASE Exit
  BY <1>4 DEF Exit, ScanLost, StageInv, DumpsFollow
<1>5. ASSUME NEW c \in Switched, UserSwitches(c) PROVE StageInv'
  BY <1>0, <1>5 DEF UserSwitches
<1>6. ASSUME NEW n \in Names, Ages(n) PROVE StageInv'
  BY <1>0, <1>6 DEF Ages
<1> QED
  BY <1>1, <1>2, <1>3, <1>4, <1>5, <1>6, ScanStepStageInv, DaemonAssumption
     DEF Next, OnTick, RunNow, EndScheduled, EndManual

LEMMA DaemonInvHolds == Spec => []DaemonInv
<1>1. Init => DaemonInv
  BY InitTypeInv DEF DaemonInv, Init, ScanInit, ConfigOK, StageInv, DumpsFollow
<1>2. DaemonInv /\ [Next]_vars => DaemonInv'
  BY NextTypeInv, NextConfigOK, NextStageInv DEF DaemonInv
<1> QED
  BY <1>1, <1>2, PTL DEF Spec
-----------------------------------------------------------------------------
\* A file that no crash and no failed removal left behind is one of a dump that a run
\* in progress has begun.
LEMMA NextNothingIsLeft == DaemonInv /\ NothingIsLeft /\ [Next]_vars => NothingIsLeft'
<1> SUFFICES ASSUME DaemonInv, NothingIsLeft, [Next]_vars PROVE NothingIsLeft'
  OBVIOUS
<1> USE DEF DaemonInv
<1>0. ASSUME UNCHANGED <<temp, left, begun>> PROVE NothingIsLeft'
  BY <1>0 DEF NothingIsLeft
<1>1. CASE StartDaemon \/ EditFile \/ DayPasses \/ UNCHANGED vars
  BY <1>0, <1>1 DEF StartDaemon, EditFile, DayPasses, vars, scan
<1>2. ASSUME NEW r \in Runs, NEW p, BeginRun(r, p) PROVE NothingIsLeft'
  <2>1. PICK gone : /\ temp' = [n \in Names |-> IF n \in gone THEN None ELSE temp[n]]
                    /\ left' = left \ gone /\ begun' = begun
    BY <1>2 DEF BeginRun
  <2> QED
    BY <2>1 DEF NothingIsLeft
<1>3. ASSUME NEW r \in Runs, EndRun(r) PROVE NothingIsLeft'
  <2> DEFINE files == {DumpName[s] : s \in begun[r]}
  <2>1. \A q \in Runs \ {r} : begun'[q] = begun[q]
    BY <1>3 DEF EndRun, TypeInv
  <2>2. PICK kept \in SUBSET files :
               /\ temp' = [n \in Names |-> IF n \in files \ kept THEN None ELSE temp[n]]
               /\ left' = (left \ (files \ kept)) \union kept
    BY <1>3 DEF EndRun, Refused
  <2>3. ASSUME NEW n \in Names, temp'[n] # None
        PROVE  n \in left' \/ \E q \in Runs : \E s \in begun'[q] : DumpName[s] = n
    <3>1. CASE n \in files
      BY <2>2, <2>3, <3>1
    <3>2. CASE n \notin files
      <4>1. temp[n] # None
        BY <2>2, <2>3, <3>2
      <4>2. CASE n \in left
        BY <2>2, <3>2, <4>2
      <4>3. CASE n \notin left
        <5>1. PICK q \in Runs : \E s \in begun[q] : DumpName[s] = n
          BY <4>1, <4>3 DEF NothingIsLeft
        <5>2. q # r
          BY <3>2, <5>1
        <5> QED
          BY <2>1, <5>1, <5>2
      <4> QED
        BY <4>2, <4>3
    <3> QED
      BY <3>1, <3>2
  <2> QED
    BY <2>3 DEF NothingIsLeft
<1>4. CASE Exit
  BY <1>4 DEF Exit, ScanLost, NothingIsLeft
<1>5. ASSUME NEW c \in Switched, UserSwitches(c) PROVE NothingIsLeft'
  BY <1>0, <1>5 DEF UserSwitches
<1>6. ASSUME NEW n \in Names, Ages(n) PROVE NothingIsLeft'
  BY <1>0, <1>6 DEF Ages
<1>7. ASSUME NEW r \in Runs, StopNext(r) \/ StartNext(r) \/ ScanThrows(r) PROVE NothingIsLeft'
  BY <1>0, <1>7 DEF StopNext, StartNext, ScanThrows
<1>8. ASSUME NEW r \in Runs, NextDumps(r) PROVE NothingIsLeft'
  <2>1. CASE UNCHANGED <<begun, temp>>
    BY <1>0, <1>8, <2>1 DEF NextDumps
  <2>2. ASSUME NEW next \in SUBSET plan[r].databases,
               begun' = [begun EXCEPT ![r] = @ \union next], UNCHANGED left,
               \A n \in Names : temp'[n] # temp[n] => \E s \in next : DumpName[s] = n
        PROVE  NothingIsLeft'
    <3>1. begun'[r] = begun[r] \union next /\ \A q \in Runs \ {r} : begun'[q] = begun[q]
      BY <2>2 DEF TypeInv
    <3> QED
      BY <2>2, <3>1 DEF NothingIsLeft
  <2>3. CASE \E k \in Kinds(r) : \E next \in SUBSET plan[r].databases :
               /\ begun' = [begun EXCEPT ![r] = @ \union next]
               /\ temp' = [n \in Names |->
                     IF {s \in next : DumpName[s] = n /\ Holder[s] = None} = {} THEN temp[n]
                     ELSE IF Writers(n) = {} /\ Cardinality({s \in next : DumpName[s] = n /\ Holder[s] = None}) = 1
                            THEN "torn" ELSE "mixed"]
    <3>1. PICK next \in SUBSET plan[r].databases :
               /\ begun' = [begun EXCEPT ![r] = @ \union next]
               /\ temp' = [n \in Names |->
                     IF {s \in next : DumpName[s] = n /\ Holder[s] = None} = {} THEN temp[n]
                     ELSE IF Writers(n) = {} /\ Cardinality({s \in next : DumpName[s] = n /\ Holder[s] = None}) = 1
                            THEN "torn" ELSE "mixed"]
      BY <2>3
    <3>2. ASSUME NEW n \in Names, temp'[n] # temp[n] PROVE \E s \in next : DumpName[s] = n
      <4>1. {s \in next : DumpName[s] = n /\ Holder[s] = None} # {}
        BY <3>1, <3>2
      <4> QED
        BY <4>1
    <3> QED
      BY <1>8, <2>2, <3>1, <3>2 DEF NextDumps
  <2> QED
    BY <1>8, <2>1, <2>3 DEF NextDumps
<1>9. ASSUME NEW r \in Runs, NEW s \in Databases, DumpEnds(r, s) PROVE NothingIsLeft'
  <2>1. s \in begun[r] /\ UNCHANGED <<begun, left>>
    BY <1>9 DEF DumpEnds, StageInv, DumpsFollow
  <2>2. \A n \in Names : n # DumpName[s] => temp'[n] = temp[n]
    BY <1>9 DEF DumpEnds, TypeInv
  <2> QED
    BY <2>1, <2>2 DEF NothingIsLeft
<1> QED
  BY <1>1, <1>2, <1>3, <1>4, <1>5, <1>6, <1>7, <1>8, <1>9, DaemonAssumption
     DEF Next, OnTick, RunNow, EndScheduled, EndManual, ScanStep

\* The temp directory holds the dumps of runs in progress, what a crash left behind and
\* what could not be removed (cleanupTempFile, sweepStaleTempFiles).
THEOREM TempIsAccountedFor == Spec => []NothingIsLeft
<1>1. Init => NothingIsLeft
  BY DEF Init, ScanInit, NothingIsLeft
<1> QED
  BY <1>1, DaemonInvHolds, NextNothingIsLeft, PTL DEF Spec
-----------------------------------------------------------------------------
\* The run r is going to start c.
WillStart(r, c) ==
    \/ stage[r] \in {"stopping", "dumping"} /\ c \in Rest(Volumes(r), 1)
    \/ stage[r] = "starting" /\ c \in Rest(Volumes(r), at[r])

\* ContainersComeBack, with what a run that has begun to start them has left.
BackInv == \A c \in wanted \ up : c \in stuck \/ \E r \in Runs : WillStart(r, c)

LEMMA RestIsAll ==
    ASSUME NEW list, NEW i \in Nat, i >= 1 PROVE Rest(list, i) \subseteq Rest(list, 1)
<1>1. SUFFICES ASSUME NEW k \in i..Len(list) PROVE k \in 1..Len(list)
  BY DEF Rest
<1> QED
  BY <1>1

LEMMA RestFollows ==
    ASSUME NEW list \in Seq(Containers), NEW i \in 1..Len(list), NEW c \in Rest(list, i), c # list[i]
    PROVE  i < Len(list) /\ c \in Rest(list, i + 1)
<1>1. PICK k \in i..Len(list) : c = list[k]
  BY DEF Rest
<1>2. Len(list) \in Nat
  OBVIOUS
<1>3. k # i
  BY <1>1
<1>4. k \in i + 1 .. Len(list) /\ i < Len(list)
  BY <1>1, <1>2, <1>3
<1> QED
  BY <1>1, <1>4 DEF Rest

\* What one run does leaves what the others will start.
LEMMA OthersWillStart ==
    ASSUME NEW r \in Runs, BackInv, DOMAIN plan = Runs, UNCHANGED wanted,
           \A q \in Runs \ {r} : stage'[q] = stage[q] /\ at'[q] = at[q] /\ plan'[q] = plan[q],
           \A c \in up \ up' : c \in stuck' \/ WillStart(r, c)',
           \A c : c \notin up' /\ c \in stuck => c \in stuck',
           \A c : c \notin up' /\ WillStart(r, c) => c \in stuck' \/ WillStart(r, c)'
    PROVE  BackInv'
<1>1. \A q \in Runs \ {r} : \A c : WillStart(q, c)' = WillStart(q, c)
  BY DEF WillStart, Volumes
<1>2. SUFFICES ASSUME NEW c \in wanted \ up' PROVE c \in stuck' \/ \E q \in Runs : WillStart(q, c)'
  BY DEF BackInv
<1>3. CASE c \in up
  BY <1>2, <1>3
<1>4. CASE c \notin up
  <2>1. c \in stuck \/ \E q \in Runs : WillStart(q, c)
    BY <1>2, <1>4 DEF BackInv
  <2>2. ASSUME NEW q \in Runs, WillStart(q, c) PROVE c \in stuck' \/ WillStart(q, c)'
    BY <1>1, <1>2, <2>2
  <2> QED
    BY <1>2, <2>1, <2>2
<1> QED
  BY <1>3, <1>4

LEMMA NextBackInv == DaemonInv /\ BackInv /\ [Next]_vars => BackInv'
<1> SUFFICES ASSUME DaemonInv, BackInv, [Next]_vars PROVE BackInv'
  OBVIOUS
<1> USE DEF DaemonInv
<1>D. TypeInv /\ DOMAIN plan = Runs
  BY DEF TypeInv, PlanOK
<1>0. ASSUME UNCHANGED <<up, wanted, stuck, stage, at, plan>> PROVE BackInv'
  BY <1>0 DEF BackInv, WillStart, Volumes
<1>1. CASE StartDaemon \/ EditFile \/ DayPasses \/ UNCHANGED vars
  BY <1>0, <1>1 DEF StartDaemon, EditFile, DayPasses, vars, scan
<1>2. ASSUME NEW r \in Runs, NEW p, BeginRun(r, p) PROVE BackInv'
  <2>1. /\ stage[r] = "none" /\ UNCHANGED <<up, wanted, stuck>>
        /\ \A q \in Runs \ {r} : stage'[q] = stage[q] /\ at'[q] = at[q] /\ plan'[q] = plan[q]
    BY <1>2, <1>D DEF BeginRun, TypeInv
  <2>2. \A c : ~WillStart(r, c)
    BY <2>1 DEF WillStart
  <2> QED
    BY <1>D, <2>1, <2>2, OthersWillStart
<1>3. ASSUME NEW r \in Runs, EndRun(r) PROVE BackInv'
  <2>1. /\ stage[r] = "storing" /\ UNCHANGED <<up, wanted, stuck, plan>>
        /\ \A q \in Runs \ {r} : stage'[q] = stage[q] /\ at'[q] = at[q]
    BY <1>3, <1>D DEF EndRun, TypeInv
  <2>2. \A c : ~WillStart(r, c)
    BY <2>1 DEF WillStart
  <2> QED
    BY <1>D, <2>1, <2>2, OthersWillStart
<1>4. CASE Exit
  <2>1. /\ UNCHANGED <<up, wanted>>
        /\ stuck' = stuck \union {c \in Containers \ up :
                      \E r \in Runs : stage[r] # "none" /\ c \in Rest(Volumes(r), 1)}
    BY <1>4 DEF Exit, ScanLost
  <2>2. ASSUME NEW c, NEW r \in Runs, WillStart(r, c)
        PROVE  stage[r] # "none" /\ c \in Rest(Volumes(r), 1)
    <3>1. CASE stage[r] \in {"stopping", "dumping"} /\ c \in Rest(Volumes(r), 1)
      BY <3>1
    <3>2. CASE stage[r] = "starting" /\ c \in Rest(Volumes(r), at[r])
      <4>1. at[r] \in Nat /\ at[r] >= 1
        BY <1>D, <3>2 DEF TypeInv, AtOK
      <4> QED
        BY <3>2, <4>1, RestIsAll
    <3> QED
      BY <2>2, <3>1, <3>2 DEF WillStart
  <2>3. SUFFICES ASSUME NEW c \in wanted \ up PROVE c \in stuck'
    BY <2>1 DEF BackInv
  <2>4. c \in Containers \ up
    BY <1>D DEF TypeInv
  <2> QED
    BY <2>1, <2>2, <2>3, <2>4 DEF BackInv
<1>5. ASSUME NEW c \in Switched, UserSwitches(c) PROVE BackInv'
  <2>1. \A r \in Runs : \A d : WillStart(r, d)' = WillStart(r, d)
    BY <1>5 DEF UserSwitches, WillStart, Volumes
  <2>2. wanted' \ up' \subseteq (wanted \ up) \ {c} /\ stuck' = stuck \ {c}
    BY <1>5 DEF UserSwitches
  <2> QED
    BY <2>1, <2>2 DEF BackInv
<1>6. ASSUME NEW n \in Names, Ages(n) PROVE BackInv'
  BY <1>0, <1>6 DEF Ages
<1>7. ASSUME NEW r \in Runs, StopNext(r) PROVE BackInv'
  <2>1. /\ stage[r] = "stopping" /\ stage'[r] \in {"stopping", "dumping"}
        /\ UNCHANGED <<wanted, stuck, plan>> /\ up \ up' \subseteq {Volumes(r)[at[r]]}
        /\ \A q \in Runs \ {r} : stage'[q] = stage[q] /\ at'[q] = at[q]
    BY <1>7, <1>D DEF StopNext, TypeInv
  <2>2. Volumes(r)[at[r]] \in Rest(Volumes(r), 1)
    BY <1>D, <2>1 DEF TypeInv, AtOK, Rest
  <2>3. \A c : WillStart(r, c)' <=> c \in Rest(Volumes(r), 1)
    BY <2>1 DEF WillStart, Volumes
  <2>4. \A c : WillStart(r, c) <=> c \in Rest(Volumes(r), 1)
    BY <2>1 DEF WillStart
  <2> QED
    BY <1>D, <2>1, <2>2, <2>3, <2>4, OthersWillStart
<1>8. ASSUME NEW r \in Runs, stage[r] = "dumping", Resolved(r), UNCHANGED <<up, wanted, stuck, plan>>
      PROVE  BackInv'
  <2>1. /\ stage'[r] = IF Volumes(r) = <<>> THEN "storing" ELSE "starting"
        /\ at'[r] = 1
        /\ \A q \in Runs \ {r} : stage'[q] = stage[q] /\ at'[q] = at[q]
    BY <1>8, <1>D DEF Resolved, TypeInv
  <2>2. ASSUME NEW c, WillStart(r, c) PROVE WillStart(r, c)'
    <3>1. c \in Rest(Volumes(r), 1)
      BY <1>8, <2>2 DEF WillStart
    <3>2. Volumes(r) # <<>>
      BY <3>1 DEF Rest
    <3> QED
      BY <1>8, <2>1, <3>1, <3>2 DEF WillStart, Volumes
  <2> QED
    BY <1>8, <1>D, <2>1, <2>2, OthersWillStart
<1>9. ASSUME NEW r \in Runs, ScanThrows(r) PROVE BackInv'
  BY <1>8, <1>9 DEF ScanThrows
<1>10. ASSUME NEW r \in Runs, NextDumps(r) PROVE BackInv'
  <2>1. CASE Resolved(r)
    BY <1>8, <1>10, <2>1 DEF NextDumps
  <2>2. ASSUME NEW k \in Kinds(r), at' = [at EXCEPT ![r] = k], UNCHANGED stage PROVE BackInv'
    <3>1. stage[r] = "dumping" /\ UNCHANGED <<up, wanted, stuck, plan, stage>>
          /\ \A q \in Runs \ {r} : at'[q] = at[q]
      BY <1>10, <1>D, <2>2 DEF NextDumps, TypeInv
    <3>2. \A c : WillStart(r, c) => WillStart(r, c)'
      BY <3>1 DEF WillStart, Volumes
    <3> QED
      BY <1>D, <3>1, <3>2, OthersWillStart
  <2> QED
    BY <1>10, <2>1, <2>2 DEF NextDumps
<1>11. ASSUME NEW r \in Runs, StartNext(r) PROVE BackInv'
  <2> DEFINE v == Volumes(r)
             c == v[at[r]]
  <2>1. /\ stage[r] = "starting" /\ v \in Seq(Containers) /\ at[r] \in 1..Len(v)
    BY <1>11, <1>D DEF StartNext, TypeInv, PlanOK, AtOK
  <2>2. /\ UNCHANGED <<wanted, plan>> /\ \A q \in Runs \ {r} : stage'[q] = stage[q] /\ at'[q] = at[q]
    BY <1>11, <1>D DEF StartNext, TypeInv
  <2>3. \A d : WillStart(r, d) => d \in Rest(v, at[r])
    BY <2>1 DEF WillStart
  <2>4. CASE /\ up' = up \union {c} /\ stuck' = stuck \ {c}
             /\ at[r] < Len(v) => at' = [at EXCEPT ![r] = @ + 1] /\ UNCHANGED stage
    <3>1. at[r] < Len(v) => stage'[r] = "starting" /\ at'[r] = at[r] + 1
      BY <1>D, <2>1, <2>4 DEF TypeInv
    <3>2. ASSUME NEW d, d \notin up', WillStart(r, d) PROVE WillStart(r, d)'
      <4>1. d \in Rest(v, at[r]) /\ d # v[at[r]]
        BY <2>3, <2>4, <3>2
      <4>2. at[r] < Len(v) /\ d \in Rest(v, at[r] + 1)
        BY <2>1, <4>1, RestFollows
      <4> QED
        BY <2>2, <3>1, <4>2 DEF WillStart, Volumes
    <3> QED
      BY <1>D, <2>2, <2>4, <3>2, OthersWillStart
  <2>5. CASE up' = up /\ stuck' = stuck \union (Rest(v, at[r]) \ up)
    BY <1>D, <2>2, <2>3, <2>5, OthersWillStart
  <2> QED
    BY <1>11, <2>4, <2>5 DEF StartNext
<1>12. ASSUME NEW r \in Runs, NEW s \in Databases, DumpEnds(r, s) PROVE BackInv'
  BY <1>0, <1>12 DEF DumpEnds
<1> QED
  BY <1>1, <1>2, <1>3, <1>4, <1>5, <1>6, <1>7, <1>9, <1>10, <1>11, <1>12, DaemonAssumption
     DEF Next, OnTick, RunNow, EndScheduled, EndManual, ScanStep

\* A container that its user left running is down only while a run is going to
\* start it, or after a run failed to (resolveBackupFiles, startContainers).
THEOREM EveryContainerComesBack == Spec => []ContainersComeBack
<1>1. Init => BackInv
  BY DEF Init, ScanInit, BackInv
<1>2. DaemonInv /\ BackInv => ContainersComeBack
  <2> SUFFICES ASSUME DaemonInv, BackInv PROVE ContainersComeBack
    OBVIOUS
  <2>1. ASSUME NEW c, NEW r \in Runs, WillStart(r, c)
        PROVE  stage[r] \in {"stopping", "dumping", "starting"} /\ c \in Rest(Volumes(r), 1)
    <3>1. CASE stage[r] \in {"stopping", "dumping"} /\ c \in Rest(Volumes(r), 1)
      BY <3>1
    <3>2. CASE stage[r] = "starting" /\ c \in Rest(Volumes(r), at[r])
      <4>1. at[r] \in Nat /\ at[r] >= 1
        BY <3>2 DEF DaemonInv, TypeInv, AtOK
      <4> QED
        BY <3>2, <4>1, RestIsAll
    <3> QED
      BY <2>1, <3>1, <3>2 DEF WillStart
  <2> QED
    BY <2>1 DEF BackInv, ContainersComeBack
<1> QED
  BY <1>1, <1>2, DaemonInvHolds, NextBackInv, PTL DEF Spec
-----------------------------------------------------------------------------
\* Another dump of the run is made to the file of s.
Shared(r, s) == \E q \in begun[r] \ {s} : DumpName[q] = DumpName[s]

\* DumpsAreTheirs, with that no other run began and no other dump mixes with one
\* that is under way.
AloneInv ==
    \A r \in alone :
      /\ \A q \in Runs \ {r} : stage[q] = "none"
      /\ \A s \in dumped[r] : temp[DumpName[s]] = s \/ Shared(r, s)
      /\ \A s \in dumping[r] : Holder[s] = None /\ temp[DumpName[s]] = "mixed" => Shared(r, s)

\* Nothing changes for the dumps, and no run begins.
LEMMA SameDumps ==
    ASSUME AloneInv, UNCHANGED <<alone, begun, dumped, dumping, temp>>,
           \A q \in Runs : stage[q] = "none" => stage'[q] = "none"
    PROVE  AloneInv'
BY DEF AloneInv, Shared

LEMMA NextAloneInv == DaemonInv /\ AloneInv /\ [Next]_vars => AloneInv'
<1> SUFFICES ASSUME DaemonInv, AloneInv, [Next]_vars PROVE AloneInv'
  OBVIOUS
<1> USE DEF DaemonInv
<1>D. /\ TypeInv /\ alone \subseteq Runs
      /\ \A r \in Runs : DumpsFollow(r)
  BY DEF TypeInv, StageInv
<1>E. ASSUME NEW r \in Runs, stage[r] # "none" PROVE alone \subseteq {r}
  BY <1>D, <1>E DEF AloneInv
<1>0. ASSUME UNCHANGED <<alone, begun, dumped, dumping, temp, stage>> PROVE AloneInv'
  BY <1>0, SameDumps
<1>1. CASE StartDaemon \/ EditFile \/ DayPasses \/ UNCHANGED vars
  BY <1>0, <1>1 DEF StartDaemon, EditFile, DayPasses, vars, scan
<1>2. ASSUME NEW r \in Runs, NEW p, BeginRun(r, p) PROVE AloneInv'
  <2>1. /\ stage[r] = "none" /\ UNCHANGED <<dumping, begun, dumped>>
        /\ alone' = IF \A q \in Runs : stage[q] = "none" THEN {r} ELSE {}
        /\ \A q \in Runs \ {r} : stage'[q] = stage[q]
    BY <1>2, <1>D DEF BeginRun, TypeInv
  <2>2. dumping'[r] = {} /\ dumped'[r] = {}
    BY <1>D, <2>1 DEF DumpsFollow
  <2> QED
    BY <2>1, <2>2 DEF AloneInv
<1>3. ASSUME NEW r \in Runs, EndRun(r) PROVE AloneInv'
  <2>1. /\ stage[r] = "storing" /\ dumped'[r] = {} /\ UNCHANGED <<dumping, alone>>
        /\ \A q \in Runs \ {r} : stage'[q] = stage[q]
    BY <1>3, <1>D DEF EndRun, TypeInv
  <2>2. dumping'[r] = {}
    BY <1>D, <2>1 DEF DumpsFollow
  <2> QED
    BY <1>E, <2>1, <2>2 DEF AloneInv
<1>4. CASE Exit
  BY <1>4 DEF Exit, ScanLost, AloneInv
<1>5. ASSUME NEW c \in Switched, UserSwitches(c) PROVE AloneInv'
  BY <1>0, <1>5 DEF UserSwitches
<1>6. ASSUME NEW n \in Names, Ages(n) PROVE AloneInv'
  BY <1>0, <1>6 DEF Ages
<1>7. ASSUME NEW r \in Runs, StopNext(r) \/ StartNext(r) \/ ScanThrows(r) PROVE AloneInv'
  <2>1. /\ UNCHANGED <<alone, begun, dumped, dumping, temp>>
        /\ stage[r] # "none" /\ \A q \in Runs \ {r} : stage'[q] = stage[q]
    BY <1>7, <1>D DEF StopNext, StartNext, ScanThrows, Resolved, TypeInv
  <2> QED
    BY <2>1, SameDumps
<1>8. ASSUME NEW r \in Runs, NextDumps(r) PROVE AloneInv'
  <2>1. CASE Resolved(r) /\ UNCHANGED <<dumping, begun, temp, old>>
    <3>1. /\ UNCHANGED <<alone, dumped>> /\ stage[r] # "none"
          /\ \A q \in Runs \ {r} : stage'[q] = stage[q]
      BY <1>8, <1>D, <2>1 DEF NextDumps, Resolved, TypeInv
    <3> QED
      BY <2>1, <3>1, SameDumps
  <2> DEFINE host(next, n) == {s \in next : DumpName[s] = n /\ Holder[s] = None}
  <2>2. ASSUME NEW k \in Kinds(r), NEW next \in SUBSET plan[r].databases,
               next = {s \in plan[r].databases : Kind[s] = k},
               dumping' = [dumping EXCEPT ![r] = next],
               begun' = [begun EXCEPT ![r] = @ \union next],
               temp' = [n \in Names |->
                          IF host(next, n) = {} THEN temp[n]
                          ELSE IF Writers(n) = {} /\ Cardinality(host(next, n)) = 1 THEN "torn" ELSE "mixed"],
               UNCHANGED stage
        PROVE  AloneInv'
    <3>1. stage[r] = "dumping" /\ dumping[r] = {} /\ UNCHANGED <<alone, dumped>>
      BY <1>8 DEF NextDumps
    <3>2. next \subseteq Databases /\ k \in Nat /\ at[r] \in Nat /\ k > at[r]
      BY <1>D DEF TypeInv, PlanOK, Kinds
    <3>3. dumping'[r] = next /\ begun'[r] = begun[r] \union next
      BY <1>D, <2>2 DEF TypeInv
    <3>4. \A s \in begun[r] : s \notin next
      BY <1>D, <2>2, <3>1, <3>2, KindIsPositive DEF DumpsFollow, TypeInv
    <3>5. begun[r] \subseteq Databases /\ dumped[r] \subseteq begun[r]
      BY <1>D DEF TypeInv, DumpsFollow
    <3> SUFFICES ASSUME r \in alone, alone = {r} PROVE AloneInv'
      BY <1>E, <3>1 DEF AloneInv
    <3>6. \A n : Writers(n) = {}
      <4>1. \A q \in Runs : dumping[q] = {}
        BY <1>D, <3>1 DEF AloneInv, DumpsFollow
      <4> QED
        BY <4>1 DEF Writers
    <3>7. ASSUME NEW s \in dumped[r] PROVE temp'[DumpName[s]] = s \/ Shared(r, s)'
      <4>1. DumpName[s] \in Names
        BY <3>5, NamesOf
      <4>2. CASE host(next, DumpName[s]) = {}
        BY <2>2, <3>3, <4>1, <4>2 DEF AloneInv, Shared
      <4>3. CASE host(next, DumpName[s]) # {}
        <5>1. PICK q \in next : DumpName[q] = DumpName[s]
          BY <4>3
        <5> QED
          BY <3>3, <3>4, <3>5, <5>1 DEF Shared
      <4> QED
        BY <4>2, <4>3
    <3>8. ASSUME NEW s \in next, Holder[s] = None, temp'[DumpName[s]] = "mixed" PROVE Shared(r, s)'
      <4>1. DumpName[s] \in Names
        BY <3>2, NamesOf
      <4>2. host(next, DumpName[s]) # {s}
        <5>1. host(next, DumpName[s]) # {} /\ "torn" # "mixed"
          BY <3>8
        <5>2. Cardinality(host(next, DumpName[s])) # 1
          BY <2>2, <3>6, <3>8, <4>1, <5>1
        <5> QED
          BY <5>2, FS_Singleton
      <4>3. PICK q \in host(next, DumpName[s]) : q # s
        BY <3>8, <4>2
      <4> QED
        BY <3>3, <4>3 DEF Shared
    <3>9. \A q \in Runs \ {r} : stage'[q] = "none"
      BY <2>2 DEF AloneInv
    <3> QED
      BY <3>1, <3>3, <3>7, <3>8, <3>9 DEF AloneInv
  <2> QED
    BY <1>8, <2>1, <2>2 DEF NextDumps
<1>9. ASSUME NEW r \in Runs, NEW s \in Databases, DumpEnds(r, s) PROVE AloneInv'
  <2>1. /\ s \in dumping[r] /\ dumping'[r] = dumping[r] \ {s} /\ UNCHANGED <<alone, begun, stage>>
        /\ s \in begun[r] /\ stage[r] # "none"
    BY <1>9, <1>D DEF DumpEnds, TypeInv, DumpsFollow
  <2>2. DumpName[s] \in Names
    BY NamesOf
  <2> SUFFICES ASSUME r \in alone, alone = {r} PROVE AloneInv'
    BY <1>E, <2>1 DEF AloneInv
  <2>3. CASE UNCHANGED <<temp, dumped>>
    BY <2>1, <2>3 DEF AloneInv, Shared
  <2>4. CASE /\ temp' = [temp EXCEPT ![DumpName[s]] = IF Holder[s] = None THEN Dumped(s) ELSE s]
             /\ dumped' = [dumped EXCEPT ![r] = @ \union {s}]
    <3>1. /\ temp'[DumpName[s]] = IF Holder[s] = None THEN Dumped(s) ELSE s
          /\ \A n \in Names \ {DumpName[s]} : temp'[n] = temp[n]
          /\ dumped'[r] = dumped[r] \union {s}
      BY <1>D, <2>2, <2>4 DEF TypeInv
    <3>2. temp'[DumpName[s]] = s \/ Shared(r, s)
      BY <2>1, <3>1 DEF Dumped, AloneInv
    <3>3. ASSUME NEW q \in begun[r], q # s, DumpName[q] = DumpName[s] PROVE Shared(r, q)
      BY <2>1, <3>3 DEF Shared
    <3>4. \A q \in dumped[r] \union dumping[r] : q \in begun[r] /\ DumpName[q] \in Names
      BY <1>D, NamesOf DEF DumpsFollow, TypeInv
    <3>5. \A q : Shared(r, q)' = Shared(r, q)
      BY <2>1 DEF Shared
    <3>6. ASSUME NEW q \in dumped'[r] PROVE temp'[DumpName[q]] = q \/ Shared(r, q)
      BY <3>1, <3>2, <3>3, <3>4, <3>6 DEF AloneInv
    <3>7. ASSUME NEW q \in dumping'[r], Holder[q] = None, temp'[DumpName[q]] = "mixed" PROVE Shared(r, q)
      BY <2>1, <3>1, <3>3, <3>4, <3>7 DEF AloneInv
    <3> QED
      BY <2>1, <3>5, <3>6, <3>7 DEF AloneInv
  <2> QED
    BY <1>9, <2>3, <2>4 DEF DumpEnds
<1> QED
  BY <1>1, <1>2, <1>3, <1>4, <1>5, <1>6, <1>7, <1>8, <1>9, DaemonAssumption
     DEF Next, OnTick, RunNow, EndScheduled, EndManual, ScanStep

\* What a run that is alone backs up as the dump of a database is a whole dump of
\* it, unless two of its dumps are made to files of one name (dumpName).
THEOREM LoneRunsDumpWhole == Spec => []DumpsAreTheirs
<1>1. Init => AloneInv
  BY DEF Init, ScanInit, AloneInv
<1>2. AloneInv => DumpsAreTheirs
  BY DEF AloneInv, DumpsAreTheirs, Shared
<1> QED
  BY <1>1, <1>2, DaemonInvHolds, NextAloneInv, PTL DEF Spec
-----------------------------------------------------------------------------
(***************************************************************************)
(* The scheduler's timer.                                                  *)
(***************************************************************************)
LEMMA Remainder ==
    ASSUME NEW a \in Int, NEW m \in Nat \ {0}
    PROVE  a % m = a - m * (a \div m) /\ a \div m \in Int
<1>1. a % m = a - m * (a \div m)
  OBVIOUS
<1>2. a \div m \in Int
  OBVIOUS
<1> QED
  BY <1>1, <1>2

LEMMA Multiple ==
    ASSUME NEW q \in Int, NEW m \in Nat \ {0} PROVE (m * q) % m = 0
OBVIOUS

\* The day a timer that is set for an expression fires on is one the expression names.
Due(every, d, t) == every > MaxDelay \/ (d + t) % every = 0

LEMMA TimerIsDue ==
    ASSUME NEW every \in Nat \ {0}, NEW d \in Nat
    PROVE  /\ SetTimeout(every - (d % every)) \in Nat
           /\ Due(every, d, SetTimeout(every - (d % every)))
<1>1. d % every \in 0..(every - 1)
  OBVIOUS
<1>2. MaxDelay \in Nat
  BY DaemonAssumption
<1>3. SetTimeout(every - (d % every)) \in Nat
  BY <1>1, <1>2 DEF SetTimeout
<1>4. CASE every <= MaxDelay
  <2>1. SetTimeout(every - (d % every)) = every - (d % every)
    BY <1>1, <1>2, <1>4 DEF SetTimeout
  <2> DEFINE q == d \div every
  <2>2. q \in Int /\ d % every = d - every * q
    BY Remainder
  <2>3. d + (every - (d % every)) = every * (q + 1)
    <3> HIDE DEF q
    <3> QED
      BY <2>2
  <2>4. q + 1 \in Int
    BY <2>2
  <2>5. (every * (q + 1)) % every = 0
    <3> HIDE DEF q
    <3> QED
      BY <2>4, Multiple
  <2> QED
    BY <1>3, <2>1, <2>3, <2>5 DEF Due
<1> QED
  BY <1>2, <1>3, <1>4 DEF Due

LEMMA DueTheNextDay ==
    ASSUME NEW every \in Nat \ {0}, Cycle % every = 0, NEW d \in Nat, NEW t \in Nat \ {0},
           Due(every, d, t)
    PROVE  Due(every, (d + 1) % Cycle, t - 1)
<1>1. SUFFICES ASSUME (d + t) % every = 0 PROVE (((d + 1) % Cycle) + (t - 1)) % every = 0
  BY DEF Due
<1>2. Cycle \in Nat \ {0}
  BY DaemonAssumption
<1>3. PICK k \in Int : ((d + 1) % Cycle) = (d + 1) - Cycle * k
  <2>1. d + 1 \in Int
    OBVIOUS
  <2>2. ((d + 1) % Cycle) = (d + 1) - Cycle * ((d + 1) \div Cycle) /\ (d + 1) \div Cycle \in Int
    BY <1>2, <2>1, Remainder
  <2> QED
    BY <2>2
<1>4. PICK q \in Int : d + t = every * q
  <2>1. d + t \in Int
    OBVIOUS
  <2>2. (d + t) % every = (d + t) - every * ((d + t) \div every) /\ (d + t) \div every \in Int
    BY <2>1, Remainder
  <2>3. every * ((d + t) \div every) \in Int
    BY <2>2
  <2>4. d + t = every * ((d + t) \div every)
    BY <1>1, <2>1, <2>2, <2>3
  <2> QED
    BY <2>2, <2>4
<1>5. PICK n \in Int : Cycle = every * n
  <2>1. Cycle % every = Cycle - every * (Cycle \div every) /\ Cycle \div every \in Int
    BY <1>2, Remainder
  <2> QED
    BY <1>2, <2>1
<1>6. ((d + 1) % Cycle) + (t - 1) = every * q - (every * n) * k
  <2>1. ((d + 1) % Cycle) + (t - 1) = (d + t) - Cycle * k
    <3>1. d + 1 \in Int /\ Cycle * k \in Int
      BY <1>2
    <3> QED
      BY <1>3, <3>1
  <2> QED
    BY <1>4, <1>5, <2>1
<1>7. every * q - (every * n) * k = every * (q - n * k)
  OBVIOUS
<1>8. q - n * k \in Int
  OBVIOUS
<1> QED
  BY <1>6, <1>7, <1>8, Multiple

ClockInv ==
    /\ running \in BOOLEAN /\ day \in Nat /\ timer \in Nat \union {None}
    /\ ~running => timer = None /\ stage["scheduled"] = "none"
    /\ running /\ config.every # 0 => (timer = None <=> stage["scheduled"] # "none")
    /\ timer # None => config.every # 0 /\ Due(config.every, day, timer)

\* The clock as a start of the daemon or the end of a scheduled run leaves it.
LEMMA ClockIsSet ==
    ASSUME NEW c \in Configs, day \in Nat, running', day' = day, config' = c,
           timer' = ScheduleNext(c), stage'["scheduled"] = "none", running' \in BOOLEAN
    PROVE  ClockInv'
<1>1. CASE c.every = 0
  BY <1>1 DEF ScheduleNext, ClockInv
<1>2. CASE c.every # 0
  <2>1. c.every \in Nat \ {0} /\ None \notin Nat
    BY <1>2, DaemonAssumption
  <2>2. timer' \in Nat /\ Due(c.every, day, timer')
    BY <1>2, <2>1, TimerIsDue DEF ScheduleNext
  <2> QED
    BY <1>2, <2>1, <2>2 DEF ClockInv
<1> QED
  BY <1>1, <1>2

LEMMA NextClockInv == DaemonInv /\ ClockInv /\ [Next]_vars => ClockInv'
<1> SUFFICES ASSUME DaemonInv, ClockInv, [Next]_vars PROVE ClockInv'
  OBVIOUS
<1> USE DEF DaemonInv
<1>D. "scheduled" \in Runs /\ "manual" \in Runs /\ None \notin Nat
  BY DaemonAssumption
<1>0. ASSUME UNCHANGED <<config, running, timer, day>>, stage'["scheduled"] = "none" <=> stage["scheduled"] = "none"
      PROVE  ClockInv'
  BY <1>0 DEF ClockInv
<1>1. CASE EditFile \/ UNCHANGED vars
  BY <1>0, <1>1 DEF EditFile, vars, scan
<1>2. CASE StartDaemon
  BY <1>2, ClockIsSet DEF StartDaemon, ClockInv, ConfigOK, scan
<1>3. CASE OnTick
  <2>1. /\ stage'["scheduled"] # "none" /\ timer' = None /\ running'
        /\ UNCHANGED <<running, day, config>>
    BY <1>3, <1>D DEF OnTick, BeginRun, TypeInv
  <2> QED
    BY <2>1 DEF ClockInv
<1>4. CASE RunNow
  <2>1. stage'["scheduled"] = stage["scheduled"]
    BY <1>4, <1>D DEF RunNow, BeginRun, TypeInv
  <2> QED
    BY <1>0, <1>4, <2>1 DEF RunNow
<1>5. CASE EndScheduled
  <2>1. stage["scheduled"] # "none" /\ stage'["scheduled"] = "none"
    BY <1>5, <1>D DEF EndScheduled, EndRun, TypeInv
  <2> QED
    BY <1>5, <2>1, ClockIsSet DEF EndScheduled, ClockInv, ConfigOK
<1>6. CASE EndManual
  <2>1. stage'["scheduled"] = stage["scheduled"]
    BY <1>6, <1>D DEF EndManual, EndRun, TypeInv
  <2> QED
    BY <1>0, <1>6, <2>1 DEF EndManual
<1>7. CASE Exit
  <2>1. /\ stage'["scheduled"] = "none" /\ timer' = None /\ running' = FALSE /\ UNCHANGED day
    BY <1>7, <1>D DEF Exit, ScanLost
  <2> QED
    BY <2>1 DEF ClockInv
<1>8. CASE DayPasses
  <2>1. day' \in Nat
    <3>1. Cycle \in Nat \ {0}
      BY DaemonAssumption
    <3>2. (day + 1) % Cycle \in Nat
      BY <3>1 DEF ClockInv
    <3> QED
      BY <1>8, <3>2 DEF DayPasses
  <2>2. UNCHANGED <<stage, config, running>>
    BY <1>8 DEF DayPasses, scan
  <2>3. CASE timer = None
    BY <1>8, <2>1, <2>2, <2>3 DEF DayPasses, ClockInv
  <2>4. CASE timer # None
    <3>1. timer \in Nat \ {0} /\ timer' = timer - 1 /\ timer' \in Nat /\ day' = (day + 1) % Cycle
      BY <1>8, <2>4 DEF DayPasses, ClockInv
    <3>2. config.every \in Nat \ {0} /\ Cycle % config.every = 0
      BY <2>4, DaemonAssumption DEF ClockInv, ConfigOK
    <3>3. Due(config.every, day', timer')
      BY <2>4, <3>1, <3>2, DueTheNextDay DEF ClockInv
    <3> QED
      BY <1>D, <2>1, <2>2, <2>4, <3>1, <3>3 DEF ClockInv
  <2> QED
    BY <2>3, <2>4
<1>9. ASSUME NEW r \in Runs, ScanStep(r), UNCHANGED <<config, running, timer, day>> PROVE ClockInv'
  <2>1. CASE r = "scheduled"
    <3>1. stage[r] # "none"
      BY <1>9 DEF ScanStep, StopNext, ScanThrows, NextDumps, StartNext, DumpEnds, StageInv, DumpsFollow
    <3>2. stage'[r] # "none"
      BY <1>9, <3>1 DEF ScanStep, StopNext, ScanThrows, NextDumps, StartNext, DumpEnds, Resolved, TypeInv
    <3> QED
      BY <1>0, <1>9, <2>1, <3>1, <3>2
  <2>2. CASE r # "scheduled"
    <3>1. stage'["scheduled"] = stage["scheduled"]
      BY <1>9, <1>D, <2>2 DEF ScanStep, StopNext, ScanThrows, NextDumps, StartNext, DumpEnds, Resolved, TypeInv
    <3> QED
      BY <1>0, <1>9, <3>1
  <2> QED
    BY <2>1, <2>2
<1>10. ASSUME NEW c \in Switched, UserSwitches(c), UNCHANGED <<config, running, timer, day>> PROVE ClockInv'
  BY <1>0, <1>10 DEF UserSwitches
<1>11. ASSUME NEW n \in Names, Ages(n), UNCHANGED <<config, running, timer, day>> PROVE ClockInv'
  BY <1>0, <1>11 DEF Ages
<1> QED
  BY <1>1, <1>2, <1>3, <1>4, <1>5, <1>6, <1>7, <1>8, <1>9, <1>10, <1>11 DEF Next

\* One timer or one run, and runs on the days of the schedule (scheduleNext,
\* runCallback).
THEOREM TheScheduleIsKept == Spec => ScheduleIsKept
<1>1. Init => ClockInv
  <2> SUFFICES ASSUME Init PROVE ClockInv
    OBVIOUS
  <2>1. /\ running = TRUE /\ day = 0 /\ config \in Configs /\ timer = ScheduleNext(config)
        /\ stage["scheduled"] = "none" /\ None \notin Nat
    BY DaemonAssumption DEF Init, ScanInit
  <2>2. CASE config.every = 0
    BY <2>1, <2>2 DEF ScheduleNext, ClockInv
  <2>3. CASE config.every # 0
    <3>1. config.every \in Nat \ {0}
      BY <2>1, <2>3, DaemonAssumption
    <3>2. timer \in Nat /\ Due(config.every, day, timer)
      BY <2>1, <2>3, <3>1, TimerIsDue DEF ScheduleNext
    <3> QED
      BY <2>1, <2>3, <3>2 DEF ClockInv
  <2> QED
    BY <2>2, <2>3
<1>2. ASSUME DaemonInv, ClockInv, ClockInv', [Next]_vars
      PROVE  [/\ running' /\ config'.every # 0 => ((timer' = None) <=> stage'["scheduled"] # "none")
              /\ stage["scheduled"] = "none" /\ stage'["scheduled"] # "none" =>
                   day % config.every = 0 \/ config.every > MaxDelay]_vars
  <2>1. running' /\ config'.every # 0 => ((timer' = None) <=> stage'["scheduled"] # "none")
    BY <1>2 DEF ClockInv
  <2>2. ASSUME stage["scheduled"] = "none", stage'["scheduled"] # "none"
        PROVE  day % config.every = 0 \/ config.every > MaxDelay
    <3>1. OnTick
      <4>1. "scheduled" \in Runs /\ "manual" \in Runs /\ "manual" # "scheduled"
        BY DaemonAssumption
      <4>2. ~(StartDaemon \/ RunNow \/ EndScheduled \/ EndManual \/ Exit \/ EditFile \/ DayPasses \/ UNCHANGED vars)
        BY <2>2, <4>1, <1>2 DEF StartDaemon, RunNow, EndScheduled, EndManual, Exit, EditFile, DayPasses,
             vars, scan, BeginRun, EndRun, ScanLost, DaemonInv, TypeInv
      <4>3. ASSUME NEW r \in Runs, ScanStep(r) PROVE FALSE
        <5>1. stage[r] # "none"
          BY <1>2, <4>3 DEF ScanStep, StopNext, ScanThrows, NextDumps, StartNext, DumpEnds,
               DaemonInv, StageInv, DumpsFollow
        <5>2. \A q \in Runs \ {r} : stage'[q] = stage[q]
          BY <1>2, <4>3 DEF ScanStep, StopNext, ScanThrows, NextDumps, StartNext, DumpEnds, Resolved,
               DaemonInv, TypeInv
        <5> QED
          BY <2>2, <4>1, <5>1, <5>2
      <4>4. \A c \in Switched : ~UserSwitches(c)
        BY <2>2 DEF UserSwitches
      <4>5. \A n \in Names : ~Ages(n)
        BY <2>2 DEF Ages
      <4> QED
        BY <1>2, <4>2, <4>3, <4>4, <4>5 DEF Next
    <3>2. timer = 0 /\ None \notin Nat
      BY <3>1, DaemonAssumption DEF OnTick
    <3>3. Due(config.every, day, 0) /\ day \in Nat
      BY <1>2, <3>2 DEF ClockInv
    <3> QED
      BY <3>3 DEF Due
  <2> QED
    BY <2>1, <2>2
<1> QED
  BY <1>1, <1>2, DaemonInvHolds, NextClockInv, PTL DEF Spec, ScheduleIsKept

\* The variables of the daemon and of its runs keep their types, for any plans,
\* schedules and faults (Daemon, SourceScan).
THEOREM DaemonTypeCorrect == Spec => []TypeOK
<1> DEFINE FilesOK == /\ temp \in [Names -> Databases \union {None, "torn", "mixed"}]
                      /\ old \subseteq Names /\ left \subseteq Names /\ stuck \subseteq Containers
           ClockOK == running \in BOOLEAN /\ timer \in Nat \union {None} /\ day \in 0..(Cycle - 1)
<1>1. Init => FilesOK /\ ClockOK
  <2>1. ASSUME NEW c \in Configs, day = 0 PROVE ScheduleNext(c) \in Nat \union {None}
    BY <2>1, DaemonAssumption DEF ScheduleNext, SetTimeout
  <2> QED
    BY <2>1, DaemonAssumption DEF Init, ScanInit
<1>2. DaemonInv /\ ClockOK /\ [Next]_vars => ClockOK'
  <2> SUFFICES ASSUME DaemonInv, ClockOK, [Next]_vars PROVE ClockOK'
    OBVIOUS
  <2>1. Cycle \in Nat \ {0} /\ day \in Nat
    BY DaemonAssumption
  <2>2. ASSUME NEW c \in Configs PROVE ScheduleNext(c) \in Nat \union {None}
    <3>1. c.every \in Nat /\ MaxDelay \in Nat
      BY DaemonAssumption
    <3>2. c.every # 0 => day % c.every \in 0..(c.every - 1)
      BY <2>1, <3>1
    <3> QED
      BY <3>1, <3>2 DEF ScheduleNext, SetTimeout
  <2>3. (day + 1) % Cycle \in 0..(Cycle - 1)
    BY <2>1
  <2>4. CASE DayPasses
    BY <2>3, <2>4 DEF DayPasses
  <2> QED
    BY <2>2, <2>4 DEF DaemonInv, ConfigOK, Next, vars, StartDaemon, OnTick, RunNow, EndScheduled,
       EndManual, Exit, EditFile
<1>3. DaemonInv /\ FilesOK /\ [Next]_vars => FilesOK'
  <2> SUFFICES ASSUME DaemonInv, FilesOK, [Next]_vars PROVE FilesOK'
    OBVIOUS
  <2>1. ASSUME NEW r \in Runs, ScanStep(r) PROVE FilesOK'
    <3>1. Volumes(r) \in Seq(Containers) /\ begun[r] \subseteq Databases /\ dumping[r] \subseteq Databases
      BY DEF DaemonInv, TypeInv, PlanOK
    <3>2. CASE StopNext(r) \/ ScanThrows(r)
      BY <3>2 DEF StopNext, ScanThrows
    <3>3. CASE StartNext(r)
      <4>1. at[r] \in 1..Len(Volumes(r))
        BY <3>3 DEF StartNext, DaemonInv, TypeInv, AtOK
      <4>2. Rest(Volumes(r), at[r]) \subseteq Containers
        BY <3>1, <4>1 DEF Rest
      <4> QED
        BY <3>3, <4>2 DEF StartNext
    <3>4. CASE NextDumps(r)
      BY <3>4 DEF NextDumps
    <3>5. ASSUME NEW s \in Databases, DumpEnds(r, s) PROVE FilesOK'
      BY <3>5, NamesOf DEF DumpEnds, Dumped
    <3> QED
      BY <2>1, <3>2, <3>3, <3>4, <3>5 DEF ScanStep
  <2>2. ASSUME NEW r \in Runs, NEW p, BeginRun(r, p) PROVE FilesOK'
    BY <2>2 DEF BeginRun
  <2>3. ASSUME NEW r \in Runs, EndRun(r) PROVE FilesOK'
    <3>1. temp' \in [Names -> Databases \union {None, "torn", "mixed"}]
      BY <2>3 DEF EndRun
    <3> DEFINE files == {DumpName[s] : s \in begun[r]}
    <3>2. \A n \in files : n \in Names
      BY NamesOf DEF DaemonInv, TypeInv
    <3> HIDE DEF files
    <3>3. PICK kept \in SUBSET files :
                 old' = old \ (files \ kept) /\ left' = (left \ (files \ kept)) \union kept
      BY <2>3 DEF EndRun, Refused, files
    <3>4. stuck' = stuck
      BY <2>3 DEF EndRun
    <3> QED
      BY <3>1, <3>2, <3>3, <3>4
  <2>4. CASE Exit
    BY <2>4 DEF Exit, ScanLost
  <2>5. ASSUME NEW c \in Switched, UserSwitches(c) PROVE FilesOK'
    BY <2>5 DEF UserSwitches
  <2>6. ASSUME NEW n \in Names, Ages(n) PROVE FilesOK'
    BY <2>6 DEF Ages
  <2>7. ASSUME UNCHANGED scan PROVE FilesOK'
    BY <2>7 DEF scan
  <2> QED
    BY <2>1, <2>2, <2>3, <2>4, <2>5, <2>6, <2>7, DaemonAssumption DEF Next, vars, StartDaemon, OnTick, RunNow,
       EndScheduled, EndManual, EditFile, DayPasses
<1>4. DaemonInv /\ FilesOK /\ ClockOK => TypeOK
  BY DEF DaemonInv, TypeInv, Stages, ConfigOK, StageInv, DumpsFollow, TypeOK, ScanTypeOK
<1> QED
  BY <1>1, <1>2, <1>3, <1>4, DaemonInvHolds, PTL DEF Spec
=============================================================================
