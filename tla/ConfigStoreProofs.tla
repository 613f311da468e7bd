--------------------------- MODULE ConfigStoreProofs ---------------------------
(***************************************************************************)
(* What requests may make of the config file, for every set of paths and   *)
(* destinations, and every number of edits, by requests and by hand.       *)
(***************************************************************************)
EXTENDS ConfigStore, SequenceTheorems, TLAPS

Fields == {"paths", "sqlite", "sources", "destinations", "schedule", "exclude"}
Unique == {"paths", "sqlite"}

\* The file found at the start lists no path twice.
ListedOnce == \A l \in Unique : IsInjective(FirstConfig[l])

\* A config; it lists no path twice if that file did not.
Sound(c) ==
    /\ DOMAIN c = Fields /\ c["schedule"] \in Settings
    /\ \A l \in Lists : c[l] \in Seq(Keys)
    /\ ListedOnce => \A l \in Unique : IsInjective(c[l])

LEMMA RemoveAtShifts ==
    ASSUME NEW K, NEW s \in Seq(K), NEW i \in 1..Len(s)
    PROVE  /\ RemoveAt(s, i) \in Seq(K) /\ Len(RemoveAt(s, i)) = Len(s) - 1
           /\ \A j \in 1..Len(s) - 1 : RemoveAt(s, i)[j] = s[IF j < i THEN j ELSE j + 1]
<1> DEFINE a == SubSeq(s, 1, i - 1)
           b == SubSeq(s, i + 1, Len(s))
<1>1. Len(s) \in Nat /\ i \in Nat /\ i >= 1 /\ i <= Len(s)
  OBVIOUS
<1>2. a \in Seq(K) /\ Len(a) = i - 1 /\ \A j \in 1..i - 1 : a[j] = s[j]
  BY <1>1
<1>3. b \in Seq(K) /\ Len(b) = Len(s) - i /\ \A j \in 1..Len(s) - i : b[j] = s[i + j]
  BY <1>1
<1> HIDE DEF a, b
<1>4. /\ a \o b \in Seq(K) /\ Len(a \o b) = Len(a) + Len(b)
      /\ \A j \in 1..Len(a) + Len(b) : (a \o b)[j] = IF j <= Len(a) THEN a[j] ELSE b[j - Len(a)]
  BY <1>2, <1>3, ConcatProperties
<1>5. ASSUME NEW j \in 1..Len(s) - 1 PROVE (a \o b)[j] = s[IF j < i THEN j ELSE j + 1]
  <2>1. CASE j < i
    BY <1>1, <1>2, <1>3, <1>4, <2>1
  <2>2. CASE ~(j < i)
    <3>1. (a \o b)[j] = b[j - (i - 1)] /\ j - (i - 1) \in 1..Len(s) - i
      BY <1>1, <1>2, <1>3, <1>4, <2>2
    <3>2. i + (j - (i - 1)) = j + 1
      BY <1>1
    <3> QED
      BY <1>3, <2>2, <3>1, <3>2
  <2> QED
    BY <2>1, <2>2
<1>6. Len(a \o b) = Len(s) - 1
  BY <1>1, <1>2, <1>3, <1>4
<1> QED
  BY <1>4, <1>5, <1>6 DEF RemoveAt, a, b

\* What is left of a list without its i-th entry is in it at another place.
LEMMA RemoveAtKeeps ==
    ASSUME NEW K, NEW s \in Seq(K), NEW i \in 1..Len(s)
    PROVE  /\ RemoveAt(s, i) \in Seq(K)
           /\ \A j \in DOMAIN RemoveAt(s, i) : \E k \in DOMAIN s \ {i} : RemoveAt(s, i)[j] = s[k]
           /\ IsInjective(s) => IsInjective(RemoveAt(s, i))
<1> DEFINE t == RemoveAt(s, i)
           up(j) == IF j < i THEN j ELSE j + 1
<1>1. /\ t \in Seq(K) /\ DOMAIN t = 1..Len(s) - 1 /\ DOMAIN s = 1..Len(s) /\ Len(s) \in Nat
      /\ \A j \in DOMAIN t : t[j] = s[up(j)]
  <2>1. /\ t \in Seq(K) /\ Len(t) = Len(s) - 1
        /\ \A j \in 1..Len(s) - 1 : t[j] = s[up(j)]
    BY RemoveAtShifts
  <2> HIDE DEF t, up
  <2>2. DOMAIN t = 1..Len(t)
    BY <2>1
  <2> QED
    BY <2>1, <2>2
<1> HIDE DEF t
<1>2. \A j \in DOMAIN t : up(j) \in DOMAIN s \ {i}
  BY <1>1
<1>3. \A j, k \in DOMAIN t : up(j) = up(k) => j = k
  BY <1>1
<1> HIDE DEF up
<1>4. IsInjective(s) => IsInjective(t)
  BY <1>1, <1>2, <1>3 DEF IsInjective
<1> QED
  BY <1>1, <1>2, <1>4 DEF t

LEMMA AppendKeeps ==
    ASSUME NEW K, NEW s \in Seq(K), NEW k \in K
    PROVE  /\ Append(s, k) \in Seq(K)
           /\ IsInjective(s) /\ (\A i \in DOMAIN s : s[i] # k) => IsInjective(Append(s, k))
<1>1. /\ Append(s, k) \in Seq(K) /\ Len(s) \in Nat /\ DOMAIN s = 1..Len(s)
      /\ DOMAIN Append(s, k) = 1..Len(s) + 1
      /\ Append(s, k)[Len(s) + 1] = k /\ \A i \in 1..Len(s) : Append(s, k)[i] = s[i]
  OBVIOUS
<1>2. \A i \in 1..Len(s) + 1 : i = Len(s) + 1 \/ i \in 1..Len(s)
  BY <1>1
<1> QED
  BY <1>1, <1>2 DEF IsInjective
-----------------------------------------------------------------------------
\* An entry k that is not in the list l is added to it.
LEMMA AddSound ==
    ASSUME NEW c, Sound(c), NEW l \in Lists, NEW k \in Keys,
           l \in Unique => \A i \in DOMAIN c[l] : c[l][i] # k
    PROVE  LET n == [c EXCEPT ![l] = Append(@, k)]
           IN  Sound(n) /\ n[l] = Append(c[l], k) /\ \A m \in Fields \ {l} : n[m] = c[m]
<1> DEFINE n == [c EXCEPT ![l] = Append(@, k)]
<1>1. /\ DOMAIN n = Fields /\ n[l] = Append(c[l], k) /\ \A m \in Fields \ {l} : n[m] = c[m]
      /\ Lists \subseteq Fields /\ l # "schedule" /\ "schedule" \in Fields
  BY DEF Sound, Lists, Fields
<1> HIDE DEF n
<1>2. \A m \in Lists : n[m] \in Seq(Keys)
  BY <1>1, AppendKeeps DEF Sound
<1>3. ASSUME ListedOnce, NEW m \in Unique PROVE IsInjective(n[m])
  <2>1. m \in Fields
    BY DEF Unique, Fields
  <2>2. CASE m = l
    BY <1>1, <1>3, <2>2, AppendKeeps DEF Sound
  <2>3. CASE m # l
    BY <1>1, <1>3, <2>1, <2>3 DEF Sound
  <2> QED
    BY <2>2, <2>3
<1>4. Sound(n)
  BY <1>1, <1>2, <1>3 DEF Sound
<1> QED
  BY <1>1, <1>4 DEF n

LEMMA RemoveSound ==
    ASSUME NEW c, Sound(c), NEW l \in Lists, NEW i \in DOMAIN c[l]
    PROVE  /\ Sound(RemoveSourceEntry(c, l, i))
           /\ RemoveSourceEntry(c, l, i)[l] = RemoveAt(c[l], i)
           /\ \A m \in Fields \ {l} : RemoveSourceEntry(c, l, i)[m] = c[m]
<1> DEFINE n == [c EXCEPT ![l] = RemoveAt(@, i)]
<1>1. /\ DOMAIN n = Fields /\ n[l] = RemoveAt(c[l], i) /\ \A m \in Fields \ {l} : n[m] = c[m]
      /\ Lists \subseteq Fields /\ l # "schedule" /\ "schedule" \in Fields
  BY DEF Sound, Lists, Fields
<1> HIDE DEF n
<1>2. c[l] \in Seq(Keys) /\ i \in 1..Len(c[l])
  BY DEF Sound
<1>3. \A m \in Lists : n[m] \in Seq(Keys)
  BY <1>1, <1>2, RemoveAtKeeps DEF Sound
<1>4. ASSUME ListedOnce, NEW m \in Unique PROVE IsInjective(n[m])
  <2>1. m \in Fields
    BY DEF Unique, Fields
  <2>2. CASE m = l
    BY <1>1, <1>2, <1>4, <2>2, RemoveAtKeeps DEF Sound
  <2>3. CASE m # l
    BY <1>1, <1>4, <2>1, <2>3 DEF Sound
  <2> QED
    BY <2>2, <2>3
<1>5. Sound(n)
  BY <1>1, <1>3, <1>4 DEF Sound
<1> QED
  BY <1>1, <1>5 DEF RemoveSourceEntry, n

\* A field that no source is listed in is changed.
LEMMA SetSound ==
    ASSUME NEW c, Sound(c), NEW f \in {"destinations", "schedule", "exclude"}, NEW v,
           f = "schedule" => v \in Settings
    PROVE  LET n == [c EXCEPT ![f] = v]
           IN  Sound(n) /\ n[f] = v /\ \A m \in Fields \ {f} : n[m] = c[m]
<1> DEFINE n == [c EXCEPT ![f] = v]
<1>1. /\ DOMAIN n = Fields /\ n[f] = v /\ \A m \in Fields \ {f} : n[m] = c[m]
      /\ Lists \subseteq Fields \ {f} /\ Unique \subseteq Fields \ {f} /\ "schedule" \in Fields
  BY DEF Sound, Lists, Unique, Fields
<1> HIDE DEF n
<1>2. Sound(n)
  BY <1>1 DEF Sound
<1> QED
  BY <1>1, <1>2 DEF n

\* An entry that is found is in its list, and is found in any config with that list.
LEMMA EntriesAre ==
    ASSUME NEW c, NEW p \in Entries(c)
    PROVE  /\ p[1] \in Lists /\ p[2] \in DOMAIN c[p[1]]
           /\ \A d : d[p[1]] = c[p[1]] => p \in Entries(d)
<1>1. PICK l \in Lists : p \in {<<l, i>> : i \in {i \in DOMAIN c[l] : \A j \in 1..i - 1 : c[l][j] # c[l][i]}}
  BY DEF Entries
<1>2. PICK i \in DOMAIN c[l] : p = <<l, i>> /\ \A j \in 1..i - 1 : c[l][j] # c[l][i]
  BY <1>1
<1>3. p[1] = l /\ p[2] = i
  BY <1>2
<1>4. ASSUME NEW d, d[l] = c[l] PROVE p \in Entries(d)
  <2>1. i \in {k \in DOMAIN d[l] : \A j \in 1..k - 1 : d[l][j] # d[l][k]}
    BY <1>2, <1>4
  <2>2. p \in {<<l, k>> : k \in {k \in DOMAIN d[l] : \A j \in 1..k - 1 : d[l][j] # d[l][k]}}
    BY <1>2, <2>1
  <2> QED
    BY <2>2 DEF Entries
<1> QED
  BY <1>2, <1>3, <1>4

\* What each edit does to the config, and what it asks of it.
LEMMA CreateKind ==
    ASSUME NEW c, NEW e \in CreateSource(c)
    PROVE  \E s \in Lists \X Keys :
             /\ ~IsDuplicate(c, s[1], s[2], 0)
             /\ e = Edit({s[1]}, [c EXCEPT ![s[1]] = Append(@, s[2])])
BY DEF CreateSource

LEMMA DeleteKind ==
    ASSUME NEW c, NEW e \in DeleteSource(c)
    PROVE  \E p \in Entries(c) : e = Edit({p[1]}, RemoveSourceEntry(c, p[1], p[2]))
BY DEF DeleteSource

Updated(c, p, s) ==
    Edit({p[1], s[1]}, [RemoveSourceEntry(c, p[1], p[2]) EXCEPT ![s[1]] = Append(@, s[2])])
MayUpdate(c, p, s) == ~IsDuplicate(c, s[1], s[2], IF s[1] = p[1] THEN p[2] ELSE 0)

LEMMA UpdatesAre ==
    ASSUME NEW c
    PROVE  UpdateSource(c) =
             UNION {{Updated(c, p, s) : s \in {s \in Lists \X Keys : MayUpdate(c, p, s)}} : p \in Entries(c)}
BY DEF UpdateSource, Updated, MayUpdate

LEMMA UpdateKind ==
    ASSUME NEW c, NEW e \in UpdateSource(c)
    PROVE  \E p \in Entries(c) : \E s \in Lists \X Keys : MayUpdate(c, p, s) /\ e = Updated(c, p, s)
BY UpdatesAre

\* A field that is no list of sources is set, and would be in any config that has
\* the same in it.
Set(c, f, v) == Edit({f}, [c EXCEPT ![f] = v])
Settable(c, e, f, v) ==
    /\ e = Set(c, f, v)
    /\ f = "schedule" => v \in Settings
    /\ \A d : d[f] = c[f] => Set(d, f, v) \in Edits(d)

Without(c, d) == RemoveAt(c["destinations"], SelectInSeq(c["destinations"], LAMBDA e : e = d))
LEMMA DeletesAre ==
    ASSUME NEW c
    PROVE  DeleteDestination(c) =
             {Set(c, "destinations", Without(c, d)) : d \in {d \in DestIds : Contains(c["destinations"], d)}}
BY DEF DeleteDestination, Set, Without

LEMMA SettingKind ==
    ASSUME NEW c,
           NEW e \in CreateDestination(c) \union DeleteDestination(c) \union UpdateSchedule(c) \union UpdateExclude(c)
    PROVE  \E f \in {"destinations", "schedule", "exclude"} : \E v : Settable(c, e, f, v)
<1>1. CASE e \in CreateDestination(c)
  <2>1. PICK d \in DestIds : e = Edit({"destinations"}, [c EXCEPT !["destinations"] = Append(@, d)])
    BY <1>1 DEF CreateDestination
  <2> DEFINE v == Append(c["destinations"], d)
  <2>2. e = Set(c, "destinations", v)
    BY <2>1 DEF Set
  <2>3. ASSUME NEW n, n["destinations"] = c["destinations"] PROVE Set(n, "destinations", v) \in Edits(n)
    <3>1. Set(n, "destinations", v) = Edit({"destinations"}, [n EXCEPT !["destinations"] = Append(@, d)])
      BY <2>3 DEF Set
    <3> QED
      BY <3>1 DEF CreateDestination, Edits
  <2> HIDE DEF v
  <2> QED
    BY <2>2, <2>3 DEF Settable
<1>2. CASE e \in DeleteDestination(c)
  <2>1. PICK d \in DestIds : Contains(c["destinations"], d) /\ e = Set(c, "destinations", Without(c, d))
    BY <1>2, DeletesAre
  <2>2. ASSUME NEW n, n["destinations"] = c["destinations"]
        PROVE  Set(n, "destinations", Without(c, d)) \in Edits(n)
    <3>1. Contains(n["destinations"], d) /\ Without(c, d) = Without(n, d)
      BY <2>1, <2>2 DEF Without
    <3>2. Set(n, "destinations", Without(n, d)) \in DeleteDestination(n)
      BY <3>1, DeletesAre
    <3> QED
      BY <3>1, <3>2 DEF Edits
  <2> QED
    BY <2>1, <2>2 DEF Settable
<1>3. CASE e \in UpdateSchedule(c)
  <2>1. PICK v \in Settings : e = Set(c, "schedule", v)
    BY <1>3 DEF UpdateSchedule, Set
  <2>2. \A n : Set(n, "schedule", v) \in Edits(n)
    BY DEF UpdateSchedule, Set, Edits
  <2> QED
    BY <2>1, <2>2 DEF Settable
<1>4. CASE e \in UpdateExclude(c)
  <2>1. PICK v \in Settings : e = Set(c, "exclude", v)
    BY <1>4 DEF UpdateExclude, Set
  <2>2. \A n : Set(n, "exclude", v) \in Edits(n)
    BY DEF UpdateExclude, Set, Edits
  <2> QED
    BY <2>1, <2>2 DEF Settable
<1> QED
  BY <1>1, <1>2, <1>3, <1>4

LEMMA UpdateSound ==
    ASSUME NEW c, Sound(c), NEW m \in Lists, NEW l \in Lists, NEW k \in Keys, NEW i \in DOMAIN c[m],
           ~IsDuplicate(c, l, k, IF l = m THEN i ELSE 0)
    PROVE  LET n == RemoveSourceEntry(c, m, i)
               u == [n EXCEPT ![l] = Append(@, k)]
           IN  Sound(u) /\ \A f \in Fields \ {m, l} : u[f] = c[f]
<1> DEFINE n == RemoveSourceEntry(c, m, i)
<1>1. /\ Sound(n) /\ n[m] = RemoveAt(c[m], i)
      /\ \A f \in Fields \ {m} : n[f] = c[f]
  BY RemoveSound
<1> HIDE DEF n
<1>2. l \in Unique => \A j \in DOMAIN n[l] : n[l][j] # k
  <2>1. CASE l = m
    <3>1. c[m] \in Seq(Keys) /\ i \in 1..Len(c[m])
      BY DEF Sound
    <3>2. \A j \in DOMAIN n[m] : \E q \in DOMAIN c[m] \ {i} : n[m][j] = c[m][q]
      BY <1>1, <3>1, RemoveAtKeeps
    <3> QED
      BY <2>1, <3>2 DEF IsDuplicate, Unique
  <2>2. CASE l # m
    <3>1. n[l] = c[l] /\ \A j \in DOMAIN c[l] : j # 0
      BY <1>1, <2>2 DEF Sound, Lists, Fields
    <3> QED
      BY <2>2, <3>1 DEF IsDuplicate, Unique
  <2> QED
    BY <2>1, <2>2
<1>3. LET u == [n EXCEPT ![l] = Append(@, k)] IN Sound(u) /\ \A f \in Fields \ {l} : u[f] = n[f]
  BY <1>1, <1>2, AddSound
<1> QED
  BY <1>1, <1>3 DEF n

LEMMA EditsSound ==
    ASSUME NEW c, Sound(c), NEW e \in Edits(c)
    PROVE  Sound(e.config) /\ \A f \in Fields \ e.fields : e.config[f] = c[f]
<1>1. CASE e \in CreateSource(c)
  <2>1. PICK s \in Lists \X Keys :
          /\ ~IsDuplicate(c, s[1], s[2], 0)
          /\ e = Edit({s[1]}, [c EXCEPT ![s[1]] = Append(@, s[2])])
    BY <1>1, CreateKind
  <2>2. s[1] \in Lists /\ s[2] \in Keys
    OBVIOUS
  <2>3. s[1] \in Unique => \A i \in DOMAIN c[s[1]] : c[s[1]][i] # s[2]
    <3>1. \A i \in DOMAIN c[s[1]] : i # 0
      BY <2>2 DEF Sound
    <3> QED
      BY <2>1, <3>1 DEF IsDuplicate, Unique
  <2>4. e.fields = {s[1]} /\ e.config = [c EXCEPT ![s[1]] = Append(@, s[2])]
    BY <2>1 DEF Edit
  <2> QED
    BY <2>2, <2>3, <2>4, AddSound
<1>2. CASE e \in DeleteSource(c)
  <2>1. PICK p \in Entries(c) : e = Edit({p[1]}, RemoveSourceEntry(c, p[1], p[2]))
    BY <1>2, DeleteKind
  <2>2. e.fields = {p[1]} /\ e.config = RemoveSourceEntry(c, p[1], p[2])
    BY <2>1 DEF Edit
  <2> QED
    BY <2>2, EntriesAre, RemoveSound
<1>3. CASE e \in UpdateSource(c)
  <2>1. PICK p \in Entries(c) : \E s \in Lists \X Keys :
          MayUpdate(c, p, s) /\ e = Updated(c, p, s)
    BY <1>3, UpdateKind
  <2>2. PICK s \in Lists \X Keys :
          MayUpdate(c, p, s) /\ e = Updated(c, p, s)
    BY <2>1
  <2> DEFINE l == s[1]
             k == s[2]
             m == p[1]
             i == p[2]
  <2>3. l \in Lists /\ k \in Keys /\ m \in Lists /\ i \in DOMAIN c[m]
    BY EntriesAre
  <2>4. /\ ~IsDuplicate(c, l, k, IF l = m THEN i ELSE 0)
        /\ e.fields = {m, l}
        /\ e.config = [RemoveSourceEntry(c, m, i) EXCEPT ![l] = Append(@, k)]
    BY <2>2 DEF Edit, Updated, MayUpdate
  <2> HIDE DEF l, k, m, i
  <2>5. LET n == RemoveSourceEntry(c, m, i)
            u == [n EXCEPT ![l] = Append(@, k)]
        IN  Sound(u) /\ \A f \in Fields \ {m, l} : u[f] = c[f]
    BY <2>3, <2>4, UpdateSound
  <2> QED
    BY <2>4, <2>5
<1>4. CASE e \in CreateDestination(c) \union DeleteDestination(c) \union UpdateSchedule(c) \union UpdateExclude(c)
  <2>1. PICK f \in {"destinations", "schedule", "exclude"} : \E v : Settable(c, e, f, v)
    BY <1>4, SettingKind
  <2>2. PICK v : Settable(c, e, f, v)
    BY <2>1
  <2>3. /\ e.fields = {f} /\ e.config = [c EXCEPT ![f] = v]
        /\ f = "schedule" => v \in Settings
    BY <2>2 DEF Edit, Set, Settable
  <2>4. LET n == [c EXCEPT ![f] = v]
        IN  Sound(n) /\ \A g \in Fields \ {f} : n[g] = c[g]
    BY <2>3, SetSound
  <2> QED
    BY <2>3, <2>4
<1> QED
  BY <1>1, <1>2, <1>3, <1>4 DEF Edits
-----------------------------------------------------------------------------
\* The cache, while it is fresh, is the file, but for the changes that could not
\* be written.
StoreInv ==
    /\ Sound(file.config)
    /\ cached # None =>
         /\ Sound(cached)
         /\ cachedFresh => \A f \in Fields \ dirty : cached[f] = file.config[f]
    /\ SummaryFollows

LEMMA GotSound ==
    ASSUME StoreInv, NEW got \in GetConfig
    PROVE  /\ Sound(got.config)
           /\ \A f \in Fields \ got.dirty : got.config[f] = file.config[f]
           /\ got.dirty = dirty \/ got.dirty = {}
<1>1. CASE cached # None /\ cachedFresh
  BY <1>1 DEF GetConfig, StoreInv
<1>2. CASE ~(cached # None /\ cachedFresh)
  BY <1>2 DEF GetConfig, StoreInv
<1> QED
  BY <1>1, <1>2

LEMMA NextStoreInv == StoreInv /\ [Next]_vars => StoreInv'
<1> SUFFICES ASSUME StoreInv, [Next]_vars PROVE StoreInv'
  OBVIOUS
<1>1. CASE EditByRequest
  <2>1. PICK got \in GetConfig : \E e \in Edits(got.config) :
         \/ /\ file' = [whole |-> TRUE, config |-> e.config]
            /\ cached' = None /\ cachedFresh' = FALSE /\ dirty' = {}
            /\ activeFresh' = FALSE /\ exclusions' = AfterEdit(e.fields)
            /\ elsewhere' = (elsewhere \/ "exclude" \in got.dirty)
         \/ /\ cached' = e.config /\ cachedFresh' = TRUE /\ dirty' = got.dirty \union e.fields
            /\ UNCHANGED <<file, activeFresh, exclusions, elsewhere>>
         \/ /\ file' = [whole |-> FALSE, config |-> e.config]
            /\ cached' = e.config /\ cachedFresh' = FALSE /\ dirty' = {}
            /\ activeFresh' = FALSE /\ elsewhere' = TRUE /\ UNCHANGED exclusions
    BY <1>1 DEF EditByRequest
  <2>2. PICK e \in Edits(got.config) :
         \/ /\ file' = [whole |-> TRUE, config |-> e.config]
            /\ cached' = None /\ cachedFresh' = FALSE /\ dirty' = {}
            /\ activeFresh' = FALSE /\ exclusions' = AfterEdit(e.fields)
            /\ elsewhere' = (elsewhere \/ "exclude" \in got.dirty)
         \/ /\ cached' = e.config /\ cachedFresh' = TRUE /\ dirty' = got.dirty \union e.fields
            /\ UNCHANGED <<file, activeFresh, exclusions, elsewhere>>
         \/ /\ file' = [whole |-> FALSE, config |-> e.config]
            /\ cached' = e.config /\ cachedFresh' = FALSE /\ dirty' = {}
            /\ activeFresh' = FALSE /\ elsewhere' = TRUE /\ UNCHANGED exclusions
    BY <2>1
  <2>3. /\ Sound(got.config) /\ Sound(e.config)
        /\ \A f \in Fields \ got.dirty : got.config[f] = file.config[f]
        /\ \A f \in Fields \ e.fields : e.config[f] = got.config[f]
        /\ "exclude" \in Fields
    BY GotSound, EditsSound DEF Fields
  <2>4. CASE /\ file' = [whole |-> TRUE, config |-> e.config]
             /\ cached' = None /\ cachedFresh' = FALSE /\ dirty' = {}
             /\ activeFresh' = FALSE /\ exclusions' = AfterEdit(e.fields)
             /\ elsewhere' = (elsewhere \/ "exclude" \in got.dirty)
    <3>1. file'.config = e.config
      BY <2>4
    <3>2. SummaryFollows'
      BY <2>3, <2>4, <3>1 DEF StoreInv, SummaryFollows, AfterEdit
    <3> QED
      BY <2>3, <2>4, <3>1, <3>2 DEF StoreInv
  <2>5. CASE /\ cached' = e.config /\ cachedFresh' = TRUE /\ dirty' = got.dirty \union e.fields
             /\ UNCHANGED <<file, activeFresh, exclusions, elsewhere>>
    BY <2>3, <2>5 DEF StoreInv, SummaryFollows
  <2>6. CASE /\ file' = [whole |-> FALSE, config |-> e.config]
             /\ cached' = e.config /\ cachedFresh' = FALSE /\ dirty' = {}
             /\ activeFresh' = FALSE /\ elsewhere' = TRUE /\ UNCHANGED exclusions
    BY <2>3, <2>6 DEF StoreInv, SummaryFollows
  <2> QED
    BY <2>2, <2>4, <2>5, <2>6
<1>2. CASE ReadByRequest \/ SummarizeExclusions
  <2>1. PICK got \in GetConfig : cached' = got.config /\ dirty' = got.dirty
          /\ \/ UNCHANGED <<exclusions, elsewhere>>
             \/ exclusions' = got.config.exclude /\ elsewhere' = ("exclude" \in got.dirty)
    BY <1>2 DEF ReadByRequest, SummarizeExclusions
  <2>2. /\ Sound(got.config)
        /\ \A f \in Fields \ got.dirty : got.config[f] = file.config[f]
        /\ "exclude" \in Fields
    BY GotSound DEF Fields
  <2>3. UNCHANGED file
    BY <1>2 DEF ReadByRequest, SummarizeExclusions
  <2> QED
    BY <2>1, <2>2, <2>3 DEF StoreInv, SummaryFollows
<1>3. CASE EditByHand
  <2>1. cachedFresh' = FALSE /\ elsewhere' = TRUE /\ UNCHANGED cached
    BY <1>3 DEF EditByHand
  <2>2. Sound(file'.config)
    <3>1. CASE \E v \in Settings, w \in Settings :
                 file' = [whole |-> TRUE, config |-> [file.config EXCEPT !.schedule = v, !.exclude = w]]
      <4>1. PICK v \in Settings, w \in Settings :
                 file' = [whole |-> TRUE, config |-> [file.config EXCEPT !.schedule = v, !.exclude = w]]
        BY <3>1
      <4> DEFINE n == [file.config EXCEPT !["schedule"] = v]
      <4>2. Sound(n)
        BY SetSound DEF StoreInv
      <4> HIDE DEF n
      <4>3. Sound([n EXCEPT !["exclude"] = w])
        BY <4>2, SetSound
      <4>4. file'.config = [n EXCEPT !["exclude"] = w]
        BY <4>1 DEF n
      <4> QED
        BY <4>3, <4>4
    <3>2. CASE file' = [file EXCEPT !.whole = FALSE]
      <4>1. file'.config = file.config
        BY <3>2
      <4> QED
        BY <4>1 DEF StoreInv
    <3> QED
      BY <1>3, <3>1, <3>2 DEF EditByHand
  <2> QED
    BY <2>1, <2>2 DEF StoreInv, SummaryFollows
<1>4. CASE ExclusionsExpire \/ GetActiveConfig \/ LoadConfigForApi \/ StatConfigForApi \/ Restart \/ UNCHANGED vars
  BY <1>4 DEF ExclusionsExpire, GetActiveConfig, LoadConfigForApi, StatConfigForApi, Restart, vars, cache,
     StoreInv, SummaryFollows
<1> QED
  BY <1>1, <1>2, <1>3, <1>4 DEF Next

LEMMA StoreInvHolds ==
    ASSUME ConfigAssumption
    PROVE  Spec => []StoreInv
<1>1. Sound(FirstConfig)
  <2>1. FirstConfig \in Config
    BY DEF ConfigAssumption
  <2> QED
    BY <2>1 DEF Config, Sound, ListedOnce, Fields, Lists
<1>2. Init => StoreInv
  BY <1>1 DEF Init, StoreInv, SummaryFollows
<1> QED
  BY <1>2, NextStoreInv, PTL DEF Spec

\* The summary of excluded files is about the patterns in the file, unless the
\* file was changed by other means than a request (invalidateSourceExclusions).
THEOREM SummaryIsOfTheFile ==
    ASSUME ConfigAssumption
    PROVE  Spec => []SummaryFollows
<1>1. StoreInv => SummaryFollows
  BY DEF StoreInv
<1> QED
  BY <1>1, StoreInvHolds, PTL

\* No request lists a path twice, if the file that the server found did not
\* (isDuplicate, createSource, updateSource).
THEOREM NoPathTwice ==
    ASSUME ConfigAssumption, ListedOnce
    PROVE  Spec => []SourcesAreUnique
<1>1. StoreInv => SourcesAreUnique
  BY DEF StoreInv, Sound, Unique, SourcesAreUnique
<1> QED
  BY <1>1, StoreInvHolds, PTL
-----------------------------------------------------------------------------
\* The edit x, made of the file, saves what the config d has, but for the fields D.
Saves(x, d, D) == \A f \in Fields \ D : d[f] = x.config[f]
\* What is made of a config by an entry added, by one removed, and by an update.
Adds(u, c, l, k)  == u[l] = Append(c[l], k) /\ \A f \in Fields \ {l} : u[f] = c[f]
Drops(u, c, l, i) == u[l] = RemoveAt(c[l], i) /\ \A f \in Fields \ {l} : u[f] = c[f]
Moves(u, c, m, i, l, k) ==
    /\ u[l] = Append(IF l = m THEN RemoveAt(c[m], i) ELSE c[l], k)
    /\ l # m => u[m] = RemoveAt(c[m], i)
    /\ \A f \in Fields \ {m, l} : u[f] = c[f]
\* The cache agrees with the file, but for the fields D.
Agree(c, fc, D) == Sound(c) /\ Sound(fc) /\ \A f \in Fields \ D : c[f] = fc[f]

\* Each edit of a config that agrees with the file, but for the fields D, is,
\* but for them, an edit of the file.
LEMMA NoEdit ==
    ASSUME NEW c, NEW fc, NEW D, Agree(c, fc, D),
           NEW d, \A f \in Fields \ D : d[f] = c[f]
    PROVE  \E x \in Edits(fc) : Saves(x, d, D)
<1> DEFINE x == Edit({"schedule"}, [fc EXCEPT !["schedule"] = fc["schedule"]])
<1>1. fc["schedule"] \in Settings /\ x \in UpdateSchedule(fc)
  BY DEF Agree, Sound, UpdateSchedule
<1>2. \A f \in Fields : x.config[f] = fc[f]
  BY DEF Edit, Agree, Sound, Fields
<1> HIDE DEF x
<1> QED
  BY <1>1, <1>2 DEF Edits, Saves, Agree

LEMMA CreateOfFile ==
    ASSUME NEW fc, Sound(fc), NEW s \in Lists \X Keys, ~IsDuplicate(fc, s[1], s[2], 0)
    PROVE  \E x \in Edits(fc) : Adds(x.config, fc, s[1], s[2])
<1> DEFINE x == Edit({s[1]}, [fc EXCEPT ![s[1]] = Append(@, s[2])])
<1>1. x \in CreateSource(fc)
  BY DEF CreateSource
<1>2. s[1] \in Fields /\ DOMAIN fc = Fields
  BY DEF Sound, Lists, Fields
<1>3. Adds(x.config, fc, s[1], s[2])
  BY <1>2 DEF Edit, Adds
<1> HIDE DEF x
<1> QED
  BY <1>1, <1>3 DEF Edits

LEMMA DeleteOfFile ==
    ASSUME NEW fc, Sound(fc), NEW p \in Entries(fc)
    PROVE  \E x \in Edits(fc) : Drops(x.config, fc, p[1], p[2])
<1> DEFINE x == Edit({p[1]}, RemoveSourceEntry(fc, p[1], p[2]))
<1>1. x \in DeleteSource(fc)
  BY DEF DeleteSource
<1>2. x.config = RemoveSourceEntry(fc, p[1], p[2])
  BY DEF Edit
<1>3. p[1] \in Lists /\ p[2] \in DOMAIN fc[p[1]]
  BY EntriesAre
<1>4. Drops(x.config, fc, p[1], p[2])
  <2>1. /\ RemoveSourceEntry(fc, p[1], p[2])[p[1]] = RemoveAt(fc[p[1]], p[2])
        /\ \A f \in Fields \ {p[1]} : RemoveSourceEntry(fc, p[1], p[2])[f] = fc[f]
    BY <1>3, RemoveSound
  <2> QED
    BY <1>2, <2>1 DEF Drops
<1> HIDE DEF x
<1> QED
  BY <1>1, <1>4 DEF Edits

\* What an update makes of the list m that its entry i is in, and of the list l that
\* the entry k goes to.
LEMMA UpdateMakes ==
    ASSUME NEW c, Sound(c), NEW m \in Lists, NEW i \in DOMAIN c[m], NEW l \in Lists, NEW k
    PROVE  Moves([RemoveSourceEntry(c, m, i) EXCEPT ![l] = Append(@, k)], c, m, i, l, k)
<1> DEFINE n == RemoveSourceEntry(c, m, i)
<1>1. Sound(n) /\ n[m] = RemoveAt(c[m], i) /\ \A f \in Fields \ {m} : n[f] = c[f]
  BY RemoveSound
<1> HIDE DEF n
<1>2. m \in Fields /\ l \in Fields /\ DOMAIN n = Fields
  BY <1>1 DEF Sound, Lists, Fields
<1> QED
  BY <1>1, <1>2 DEF n, Moves

LEMMA UpdateOfFile ==
    ASSUME NEW fc, Sound(fc), NEW p \in Entries(fc), NEW s \in Lists \X Keys, MayUpdate(fc, p, s)
    PROVE  \E x \in Edits(fc) :
             Moves(x.config, fc, p[1], p[2], s[1], s[2])
<1>1. Updated(fc, p, s) \in UpdateSource(fc)
  BY UpdatesAre
<1>2. Updated(fc, p, s).config = [RemoveSourceEntry(fc, p[1], p[2]) EXCEPT ![s[1]] = Append(@, s[2])]
  BY DEF Updated, Edit
<1>3. p[1] \in Lists /\ p[2] \in DOMAIN fc[p[1]] /\ s[1] \in Lists
  BY EntriesAre
<1>4. Moves(Updated(fc, p, s).config, fc, p[1], p[2], s[1], s[2])
  BY <1>2, <1>3, UpdateMakes
<1> QED
  BY <1>1, <1>4 DEF Edits

LEMMA SameSetting ==
    ASSUME NEW c, NEW fc, NEW D, Agree(c, fc, D),
           NEW e \in CreateDestination(c) \union DeleteDestination(c) \union UpdateSchedule(c) \union UpdateExclude(c)
    PROVE  \E x \in Edits(fc) : Saves(x, e.config, D)
<1>1. PICK f \in {"destinations", "schedule", "exclude"} : \E v : Settable(c, e, f, v)
  BY SettingKind
<1>2. PICK v : Settable(c, e, f, v)
  BY <1>1
<1>3. DOMAIN c = Fields /\ DOMAIN fc = Fields /\ f \in Fields
  BY DEF Agree, Sound, Fields
<1>4. \A g \in Fields : e.config[g] = IF g = f THEN v ELSE c[g]
  BY <1>2, <1>3 DEF Edit, Set, Settable
<1>5. CASE f \in D
  <2>1. \A g \in Fields \ D : e.config[g] = c[g]
    BY <1>4, <1>5
  <2> QED
    BY <2>1, NoEdit
<1>6. CASE f \notin D
  <2>1. Set(fc, f, v) \in Edits(fc)
    BY <1>2, <1>3, <1>6 DEF Settable, Agree
  <2>2. \A g \in Fields : Set(fc, f, v).config[g] = IF g = f THEN v ELSE fc[g]
    BY <1>3 DEF Set, Edit
  <2> QED
    BY <1>4, <2>1, <2>2 DEF Saves, Agree
<1> QED
  BY <1>5, <1>6

LEMMA SameCreate ==
    ASSUME NEW c, NEW fc, NEW D, Agree(c, fc, D), NEW e \in CreateSource(c)
    PROVE  \E x \in Edits(fc) : Saves(x, e.config, D)
<1>1. PICK s \in Lists \X Keys :
        /\ ~IsDuplicate(c, s[1], s[2], 0)
        /\ e = Edit({s[1]}, [c EXCEPT ![s[1]] = Append(@, s[2])])
  BY CreateKind
<1> DEFINE l == s[1]
<1>2. DOMAIN c = Fields /\ l \in Fields
  BY DEF Agree, Sound, Fields, Lists
<1>3. \A g \in Fields : e.config[g] = IF g = l THEN Append(c[l], s[2]) ELSE c[g]
  BY <1>1, <1>2 DEF Edit
<1>4. CASE l \in D
  <2>1. \A g \in Fields \ D : e.config[g] = c[g]
    BY <1>3, <1>4
  <2> QED
    BY <2>1, NoEdit
<1>5. CASE l \notin D
  <2>1. fc[l] = c[l]
    BY <1>2, <1>5 DEF Agree
  <2>2. ~IsDuplicate(fc, s[1], s[2], 0)
    BY <1>1, <2>1 DEF IsDuplicate
  <2>3. Sound(fc)
    BY DEF Agree
  <2>4. PICK x \in Edits(fc) : Adds(x.config, fc, s[1], s[2])
    BY <2>2, <2>3, CreateOfFile
  <2>5. ASSUME NEW f \in Fields \ D PROVE e.config[f] = x.config[f]
    <3>1. c[f] = fc[f]
      BY DEF Agree
    <3>2. CASE f = l
      BY <1>3, <2>1, <2>4, <3>2 DEF Adds
    <3>3. CASE f # l
      BY <1>3, <2>4, <3>1, <3>3 DEF Adds
    <3> QED
      BY <3>2, <3>3
  <2> QED
    BY <2>5 DEF Saves
<1> QED
  BY <1>4, <1>5

LEMMA SameDelete ==
    ASSUME NEW c, NEW fc, NEW D, Agree(c, fc, D), NEW e \in DeleteSource(c)
    PROVE  \E x \in Edits(fc) : Saves(x, e.config, D)
<1>1. PICK p \in Entries(c) : e = Edit({p[1]}, RemoveSourceEntry(c, p[1], p[2]))
  BY DeleteKind
<1> DEFINE l == p[1]
<1>2. l \in Lists /\ p[2] \in DOMAIN c[l] /\ \A d : d[l] = c[l] => p \in Entries(d)
  BY EntriesAre
<1>3. l \in Fields /\ e.config = RemoveSourceEntry(c, l, p[2])
  BY <1>1, <1>2 DEF Edit, Fields, Lists
<1>4. e.config[l] = RemoveAt(c[l], p[2]) /\ \A g \in Fields \ {l} : e.config[g] = c[g]
  BY <1>2, <1>3, RemoveSound DEF Agree
<1>5. CASE l \in D
  <2>1. \A g \in Fields \ D : e.config[g] = c[g]
    BY <1>4, <1>5
  <2> QED
    BY <2>1, NoEdit
<1>6. CASE l \notin D
  <2>1. fc[l] = c[l] /\ Sound(fc)
    BY <1>3, <1>6 DEF Agree
  <2>2. PICK x \in Edits(fc) : Drops(x.config, fc, p[1], p[2])
    BY <1>2, <2>1, DeleteOfFile
  <2> QED
    BY <1>4, <2>1, <2>2 DEF Saves, Agree, Drops
<1> QED
  BY <1>5, <1>6

LEMMA SameUpdate ==
    ASSUME NEW c, NEW fc, NEW D, Agree(c, fc, D), NEW e \in UpdateSource(c)
    PROVE  \E x \in Edits(fc) : Saves(x, e.config, D)
<1>1. PICK p \in Entries(c) : \E s \in Lists \X Keys : MayUpdate(c, p, s) /\ e = Updated(c, p, s)
  BY UpdateKind
<1>2. PICK s \in Lists \X Keys : MayUpdate(c, p, s) /\ e = Updated(c, p, s)
  BY <1>1
<1> DEFINE m == p[1]
           i == p[2]
           l == s[1]
           k == s[2]
<1>3. /\ m \in Lists /\ i \in DOMAIN c[m] /\ l \in Lists /\ k \in Keys
      /\ \A d : d[m] = c[m] => p \in Entries(d)
      /\ m \in Fields /\ l \in Fields
  BY EntriesAre DEF Fields, Lists
<1>4. e.config = [RemoveSourceEntry(c, m, i) EXCEPT ![l] = Append(@, k)]
  BY <1>2 DEF Updated, Edit
<1>5. Moves(e.config, c, m, i, l, k)
  <2>1. Sound(c)
    BY DEF Agree
  <2> HIDE DEF m, i, l, k
  <2>2. Moves([RemoveSourceEntry(c, m, i) EXCEPT ![l] = Append(@, k)], c, m, i, l, k)
    BY <1>3, <2>1, UpdateMakes
  <2> QED
    BY <1>4, <2>2
<1>6. Sound(fc) /\ \A f \in Fields \ D : c[f] = fc[f]
  BY DEF Agree
<1>7. ~IsDuplicate(c, l, k, IF l = m THEN i ELSE 0)
  BY <1>2 DEF MayUpdate
<1>8. CASE m \in D /\ l \in D
  <2>1. \A g \in Fields \ D : e.config[g] = c[g]
    BY <1>5, <1>8 DEF Moves
  <2> QED
    BY <2>1, NoEdit
<1>9. CASE m \in D /\ l \notin D
  <2>1. ~IsDuplicate(fc, s[1], s[2], 0)
    BY <1>3, <1>6, <1>7, <1>9 DEF IsDuplicate
  <2>2. PICK x \in Edits(fc) : Adds(x.config, fc, l, k)
    BY <1>6, <2>1, CreateOfFile
  <2>3. l # m /\ c[l] = fc[l]
    BY <1>3, <1>6, <1>9
  <2> HIDE DEF m, i, l, k
  <2>4. ASSUME NEW f \in Fields \ D PROVE e.config[f] = x.config[f]
    <3>1. CASE f = l
      BY <1>5, <2>2, <2>3, <3>1 DEF Adds, Moves
    <3>2. CASE f # l
      BY <1>5, <1>6, <1>9, <2>2, <3>2 DEF Adds, Moves
    <3> QED
      BY <3>1, <3>2
  <2> QED
    BY <2>4 DEF Saves
<1>10. CASE m \notin D /\ l \in D
  <2>1. c[m] = fc[m] /\ l # m
    BY <1>3, <1>6, <1>10
  <2>2. PICK x \in Edits(fc) : Drops(x.config, fc, m, i)
    BY <1>3, <1>6, <2>1, DeleteOfFile
  <2> HIDE DEF m, i, l, k
  <2> QED
    BY <1>5, <1>6, <1>10, <2>1, <2>2 DEF Saves, Drops, Moves
<1>11. CASE m \notin D /\ l \notin D
  <2>1. c[m] = fc[m] /\ c[l] = fc[l]
    BY <1>3, <1>6, <1>11
  <2>2. p \in Entries(fc) /\ MayUpdate(fc, p, s)
    BY <1>2, <1>3, <2>1 DEF MayUpdate, IsDuplicate
  <2>3. PICK x \in Edits(fc) : Moves(x.config, fc, m, i, l, k)
    BY <1>6, <2>2, UpdateOfFile
  <2> HIDE DEF m, i, l, k
  <2>4. ASSUME NEW f \in Fields \ D PROVE e.config[f] = x.config[f]
    <3>1. CASE f = l
      BY <1>5, <2>1, <2>3, <3>1 DEF Moves
    <3>2. CASE f # l /\ f = m
      BY <1>5, <2>1, <2>3, <3>2 DEF Moves
    <3>3. CASE f # l /\ f # m
      BY <1>5, <1>6, <2>3, <3>3 DEF Moves
    <3> QED
      BY <3>1, <3>2, <3>3
  <2> QED
    BY <2>4 DEF Saves
<1> QED
  BY <1>8, <1>9, <1>10, <1>11

LEMMA SameEdit ==
    ASSUME NEW c, NEW fc, NEW D, Agree(c, fc, D), NEW e \in Edits(c)
    PROVE  \E x \in Edits(fc) : Saves(x, e.config, D)
<1>1. CASE e \in CreateSource(c)
  BY <1>1, SameCreate
<1>2. CASE e \in DeleteSource(c)
  BY <1>2, SameDelete
<1>3. CASE e \in UpdateSource(c)
  BY <1>3, SameUpdate
<1>4. CASE e \in CreateDestination(c) \union DeleteDestination(c) \union UpdateSchedule(c) \union UpdateExclude(c)
  BY <1>4, SameSetting
<1> QED
  BY <1>1, <1>2, <1>3, <1>4 DEF Edits

\* A write of the server changes in the file what its request is about, and what
\* requests whose writes failed have left in the cache; an edit by hand, and what
\* other requests saved, stays (getConfig, writeConfig, and every edit of the store).
THEOREM OnlyEditsAreSaved ==
    ASSUME ConfigAssumption
    PROVE  Spec => OnlyTheEditIsSaved
<1> DEFINE Saved == EditByRequest /\ file'.whole =>
                      \/ UNCHANGED file
                      \/ \E e \in Edits(file.config) :
                           \A f \in DOMAIN FirstConfig : file'.config[f] = e.config[f] \/ f \in dirty
<1>1. DOMAIN FirstConfig = Fields
  BY DEF ConfigAssumption, Config, Fields
<1>2. ASSUME StoreInv, EditByRequest, file'.whole, ~UNCHANGED file
      PROVE  \E x \in Edits(file.config) : \A f \in Fields : file'.config[f] = x.config[f] \/ f \in dirty
  <2>1. PICK got \in GetConfig : \E e \in Edits(got.config) :
          \/ file' = [whole |-> TRUE, config |-> e.config]
          \/ file' = [whole |-> FALSE, config |-> e.config]
          \/ UNCHANGED file
    BY <1>2 DEF EditByRequest
  <2>2. PICK e \in Edits(got.config) :
          \/ file' = [whole |-> TRUE, config |-> e.config]
          \/ file' = [whole |-> FALSE, config |-> e.config]
          \/ UNCHANGED file
    BY <2>1
  <2>3. file'.config = e.config
    BY <1>2, <2>2
  <2>4. /\ Agree(got.config, file.config, got.dirty)
        /\ got.dirty = dirty \/ got.dirty = {}
    BY <1>2, GotSound DEF Agree, StoreInv
  <2>5. PICK x \in Edits(file.config) : Saves(x, e.config, got.dirty)
    BY <2>4, SameEdit
  <2> QED
    BY <2>3, <2>4, <2>5 DEF Saves
<1>3. StoreInv => Saved
  BY <1>1, <1>2
<1>4. StoreInv /\ [Next]_vars => [Saved]_vars
  BY <1>3
<1> QED
  BY <1>4, StoreInvHolds, PTL DEF Spec, OnlyTheEditIsSaved
=============================================================================
