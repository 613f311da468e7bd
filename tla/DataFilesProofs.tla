---------------------------- MODULE DataFilesProofs ----------------------------
(***************************************************************************)
(* What the files of the API server promise, for every number of entries,  *)
(* records and edits, and every limit.                                     *)
(***************************************************************************)
EXTENDS DataFiles, SequenceTheorems, FiniteSetTheorems, FunctionTheorems, TLAPS

\* The config file alone, and what is proved of it.
ConfigP == INSTANCE ConfigStoreProofs WITH file <- configFile

\* The two are defined alike.
LEMMA SameEdits == ASSUME NEW c PROVE Config!Edits(c) = ConfigP!Edits(c)
<1>1. Config!CreateSource(c) = ConfigP!CreateSource(c)
  BY DEF Config!CreateSource, ConfigP!CreateSource, Config!Edit, ConfigP!Edit, Config!Lists, ConfigP!Lists,
     Config!IsDuplicate, ConfigP!IsDuplicate
<1>2. Config!UpdateSource(c) = ConfigP!UpdateSource(c)
  BY DEF Config!UpdateSource, ConfigP!UpdateSource, Config!Edit, ConfigP!Edit, Config!Lists, ConfigP!Lists,
     Config!IsDuplicate, ConfigP!IsDuplicate, Config!Entries, ConfigP!Entries,
     Config!RemoveSourceEntry, ConfigP!RemoveSourceEntry, Config!RemoveAt, ConfigP!RemoveAt
<1>3. Config!DeleteSource(c) = ConfigP!DeleteSource(c)
  BY DEF Config!DeleteSource, ConfigP!DeleteSource, Config!Edit, ConfigP!Edit, Config!Lists, ConfigP!Lists,
     Config!Entries, ConfigP!Entries, Config!RemoveSourceEntry, ConfigP!RemoveSourceEntry,
     Config!RemoveAt, ConfigP!RemoveAt
<1>4. /\ Config!CreateDestination(c) = ConfigP!CreateDestination(c)
      /\ Config!DeleteDestination(c) = ConfigP!DeleteDestination(c)
      /\ Config!UpdateSchedule(c) = ConfigP!UpdateSchedule(c)
      /\ Config!UpdateExclude(c) = ConfigP!UpdateExclude(c)
  BY DEF Config!CreateDestination, ConfigP!CreateDestination, Config!DeleteDestination,
     ConfigP!DeleteDestination, Config!UpdateSchedule, ConfigP!UpdateSchedule,
     Config!UpdateExclude, ConfigP!UpdateExclude, Config!Edit, ConfigP!Edit, Config!RemoveAt, ConfigP!RemoveAt,
     Config!SelectInSeq, ConfigP!SelectInSeq, Config!Min, ConfigP!Min, Config!Contains, ConfigP!Contains
<1> QED
  BY <1>1, <1>2, <1>3, <1>4 DEF Config!Edits, ConfigP!Edits

LEMMA SameGetConfig == Config!GetConfig = ConfigP!GetConfig
BY DEF Config!GetConfig, ConfigP!GetConfig

LEMMA SameRequest == Config!EditByRequest = ConfigP!EditByRequest
BY SameEdits, SameGetConfig DEF Config!EditByRequest, ConfigP!EditByRequest, Config!AfterEdit, ConfigP!AfterEdit

\* A behaviour of the files is one of the config file.
LEMMA ConfigAlone == Spec => ConfigP!Spec
<1>1. Init => ConfigP!Init
  BY DEF Init, Config!Init, ConfigP!Init
<1>2. Config!Next => ConfigP!Next
  BY SameRequest, SameGetConfig DEF Config!Next, ConfigP!Next, Config!EditByHand, ConfigP!EditByHand,
     Config!ReadByRequest, ConfigP!ReadByRequest, Config!SummarizeExclusions, ConfigP!SummarizeExclusions,
     Config!ExclusionsExpire, ConfigP!ExclusionsExpire,
     Config!GetActiveConfig, ConfigP!GetActiveConfig, Config!LoadConfigForApi, ConfigP!LoadConfigForApi,
     Config!StatConfigForApi, ConfigP!StatConfigForApi, Config!Restart, ConfigP!Restart,
     Config!cache, ConfigP!cache
<1>3. UNCHANGED configVars => UNCHANGED ConfigP!vars
  BY DEF configVars, ConfigP!vars, ConfigP!cache
<1>4. [Next]_vars => [ConfigP!Next]_(ConfigP!vars)
  BY <1>2, <1>3 DEF Next, vars
<1> QED
  BY <1>1, <1>4, PTL DEF Spec, ConfigP!Spec

LEMMA SameAssumption == Config!ConfigAssumption <=> ConfigP!ConfigAssumption
<1>1. Config!Config = ConfigP!Config
  BY DEF Config!Config, ConfigP!Config
<1> QED
  BY <1>1 DEF Config!ConfigAssumption, ConfigP!ConfigAssumption

LEMMA SameInjective == \A s : Config!IsInjective(s) = ConfigP!IsInjective(s)
BY DEF Config!IsInjective, ConfigP!IsInjective

\* The first config has no path twice.
ListedOnce == \A l \in {"paths", "sqlite"} : Config!IsInjective(FirstConfig[l])

\* What is proved of the config file alone.
LEMMA ConfigPromises ==
    ASSUME Config!ConfigAssumption
    PROVE  /\ ListedOnce => (ConfigP!Spec => []ConfigP!SourcesAreUnique)
           /\ ConfigP!Spec => []ConfigP!SummaryFollows
           /\ ConfigP!Spec => ConfigP!OnlyTheEditIsSaved
<1>1. ConfigP!ConfigAssumption
  BY SameAssumption
<1>2. ListedOnce => ConfigP!ListedOnce
  BY SameInjective DEF ListedOnce, ConfigP!ListedOnce, ConfigP!Unique
<1>3. ConfigP!ListedOnce => (ConfigP!Spec => []ConfigP!SourcesAreUnique)
  BY <1>1, ConfigP!NoPathTwice
<1>4. ConfigP!Spec => []ConfigP!SummaryFollows
  BY <1>1, ConfigP!SummaryIsOfTheFile
<1>5. ConfigP!Spec => ConfigP!OnlyTheEditIsSaved
  BY <1>1, ConfigP!OnlyEditsAreSaved
<1> QED
  BY <1>2, <1>3, <1>4, <1>5

\* No request lists a path twice, if the first file did not (isDuplicate,
\* createSource, updateSource).
THEOREM PathsAreListedOnce == ASSUME ListedOnce PROVE Spec => []SourcesAreUnique
<1>1. Config!ConfigAssumption
  BY DataFilesAssumption
<1>2. ConfigP!Spec => []ConfigP!SourcesAreUnique
  BY <1>1, ConfigPromises
<1>3. ConfigP!SourcesAreUnique => SourcesAreUnique
  BY DEF SourcesAreUnique, Config!SourcesAreUnique, ConfigP!SourcesAreUnique, Config!IsInjective, ConfigP!IsInjective
<1> QED
  BY <1>2, <1>3, ConfigAlone, PTL

\* The summary of excluded files is about the patterns in the file, unless the file
\* was changed by other means than a request (invalidateSourceExclusions).
THEOREM SummaryIsOfTheConfig == Spec => []SummaryFollows
<1>1. Config!ConfigAssumption
  BY DataFilesAssumption
<1>2. ConfigP!Spec => []ConfigP!SummaryFollows
  BY <1>1, ConfigPromises
<1>3. ConfigP!SummaryFollows => SummaryFollows
  BY DEF SummaryFollows, Config!SummaryFollows, ConfigP!SummaryFollows
<1> QED
  BY <1>2, <1>3, ConfigAlone, PTL

\* A request changes of the config file what it is about, and what requests whose
\* writes failed have left in the cache (getConfig, writeConfig).
THEOREM RequestsSaveTheirEdit == Spec => OnlyTheEditIsSaved
<1>1. Config!ConfigAssumption
  BY DataFilesAssumption
<1>2. ConfigP!Spec => ConfigP!OnlyTheEditIsSaved
  BY <1>1, ConfigPromises
<1> DEFINE Done(s) ==
             \/ UNCHANGED configFile
             \/ \E e \in s :
                  \A f \in DOMAIN FirstConfig : configFile'.config[f] = e.config[f] \/ f \in dirty
           SavedP == ConfigP!EditByRequest /\ configFile'.whole => Done(ConfigP!Edits(configFile.config))
           Saved  == Config!EditByRequest /\ configFile'.whole => Done(Config!Edits(configFile.config))
<1>3. SavedP => Saved
  BY SameRequest, SameEdits
<1>4. UNCHANGED ConfigP!vars => UNCHANGED Config!vars
  BY DEF Config!vars, ConfigP!vars, Config!cache, ConfigP!cache
<1>5. ConfigP!OnlyTheEditIsSaved <=> [][SavedP]_(ConfigP!vars)
  BY DEF ConfigP!OnlyTheEditIsSaved
<1>6. OnlyTheEditIsSaved <=> [][Saved]_(Config!vars)
  BY DEF OnlyTheEditIsSaved, Config!OnlyTheEditIsSaved
<1> HIDE DEF SavedP, Saved
<1>7. [SavedP]_(ConfigP!vars) => [Saved]_(Config!vars)
  BY <1>3, <1>4
<1> QED
  BY <1>2, <1>5, <1>6, <1>7, ConfigAlone, PTL
-----------------------------------------------------------------------------

\* The log: its files, oldest entry first, and what is above a set of entries.
Below(s, t) == \A i \in 1..Len(s), j \in 1..Len(t) : s[i] < t[j]
Held(f, a) == Log!ToSet(a) \union Log!ToSet(f)
FilesInv(f, a, w) ==
    /\ f \in Seq(Nat) /\ a \in Seq(Nat) /\ w \subseteq Nat
    /\ Log!Increasing(f) /\ Log!Increasing(a) /\ Below(a, f)
    /\ \A e, g \in w : e < g /\ e \in Held(f, a) => g \in Held(f, a)
Above(b, f, a, w) ==
    /\ b \in Seq(Nat) /\ Log!Increasing(b)
    /\ \A i \in 1..Len(b) : \A e \in Held(f, a) \union w : e < b[i]

LEMMA ToSetIs ==
    ASSUME NEW s \in Seq(Nat)
    PROVE  /\ Log!ToSet(s) \subseteq Nat
           /\ \A i \in 1..Len(s) : s[i] \in Log!ToSet(s)
           /\ \A e \in Log!ToSet(s) : \E i \in 1..Len(s) : e = s[i]
BY DEF Log!ToSet

LEMMA NothingIn == Log!ToSet(<<>>) = {} /\ Log!Increasing(<<>>) /\ <<>> \in Seq(Nat) /\ Len(<<>>) = 0
BY DEF Log!ToSet, Log!Increasing

\* A part of an increasing sequence.
LEMMA PartOf ==
    ASSUME NEW s \in Seq(Nat), Log!Increasing(s), NEW m \in {1, 2}, NEW n \in 0..Len(s)
    PROVE  LET t == SubSeq(s, m, n)
           IN  /\ t \in Seq(Nat) /\ Log!Increasing(t)
               /\ \A i \in 1..Len(t) : \E j \in 1..Len(s) : t[i] = s[j]
<1> DEFINE t == SubSeq(s, m, n)
<1>1. /\ t \in Seq(Nat) /\ Len(t) \in Nat /\ Len(t) = IF m <= n THEN n - m + 1 ELSE 0
      /\ \A i \in 1..Len(t) : t[i] = s[m + i - 1] /\ m + i - 1 \in 1..Len(s)
  <2>1. /\ m \in Int /\ n \in Int /\ m >= 1 /\ n <= Len(s) /\ Len(s) \in Nat
        /\ \A i \in m..n : i \in 1..Len(s) /\ s[i] \in Nat
    OBVIOUS
  <2>2. t \in Seq(Nat)
    BY <2>1, SMT
  <2>3. Len(t) = IF m <= n THEN n - m + 1 ELSE 0
    BY <2>1, SMT
  <2>4. \A i \in 1..(n - m + 1) : t[i] = s[m + i - 1]
    BY <2>1, SMT
  <2> HIDE DEF t
  <2>5. Len(t) \in Nat /\ \A i \in 1..Len(t) : i \in 1..(n - m + 1) /\ m + i - 1 \in m..n
    BY <2>1, <2>3
  <2> QED
    BY <2>1, <2>2, <2>3, <2>4, <2>5, Zenon
<1> HIDE DEF t
<1>2. Log!Increasing(t)
  <2> SUFFICES ASSUME NEW i \in 1..Len(t), NEW j \in 1..Len(t), i < j PROVE t[i] < t[j]
    BY DEF Log!Increasing
  <2>1. m + i - 1 < m + j - 1
    BY <1>1
  <2> QED
    BY <1>1, <2>1 DEF Log!Increasing
<1> QED
  BY <1>1, <1>2 DEF t

\* One increasing sequence after another, of greater numbers.
LEMMA OneAfterAnother ==
    ASSUME NEW s \in Seq(Nat), NEW t \in Seq(Nat), Log!Increasing(s), Log!Increasing(t), Below(s, t)
    PROVE  /\ s \o t \in Seq(Nat) /\ Log!Increasing(s \o t)
           /\ Log!ToSet(s \o t) = Log!ToSet(s) \union Log!ToSet(t)
<1> DEFINE u == s \o t
<1>1. /\ u \in Seq(Nat) /\ Len(u) = Len(s) + Len(t) /\ Len(s) \in Nat /\ Len(t) \in Nat
      /\ \A i \in 1..Len(s) : u[i] = s[i]
      /\ \A i \in 1..Len(u) : i > Len(s) => u[i] = t[i - Len(s)] /\ i - Len(s) \in 1..Len(t)
      /\ \A i \in 1..Len(t) : u[Len(s) + i] = t[i] /\ Len(s) + i \in 1..Len(u)
      /\ \A i \in 1..Len(s) : i \in 1..Len(u)
  OBVIOUS
<1> HIDE DEF u
<1>2. Log!Increasing(u)
  <2> SUFFICES ASSUME NEW i \in 1..Len(u), NEW j \in 1..Len(u), i < j PROVE u[i] < u[j]
    BY DEF Log!Increasing
  <2>1. CASE j <= Len(s)
    <3>1. i \in 1..Len(s) /\ j \in 1..Len(s)
      BY <1>1, <2>1
    <3>2. u[i] = s[i] /\ u[j] = s[j] /\ s[i] < s[j]
      BY <1>1, <3>1 DEF Log!Increasing
    <3> QED
      BY <3>2
  <2>2. CASE i <= Len(s) /\ j > Len(s)
    <3>1. i \in 1..Len(s) /\ j - Len(s) \in 1..Len(t)
      BY <1>1, <2>2
    <3>2. u[i] = s[i] /\ u[j] = t[j - Len(s)] /\ s[i] < t[j - Len(s)]
      BY <1>1, <2>2, <3>1 DEF Below
    <3> QED
      BY <3>2
  <2>3. CASE i > Len(s)
    <3> DEFINE a == i - Len(s)
               b == j - Len(s)
    <3>0. j > Len(s) /\ a < b
      BY <1>1, <2>3
    <3>1. u[i] = t[a] /\ a \in 1..Len(t) /\ u[j] = t[b] /\ b \in 1..Len(t)
      BY <1>1, <2>3, <3>0, Zenon
    <3> HIDE DEF a, b
    <3>2. t[a] < t[b]
      BY <3>0, <3>1 DEF Log!Increasing
    <3> QED
      BY <3>1, <3>2
  <2> QED
    BY <1>1, <2>1, <2>2, <2>3
<1>3. Log!ToSet(u) = Log!ToSet(s) \union Log!ToSet(t)
  <2>1. ASSUME NEW e \in Log!ToSet(u) PROVE e \in Log!ToSet(s) \union Log!ToSet(t)
    <3>1. PICK i \in 1..Len(u) : e = u[i]
      BY <1>1, ToSetIs
    <3>2. CASE i <= Len(s)
      <4>1. i \in 1..Len(s) /\ u[i] = s[i]
        BY <1>1, <3>2
      <4> QED
        BY <3>1, <4>1, ToSetIs
    <3>3. CASE i > Len(s)
      BY <1>1, <3>1, <3>3, ToSetIs
    <3> QED
      BY <1>1, <3>2, <3>3
  <2>2. ASSUME NEW e \in Log!ToSet(s) PROVE e \in Log!ToSet(u)
    <3>1. PICK i \in 1..Len(s) : e = s[i]
      BY ToSetIs
    <3>2. e = u[i] /\ i \in 1..Len(u)
      BY <1>1, <3>1
    <3> QED
      BY <1>1, <3>2, ToSetIs
  <2>3. ASSUME NEW e \in Log!ToSet(t) PROVE e \in Log!ToSet(u)
    <3>1. PICK i \in 1..Len(t) : e = t[i]
      BY ToSetIs
    <3>2. e = u[Len(s) + i] /\ Len(s) + i \in 1..Len(u)
      BY <1>1, <3>1
    <3> QED
      BY <1>1, <3>2, ToSetIs
  <2> QED
    BY <2>1, <2>2, <2>3
<1> QED
  BY <1>1, <1>2, <1>3 DEF u

\* The newest n of an increasing sequence: the others are below all of them.
LEMMA NewestIs ==
    ASSUME NEW s \in Seq(Nat), Log!Increasing(s), NEW n \in Nat \ {0}
    PROVE  LET t == Log!Newest(s, n)
           IN  /\ t \in Seq(Nat) /\ Log!Increasing(t) /\ Log!ToSet(t) \subseteq Log!ToSet(s)
               /\ Len(t) = IF Len(s) > n THEN n ELSE Len(s)
               /\ \A e \in Log!ToSet(s) : e \in Log!ToSet(t) \/ (Len(t) = n /\ e < Head(t))
<1> DEFINE m == IF Len(s) > n THEN Len(s) - n + 1 ELSE 1
           t == SubSeq(s, m, Len(s))
<1>1. m \in Nat /\ m >= 1 /\ Len(s) \in Nat /\ m <= Len(s) + 1 /\ Len(s) - m + 1 = IF Len(s) > n THEN n ELSE Len(s)
  OBVIOUS
<1>2. m > 1 => Len(s) - m + 1 = n
  OBVIOUS
<1> HIDE DEF m
<1>3. /\ t \in Seq(Nat) /\ Len(t) = Len(s) - m + 1
      /\ \A i \in 1..Len(t) : t[i] = s[m + i - 1] /\ m + i - 1 \in 1..Len(s)
  BY <1>1
<1> HIDE DEF t
<1>4. Log!Increasing(t)
  <2> SUFFICES ASSUME NEW i \in 1..Len(t), NEW j \in 1..Len(t), i < j PROVE t[i] < t[j]
    BY DEF Log!Increasing
  <2>1. m + i - 1 < m + j - 1
    BY <1>1
  <2> QED
    BY <1>3, <2>1 DEF Log!Increasing
<1>5. ASSUME NEW e \in Log!ToSet(t) PROVE e \in Log!ToSet(s)
  <2>1. PICK i \in 1..Len(t) : e = t[i]
    BY <1>3, ToSetIs
  <2>2. e = s[m + i - 1] /\ m + i - 1 \in 1..Len(s)
    BY <1>3, <2>1
  <2> QED
    BY <2>2, ToSetIs
<1>6. ASSUME NEW e \in Log!ToSet(s) PROVE e \in Log!ToSet(t) \/ (Len(t) = n /\ e < Head(t))
  <2>1. PICK i \in 1..Len(s) : e = s[i]
    BY ToSetIs
  <2>2. CASE i >= m
    <3>1. i - m + 1 \in 1..Len(t) /\ m + (i - m + 1) - 1 = i
      BY <1>1, <1>3, <2>2
    <3>2. t[i - m + 1] = e
      BY <1>3, <2>1, <3>1
    <3> QED
      BY <1>3, <3>1, <3>2, ToSetIs
  <2>3. CASE i < m
    <3>1. Len(t) = n /\ 1 \in 1..Len(t) /\ m + 1 - 1 = m
      BY <1>1, <1>2, <1>3, <2>3
    <3>2. Head(t) = s[m] /\ m \in 1..Len(s)
      BY <1>3, <3>1
    <3> QED
      BY <2>1, <2>3, <3>1, <3>2 DEF Log!Increasing
  <2> QED
    BY <1>1, <2>2, <2>3
<1> QED
  BY <1>1, <1>3, <1>4, <1>5, <1>6 DEF Log!Newest, t, m
-----------------------------------------------------------------------------
\* Rotation drops the archive, or nothing, whatever of it fails.
LEMMA RotateKeeps ==
    ASSUME FilesInv(logFile, logArchive, written), NEW b, Above(b, logFile, logArchive, written),
           NEW old \in Log!Rotate
    PROVE  /\ FilesInv(old.file, old.archive, written) /\ Above(b, old.file, old.archive, written)
           /\ Held(old.file, old.archive) \subseteq Held(logFile, logArchive)
<1>1. \/ old.file = logFile /\ old.archive = logArchive
      \/ old.file = <<>> /\ old.archive = logFile
      \/ old.file = logFile /\ old.archive = <<>>
  BY DEF Log!Rotate, Log!FileNow
<1>2. /\ logFile \in Seq(Nat) /\ logArchive \in Seq(Nat)
      /\ Log!Increasing(logFile) /\ Log!Increasing(logArchive) /\ Below(logArchive, logFile)
      /\ written \subseteq Nat
  BY DEF FilesInv
<1>3. Held(old.file, old.archive) \subseteq Held(logFile, logArchive)
      /\ (Held(old.file, old.archive) = Held(logFile, logArchive)
            \/ Held(old.file, old.archive) = Log!ToSet(logFile))
  BY <1>1, NothingIn DEF Held
<1>4. /\ old.file \in Seq(Nat) /\ old.archive \in Seq(Nat)
      /\ Log!Increasing(old.file) /\ Log!Increasing(old.archive) /\ Below(old.archive, old.file)
  <2>1. CASE old.file = logFile /\ old.archive = logArchive
    BY <1>2, <2>1
  <2>2. CASE old.file = <<>> /\ old.archive = logFile
    BY <1>2, <2>2, NothingIn DEF Below
  <2>3. CASE old.file = logFile /\ old.archive = <<>>
    BY <1>2, <2>3, NothingIn DEF Below
  <2> QED
    BY <1>1, <2>1, <2>2, <2>3
<1>5. ASSUME NEW e \in written, NEW g \in written, e < g, e \in Held(old.file, old.archive)
      PROVE  g \in Held(old.file, old.archive)
  <2>1. g \in Held(logFile, logArchive)
    BY <1>3, <1>5 DEF FilesInv
  <2>2. CASE Held(old.file, old.archive) = Log!ToSet(logFile) /\ g \in Log!ToSet(logArchive)
    <3>1. PICK i \in 1..Len(logFile) : e = logFile[i]
      BY <1>2, <1>5, <2>2, ToSetIs
    <3>2. PICK j \in 1..Len(logArchive) : g = logArchive[j]
      BY <1>2, <2>2, ToSetIs
    <3>3. g < e /\ g \in Nat /\ e \in Nat
      BY <1>2, <3>1, <3>2 DEF Below
    <3> QED
      BY <1>5, <3>3
  <2> QED
    BY <1>3, <2>1, <2>2 DEF Held
<1>6. Above(b, old.file, old.archive, written)
  BY <1>3 DEF Above
<1> QED
  BY <1>2, <1>3, <1>4, <1>5, <1>6 DEF FilesInv

\* What is written of a batch comes after what the file had.
LEMMA AppendLinesKeeps ==
    ASSUME NEW old, NEW b, NEW n \in 0..Len(b), NEW torn,
           FilesInv(old.file, old.archive, written), Above(b, old.file, old.archive, written),
           Log!AppendLines(old, b, n, torn)
    PROVE  /\ FilesInv(logFile', logArchive', written')
           /\ written' \subseteq written \union Log!ToSet(b)
           /\ Held(logFile', logArchive') \subseteq Held(old.file, old.archive) \union Log!ToSet(b)
<1> DEFINE m == IF old.torn THEN 2 ELSE 1
           whole == SubSeq(b, m, n)
           f == old.file
           a == old.archive
<1>1. logFile' = f \o whole /\ logArchive' = a /\ written' = written \union Log!ToSet(whole)
  BY DEF Log!AppendLines
<1>2. /\ b \in Seq(Nat) /\ Log!Increasing(b)
      /\ \A i \in 1..Len(b) : \A e \in Held(f, a) \union written : e < b[i]
  BY DEF Above
<1>3. /\ f \in Seq(Nat) /\ a \in Seq(Nat) /\ written \subseteq Nat
      /\ Log!Increasing(f) /\ Log!Increasing(a) /\ Below(a, f)
      /\ \A e, g \in written : e < g /\ e \in Held(f, a) => g \in Held(f, a)
  BY DEF FilesInv
<1>4. /\ whole \in Seq(Nat) /\ Log!Increasing(whole)
      /\ \A i \in 1..Len(whole) : \E j \in 1..Len(b) : whole[i] = b[j]
  <2>1. m \in {1, 2}
    OBVIOUS
  <2> HIDE DEF m
  <2> QED
    BY <1>2, <2>1, PartOf
<1> HIDE DEF whole, f, a
<1>5. \A i \in 1..Len(whole) : \A e \in Held(f, a) \union written : e < whole[i]
  BY <1>2, <1>4
<1>6. Log!ToSet(whole) \subseteq Log!ToSet(b) /\ Log!ToSet(whole) \subseteq Nat
  <2>1. ASSUME NEW e \in Log!ToSet(whole) PROVE e \in Log!ToSet(b)
    <3>1. PICK i \in 1..Len(whole) : e = whole[i]
      BY <1>4, ToSetIs
    <3> QED
      BY <1>2, <1>4, <3>1, ToSetIs
  <2> QED
    BY <1>4, <2>1, ToSetIs
<1>7. Below(f, whole) /\ Below(a, whole)
  <2>1. \A i \in 1..Len(f) : f[i] \in Held(f, a)
    BY <1>3, ToSetIs DEF Held
  <2>2. \A i \in 1..Len(a) : a[i] \in Held(f, a)
    BY <1>3, ToSetIs DEF Held
  <2> QED
    BY <1>5, <2>1, <2>2 DEF Below
<1>8. /\ f \o whole \in Seq(Nat) /\ Log!Increasing(f \o whole)
      /\ Log!ToSet(f \o whole) = Log!ToSet(f) \union Log!ToSet(whole)
  BY <1>3, <1>4, <1>7, OneAfterAnother
<1>9. Below(a, f \o whole)
  <2> SUFFICES ASSUME NEW i \in 1..Len(a), NEW j \in 1..Len(f \o whole) PROVE a[i] < (f \o whole)[j]
    BY DEF Below
  <2>1. (f \o whole)[j] \in Log!ToSet(f) \union Log!ToSet(whole)
    BY <1>8, ToSetIs
  <2>2. CASE (f \o whole)[j] \in Log!ToSet(f)
    <3>1. PICK k \in 1..Len(f) : (f \o whole)[j] = f[k]
      BY <1>3, <2>2, ToSetIs
    <3> QED
      BY <1>3, <3>1 DEF Below
  <2>3. CASE (f \o whole)[j] \in Log!ToSet(whole)
    <3>1. PICK k \in 1..Len(whole) : (f \o whole)[j] = whole[k]
      BY <1>4, <2>3, ToSetIs
    <3> QED
      BY <1>7, <3>1 DEF Below
  <2> QED
    BY <2>1, <2>2, <2>3
<1>10. Held(logFile', logArchive') = Held(f, a) \union Log!ToSet(whole)
  BY <1>1, <1>8 DEF Held
<1>11. ASSUME NEW e \in written', NEW g \in written', e < g, e \in Held(f, a) \union Log!ToSet(whole)
       PROVE  g \in Held(f, a) \union Log!ToSet(whole)
  <2>1. CASE g \in Log!ToSet(whole)
    BY <2>1
  <2>2. CASE e \in Log!ToSet(whole) /\ g \in written
    <3>1. PICK i \in 1..Len(whole) : e = whole[i]
      BY <1>4, <2>2, ToSetIs
    <3>2. g < e /\ g \in Nat /\ e \in Nat
      BY <1>3, <1>5, <1>6, <2>2, <3>1
    <3> QED
      BY <1>11, <3>2
  <2>3. CASE e \in written /\ e \notin Log!ToSet(whole) /\ g \in written
    BY <1>3, <1>11, <2>3
  <2> QED
    BY <1>1, <1>11, <2>1, <2>2, <2>3
<1>12. FilesInv(logFile', logArchive', written')
  BY <1>1, <1>3, <1>6, <1>8, <1>9, <1>10, <1>11 DEF FilesInv
<1> QED
  BY <1>1, <1>6, <1>10, <1>12 DEF f, a

LEMMA WriteKeeps ==
    ASSUME FilesInv(logFile, logArchive, written), NEW b, Above(b, logFile, logArchive, written),
           Log!WriteBatch(b)
    PROVE  /\ FilesInv(logFile', logArchive', written')
           /\ written' \subseteq written \union Log!ToSet(b)
           /\ Held(logFile', logArchive') \subseteq Held(logFile, logArchive) \union Log!ToSet(b)
<1>1. Len(b) \in Nat
  BY DEF Above
<1>2. PICK old \in Log!Rotate : \E n \in 0..Len(b), torn \in BOOLEAN : Log!AppendLines(old, b, n, torn)
  <2>1. PICK old \in Log!Rotate :
          \/ Log!AppendLines(old, b, Len(b), FALSE)
          \/ \E n \in 0..Len(b) - 1, torn \in BOOLEAN : Log!AppendLines(old, b, n, torn)
    BY DEF Log!WriteBatch
  <2>2. Len(b) \in 0..Len(b) /\ FALSE \in BOOLEAN /\ \A n \in 0..Len(b) - 1 : n \in 0..Len(b)
    BY <1>1
  <2> QED
    BY <2>1, <2>2
<1>3. PICK n \in 0..Len(b), torn \in BOOLEAN : Log!AppendLines(old, b, n, torn)
  BY <1>2
<1>4. /\ FilesInv(old.file, old.archive, written) /\ Above(b, old.file, old.archive, written)
      /\ Held(old.file, old.archive) \subseteq Held(logFile, logArchive)
  BY RotateKeeps
<1> QED
  BY <1>3, <1>4, AppendLinesKeeps
-----------------------------------------------------------------------------
\* The entries are in the files, in the batch and in memory in their order, up to
\* the last that was added.
AllEntries == Held(logFile, logArchive) \union written \union Log!ToSet(pendingWrites) \union Log!ToSet(logBuffer)
LogInv ==
    /\ added \in Nat /\ \A e \in AllEntries : e <= added
    /\ FilesInv(logFile, logArchive, written)
    /\ Above(pendingWrites, logFile, logArchive, written)
    /\ logBuffer \in Seq(Nat) /\ Log!Increasing(logBuffer)
\* What memory has left out is older than what it has.
Remembers(e) == e \in Log!ToSet(logBuffer) \/ (Len(logBuffer) = MemoryEntries /\ e < Head(logBuffer))
MemoryInv ==
    /\ \A e \in written \intersect Held(logFile, logArchive) : Remembers(e)
    /\ \A e \in Log!ToSet(pendingWrites) : Remembers(e)

\* An entry added to a sequence of older ones.
LEMMA AppendIs ==
    ASSUME NEW s \in Seq(Nat), Log!Increasing(s), NEW x \in Nat, \A e \in Log!ToSet(s) : e < x
    PROVE  /\ Append(s, x) \in Seq(Nat) /\ Log!Increasing(Append(s, x))
           /\ Log!ToSet(Append(s, x)) = Log!ToSet(s) \union {x}
<1>1. <<x>> \in Seq(Nat) /\ Log!Increasing(<<x>>) /\ Log!ToSet(<<x>>) = {x} /\ Len(<<x>>) = 1
  BY DEF Log!ToSet, Log!Increasing
<1>2. Below(s, <<x>>)
  BY ToSetIs DEF Below
<1>3. Append(s, x) = s \o <<x>>
  OBVIOUS
<1> QED
  BY <1>1, <1>2, <1>3, OneAfterAnother

LEMMA LogInit == Log!Init => LogInv /\ MemoryInv
BY NothingIn DEF Log!Init, LogInv, MemoryInv, AllEntries, FilesInv, Above, Below, Held

\* What is put into memory leaves out only what is older.
LEMMA MemoryTakes ==
    ASSUME LogInv, MemoryInv, MemoryEntries \in Nat \ {0}, NEW x \in Nat, \A e \in AllEntries : e < x,
           logBuffer' = Log!Newest(Append(logBuffer, x), MemoryEntries)
    PROVE  /\ logBuffer' \in Seq(Nat) /\ Log!Increasing(logBuffer')
           /\ Log!ToSet(logBuffer') \subseteq Log!ToSet(logBuffer) \union {x}
           /\ Remembers(x)' /\ \A e \in Nat : Remembers(e) => Remembers(e)'
<1> DEFINE s == Append(logBuffer, x)
<1>0. logBuffer \in Seq(Nat) /\ Log!Increasing(logBuffer) /\ \A e \in Log!ToSet(logBuffer) : e < x
  BY DEF LogInv, AllEntries
<1>1. /\ s \in Seq(Nat) /\ Log!Increasing(s) /\ Log!ToSet(s) = Log!ToSet(logBuffer) \union {x}
      /\ Len(s) = Len(logBuffer) + 1 /\ Len(logBuffer) \in Nat
      /\ Len(logBuffer) > 0 => Head(logBuffer) = s[1]
  BY <1>0, AppendIs
<1> HIDE DEF s
<1>2. /\ logBuffer' \in Seq(Nat) /\ Log!Increasing(logBuffer') /\ Log!ToSet(logBuffer') \subseteq Log!ToSet(s)
      /\ Len(logBuffer') = IF Len(s) > MemoryEntries THEN MemoryEntries ELSE Len(s)
      /\ \A e \in Log!ToSet(s) :
           e \in Log!ToSet(logBuffer') \/ (Len(logBuffer') = MemoryEntries /\ e < Head(logBuffer'))
  BY <1>1, NewestIs DEF s
<1>3. \A e \in Log!ToSet(s) : Remembers(e)'
  BY <1>2 DEF Remembers
<1>4. ASSUME NEW e \in Nat, Len(logBuffer) = MemoryEntries, e < Head(logBuffer) PROVE Remembers(e)'
  <2>1. Len(logBuffer') = MemoryEntries /\ Head(logBuffer') = logBuffer'[1] /\ 1 \in 1..Len(logBuffer')
    BY <1>1, <1>2, <1>4
  <2>2. Head(logBuffer') \in Log!ToSet(s)
    BY <1>2, <2>1, ToSetIs
  <2>3. PICK i \in 1..Len(s) : Head(logBuffer') = s[i]
    BY <1>1, <2>2, ToSetIs
  <2>4. Head(logBuffer) = s[1] /\ (i = 1 \/ s[1] < s[i])
    BY <1>1, <1>4 DEF Log!Increasing
  <2>5. Head(logBuffer) \in Nat /\ Head(logBuffer') \in Nat /\ Head(logBuffer) <= Head(logBuffer')
    BY <1>1, <2>3, <2>4
  <2> QED
    BY <1>4, <2>1, <2>5 DEF Remembers
<1>5. \A e \in Nat : Remembers(e) => Remembers(e)'
  BY <1>1, <1>3, <1>4 DEF Remembers
<1> QED
  BY <1>1, <1>2, <1>3, <1>5

LEMMA LogAdds ==
    ASSUME LogInv, MemoryInv, MemoryEntries \in Nat \ {0}, Log!AddLogEntry
    PROVE  LogInv' /\ MemoryInv'
<1>0. PICK x \in Nat : x = added + 1
  BY DEF LogInv
<1> DEFINE batch == Append(pendingWrites, x)
<1>1. /\ added' = x /\ added \in Nat /\ x \in Nat /\ \A e \in AllEntries : e < x
      /\ logBuffer' = Log!Newest(Append(logBuffer, x), MemoryEntries)
  <2>1. added' = added + 1 /\ logBuffer' = Log!Newest(Append(logBuffer, added'), MemoryEntries)
    BY DEF Log!AddLogEntry
  <2>2. added \in Nat /\ \A e \in AllEntries : e <= added
    BY DEF LogInv
  <2>3. AllEntries \subseteq Nat
    BY ToSetIs DEF AllEntries, Held, LogInv, FilesInv, Above
  <2> QED
    BY <1>0, <2>1, <2>2, <2>3
<1>2. \/ /\ Log!WriteBatch(batch) /\ pendingWrites' = <<>>
      \/ pendingWrites' = batch /\ UNCHANGED <<logFile, logArchive, written>>
  BY <1>0 DEF Log!AddLogEntry, Log!disk
<1>3. /\ logBuffer' \in Seq(Nat) /\ Log!Increasing(logBuffer')
      /\ Log!ToSet(logBuffer') \subseteq Log!ToSet(logBuffer) \union {x}
      /\ Remembers(x)' /\ \A e \in Nat : Remembers(e) => Remembers(e)'
  BY <1>1, MemoryTakes
<1>4. /\ FilesInv(logFile, logArchive, written)
      /\ pendingWrites \in Seq(Nat) /\ Log!Increasing(pendingWrites)
      /\ \A i \in 1..Len(pendingWrites) : \A e \in Held(logFile, logArchive) \union written : e < pendingWrites[i]
      /\ Held(logFile, logArchive) \subseteq Nat /\ written \subseteq Nat
  BY ToSetIs DEF LogInv, Above, FilesInv, Held
<1>5. /\ batch \in Seq(Nat) /\ Log!Increasing(batch) /\ Log!ToSet(batch) = Log!ToSet(pendingWrites) \union {x}
  BY <1>1, <1>4, AppendIs DEF AllEntries
<1> HIDE DEF batch
<1>6. Above(batch, logFile, logArchive, written)
  <2> SUFFICES ASSUME NEW i \in 1..Len(batch), NEW e \in Held(logFile, logArchive) \union written PROVE e < batch[i]
    BY <1>5 DEF Above
  <2>1. CASE batch[i] = x
    BY <1>1, <2>1 DEF AllEntries
  <2>2. CASE batch[i] \in Log!ToSet(pendingWrites)
    <3>1. PICK j \in 1..Len(pendingWrites) : batch[i] = pendingWrites[j]
      BY <1>4, <2>2, ToSetIs
    <3> QED
      BY <1>4, <3>1
  <2> QED
    BY <1>5, <2>1, <2>2, ToSetIs
<1>7. /\ \A e \in Log!ToSet(batch) : Remembers(e)'
      /\ \A e \in written \intersect Held(logFile, logArchive) : Remembers(e)'
  <2>1. Log!ToSet(pendingWrites) \subseteq Nat
    BY <1>4, ToSetIs
  <2>2. \A e \in Log!ToSet(pendingWrites) : Remembers(e)'
    BY <1>3, <2>1 DEF MemoryInv
  <2>3. \A e \in written \intersect Held(logFile, logArchive) : Remembers(e)'
    BY <1>3, <1>4 DEF MemoryInv
  <2> QED
    BY <1>3, <1>5, <2>2, <2>3
<1>8. \A e \in AllEntries \union {x} : e <= x
  <2>1. AllEntries \subseteq Nat
    BY ToSetIs DEF AllEntries, Held, LogInv, FilesInv, Above
  <2> QED
    BY <1>1, <2>1
<1>9. CASE Log!WriteBatch(batch) /\ pendingWrites' = <<>>
  <2>1. /\ FilesInv(logFile', logArchive', written')
        /\ written' \subseteq written \union Log!ToSet(batch)
        /\ Held(logFile', logArchive') \subseteq Held(logFile, logArchive) \union Log!ToSet(batch)
    BY <1>4, <1>6, <1>9, WriteKeeps
  <2>2. Above(<<>>, logFile', logArchive', written') /\ Log!ToSet(<<>>) = {}
    BY NothingIn DEF Above
  <2>3. AllEntries' \subseteq AllEntries \union {x}
    BY <1>3, <1>5, <1>9, <2>1, <2>2 DEF AllEntries, Held
  <2>4. LogInv'
    BY <1>1, <1>3, <1>8, <1>9, <2>1, <2>2, <2>3 DEF LogInv
  <2>5. ASSUME NEW e \in written', e \in Held(logFile', logArchive') PROVE Remembers(e)'
    <3>1. CASE e \in Log!ToSet(batch)
      BY <1>7, <3>1
    <3>2. CASE e \notin Log!ToSet(batch)
      BY <1>7, <2>1, <2>5, <3>2
    <3> QED
      BY <3>1, <3>2
  <2>6. MemoryInv'
    BY <1>9, <2>2, <2>5 DEF MemoryInv, Held
  <2> QED
    BY <2>4, <2>6
<1>10. CASE pendingWrites' = batch /\ UNCHANGED <<logFile, logArchive, written>>
  <2>1. AllEntries' \subseteq AllEntries \union {x}
    BY <1>3, <1>5, <1>10 DEF AllEntries, Held
  <2>2. LogInv'
    BY <1>1, <1>3, <1>4, <1>6, <1>8, <1>10, <2>1 DEF LogInv
  <2>3. MemoryInv'
    BY <1>7, <1>10 DEF MemoryInv, Held
  <2> QED
    BY <2>2, <2>3
<1> QED
  BY <1>2, <1>9, <1>10

\* A batch is written, when its timer fires or as the process ends.
LEMMA LogWrites ==
    ASSUME LogInv, MemoryInv, Log!WriteBatch(pendingWrites)
    PROVE  /\ FilesInv(logFile', logArchive', written')
           /\ Held(logFile', logArchive') \union written' \subseteq AllEntries
           /\ \A e \in written' \intersect Held(logFile', logArchive') : Remembers(e)
<1>1. /\ FilesInv(logFile', logArchive', written')
      /\ written' \subseteq written \union Log!ToSet(pendingWrites)
      /\ Held(logFile', logArchive') \subseteq Held(logFile, logArchive) \union Log!ToSet(pendingWrites)
  BY WriteKeeps DEF LogInv
<1>2. ASSUME NEW e \in written' \intersect Held(logFile', logArchive') PROVE Remembers(e)
  BY <1>1, <1>2 DEF MemoryInv
<1> QED
  BY <1>1, <1>2 DEF AllEntries

LEMMA LogFires == ASSUME LogInv, MemoryInv, Log!TimerFires PROVE LogInv' /\ MemoryInv'
<1>1. UNCHANGED <<added, logBuffer>>
  BY DEF Log!TimerFires
<1>2. CASE pendingWrites = <<>>
  <2>1. UNCHANGED <<added, logBuffer, pendingWrites, logFile, logArchive, written>>
    BY <1>1, <1>2 DEF Log!TimerFires, Log!disk
  <2> QED
    BY <2>1 DEF LogInv, MemoryInv, AllEntries, FilesInv, Above, Below, Held, Remembers
<1>3. CASE pendingWrites # <<>>
  <2>1. pendingWrites' = <<>> /\ Log!WriteBatch(pendingWrites)
    BY <1>3 DEF Log!TimerFires
  <2>2. /\ FilesInv(logFile', logArchive', written')
        /\ Held(logFile', logArchive') \union written' \subseteq AllEntries
        /\ \A e \in written' \intersect Held(logFile', logArchive') : Remembers(e)
    BY <2>1, LogWrites
  <2>3. Above(<<>>, logFile', logArchive', written') /\ Log!ToSet(<<>>) = {}
    BY NothingIn DEF Above
  <2>4. AllEntries' \subseteq AllEntries
    BY <1>1, <2>1, <2>2, <2>3 DEF AllEntries, Held
  <2>5. LogInv'
    BY <1>1, <2>1, <2>2, <2>3, <2>4 DEF LogInv
  <2>6. \A e : Remembers(e)' <=> Remembers(e)
    BY <1>1 DEF Remembers
  <2>7. MemoryInv'
    BY <2>1, <2>2, <2>3, <2>6 DEF MemoryInv, Held
  <2> QED
    BY <2>5, <2>7
<1> QED
  BY <1>2, <1>3

LEMMA LogClears == ASSUME LogInv, MemoryInv, Log!ClearLogs PROVE LogInv' /\ MemoryInv'
<1>1. /\ logBuffer' = <<>> /\ pendingWrites' = <<>> /\ written' = {} /\ added' = added
      /\ \/ logFile' = <<>> /\ logArchive' = <<>>
         \/ logFile' = <<>> /\ logArchive' = logArchive
         \/ logFile' = logFile /\ logArchive' = logArchive
  BY DEF Log!ClearLogs
<1>2. /\ logFile' \in Seq(Nat) /\ logArchive' \in Seq(Nat) /\ Log!Increasing(logFile')
      /\ Log!Increasing(logArchive') /\ Below(logArchive', logFile')
      /\ Held(logFile', logArchive') \subseteq Held(logFile, logArchive)
  <2>1. /\ logFile \in Seq(Nat) /\ logArchive \in Seq(Nat) /\ Log!Increasing(logFile)
        /\ Log!Increasing(logArchive) /\ Below(logArchive, logFile)
    BY DEF LogInv, FilesInv
  <2>2. CASE logFile' = <<>> /\ logArchive' = <<>>
    BY <2>2, NothingIn DEF Below, Held
  <2>3. CASE logFile' = <<>> /\ logArchive' = logArchive
    BY <2>1, <2>3, NothingIn DEF Below, Held
  <2>4. CASE logFile' = logFile /\ logArchive' = logArchive
    BY <2>1, <2>4
  <2> QED
    BY <1>1, <2>2, <2>3, <2>4
<1>3. FilesInv(logFile', logArchive', written')
  BY <1>1, <1>2 DEF FilesInv
<1>4. Above(<<>>, logFile', logArchive', written')
  BY NothingIn DEF Above
<1>5. AllEntries' \subseteq AllEntries
  BY <1>1, <1>2, NothingIn DEF AllEntries, Held
<1>6. LogInv'
  BY <1>1, <1>3, <1>4, <1>5, NothingIn DEF LogInv
<1>7. MemoryInv'
  BY <1>1, NothingIn DEF MemoryInv
<1> QED
  BY <1>6, <1>7

LEMMA LogRestarts ==
    ASSUME LogInv, MemoryInv, MemoryEntries \in Nat \ {0}, Log!Restart
    PROVE  LogInv' /\ MemoryInv'
<1>1. /\ logBuffer' = Log!Newest(logArchive' \o logFile', MemoryEntries)
      /\ pendingWrites' = <<>> /\ added' = added
      /\ UNCHANGED <<logFile, logArchive, written>> \/ Log!WriteBatch(pendingWrites)
  BY DEF Log!Restart, Log!LoadFromDisk, Log!disk
<1>2. /\ FilesInv(logFile', logArchive', written')
      /\ Held(logFile', logArchive') \union written' \subseteq AllEntries
  <2>1. CASE UNCHANGED <<logFile, logArchive, written>>
    BY <2>1 DEF LogInv, AllEntries
  <2>2. CASE Log!WriteBatch(pendingWrites)
    BY <2>2, LogWrites
  <2> QED
    BY <1>1, <2>1, <2>2
<1> DEFINE s == logArchive' \o logFile'
<1>3. /\ s \in Seq(Nat) /\ Log!Increasing(s)
      /\ Log!ToSet(s) = Held(logFile', logArchive')
  BY <1>2, OneAfterAnother DEF FilesInv, Held
<1> HIDE DEF s
<1>4. /\ logBuffer' \in Seq(Nat) /\ Log!Increasing(logBuffer') /\ Log!ToSet(logBuffer') \subseteq Log!ToSet(s)
      /\ \A e \in Log!ToSet(s) :
           e \in Log!ToSet(logBuffer') \/ (Len(logBuffer') = MemoryEntries /\ e < Head(logBuffer'))
  BY <1>1, <1>3, NewestIs DEF s
<1>5. Above(<<>>, logFile', logArchive', written') /\ Log!ToSet(<<>>) = {}
  BY NothingIn DEF Above
<1>6. AllEntries' \subseteq AllEntries
  BY <1>1, <1>2, <1>3, <1>4, <1>5 DEF AllEntries, Held
<1>7. LogInv'
  BY <1>1, <1>2, <1>4, <1>5, <1>6 DEF LogInv
<1>8. \A e \in Held(logFile', logArchive') : Remembers(e)'
  BY <1>3, <1>4 DEF Remembers
<1>9. MemoryInv'
  BY <1>1, <1>5, <1>8 DEF MemoryInv, Held
<1> QED
  BY <1>7, <1>9

LEMMA LogHolds == Spec => [](LogInv /\ MemoryInv)
<1>1. Init => LogInv /\ MemoryInv
  BY LogInit DEF Init
<1>2. ASSUME LogInv, MemoryInv, [Next]_vars PROVE LogInv' /\ MemoryInv'
  <2>1. MemoryEntries \in Nat \ {0}
    BY DataFilesAssumption DEF Log!LogAssumption
  <2>2. CASE Log!Next
    BY <1>2, <2>1, <2>2, LogAdds, LogFires, LogClears, LogRestarts DEF Log!Next
  <2>3. CASE UNCHANGED logVars
    BY <1>2, <2>3 DEF logVars, LogInv, MemoryInv, AllEntries, FilesInv, Above, Below, Held, Remembers
  <2> QED
    BY <1>2, <2>2, <2>3 DEF Next, vars
<1> QED
  BY <1>1, <1>2, PTL DEF Spec

\* Whatever rotation drops, and however it fails, what it drops is older than all
\* that the files keep (rotateIfNeeded, flushToDisk).
THEOREM RotationDropsTheOldest == Spec => []NewestAreKept
<1>1. LogInv => NewestAreKept
  BY DEF LogInv, FilesInv, Held, NewestAreKept, Log!NewestAreKept, Log!Stored
<1> QED
  BY <1>1, LogHolds, PTL

\* Memory has the log in its order, and leaves out entries of the files only for
\* newer ones (loadFromDisk, addLogEntry).
THEOREM MemoryHasTheTail == Spec => []MemoryIsTheTail
<1>1. LogInv /\ MemoryInv => MemoryIsTheTail
  BY DEF LogInv, MemoryInv, Remembers, Held, MemoryIsTheTail, Log!MemoryIsTheTail, Log!Stored
<1> QED
  BY <1>1, LogHolds, PTL
-----------------------------------------------------------------------------

\* The history: its file, and the store as a call leaves it.
Rec == 1..MaxRecords
Files == [state : {"absent", "whole", "broken"}, records : Seq(Rec), fat : BOOLEAN]
\* Newest first.
Falling(s) == \A i, j \in 1..Len(s) : i < j => s[i] > s[j]
UpTo(s, n) == s \in Seq(Rec) /\ Falling(s) /\ \A i \in 1..Len(s) : s[i] <= n

LEMMA MembersOf ==
    ASSUME NEW s \in Seq(Rec)
    PROVE  /\ History!ToSet(s) \subseteq Rec
           /\ \A i \in 1..Len(s) : s[i] \in History!ToSet(s)
           /\ \A e \in History!ToSet(s) : \E i \in 1..Len(s) : e = s[i]
BY DEF History!ToSet

LEMMA HeadPartOf ==
    ASSUME NEW s, NEW m, UpTo(s, m), NEW n \in 0..Len(s)
    PROVE  UpTo(SubSeq(s, 1, n), m) /\ Len(SubSeq(s, 1, n)) = n
             /\ \A i \in 1..n : SubSeq(s, 1, n)[i] = s[i]
<1> DEFINE t == SubSeq(s, 1, n)
<1>1. s \in Seq(Rec) /\ Len(s) \in Nat /\ n \in Nat /\ n <= Len(s)
  BY DEF UpTo
<1>2. t \in Seq(Rec) /\ Len(t) = n /\ \A i \in 1..n : t[i] = s[i] /\ i \in 1..Len(s)
  BY <1>1
<1> HIDE DEF t
<1>3. UpTo(t, m)
  BY <1>2 DEF UpTo, Falling
<1> QED
  BY <1>2, <1>3 DEF t

LEMMA TailOf == ASSUME NEW s, NEW m, UpTo(s, m), s # <<>> PROVE UpTo(Tail(s), m)
<1> DEFINE t == Tail(s)
<1>1. /\ s \in Seq(Rec) /\ Len(s) \in Nat /\ t \in Seq(Rec) /\ Len(t) = Len(s) - 1
      /\ \A i \in 1..Len(t) : t[i] = s[i + 1] /\ i + 1 \in 1..Len(s)
  BY DEF UpTo
<1> HIDE DEF t
<1>2. \A i, j \in 1..Len(t) : i < j => i + 1 < j + 1
  BY <1>1
<1> QED
  BY <1>1, <1>2 DEF UpTo, Falling, t

\* A newer record before the others.
LEMMA Before ==
    ASSUME NEW s, NEW m \in Nat, UpTo(s, m), m + 1 \in Rec
    PROVE  LET u == <<m + 1>> \o s
           IN  /\ UpTo(u, m + 1) /\ Len(u) = Len(s) + 1
               /\ u[1] = m + 1 /\ \A i \in 1..Len(s) : u[i + 1] = s[i]
<1> DEFINE u == <<m + 1>> \o s
<1>0. s \in Seq(Rec) /\ Len(s) \in Nat /\ \A i \in 1..Len(s) : s[i] \in Rec
  BY DEF UpTo
<1>1. /\ u \in Seq(Rec) /\ Len(u) = Len(s) + 1 /\ u[1] = m + 1
      /\ \A i \in 1..Len(u) : i > 1 => u[i] = s[i - 1] /\ i - 1 \in 1..Len(s)
      /\ \A i \in 1..Len(s) : u[i + 1] = s[i]
  <2>1. <<m + 1>> \in Seq(Rec) /\ Len(<<m + 1>>) = 1 /\ <<m + 1>>[1] = m + 1
    OBVIOUS
  <2> DEFINE a == <<m + 1>>
  <2> HIDE DEF a
  <2>2. a \in Seq(Rec) /\ Len(a) = 1 /\ a[1] = m + 1
    BY <2>1 DEF a
  <2>3. /\ a \o s \in Seq(Rec) /\ Len(a \o s) = Len(a) + Len(s)
        /\ \A i \in 1..Len(a) + Len(s) : (a \o s)[i] = IF i <= Len(a) THEN a[i] ELSE s[i - Len(a)]
    BY <1>0, <2>2, ConcatProperties
  <2>4. \A i \in 1..Len(s) : i + 1 \in 1..1 + Len(s) /\ ~(i + 1 <= 1) /\ (i + 1) - 1 = i
    BY <1>0
  <2>5. \A i \in 1..Len(s) : (a \o s)[i + 1] = s[i]
    BY <1>0, <2>2, <2>3, <2>4
  <2>6. \A i \in 1..Len(a \o s) : i > 1 => (a \o s)[i] = s[i - 1] /\ i - 1 \in 1..Len(s)
    BY <1>0, <2>2, <2>3
  <2>7. (a \o s)[1] = m + 1 /\ Len(a \o s) = Len(s) + 1
    BY <1>0, <2>2, <2>3
  <2> QED
    BY <2>3, <2>5, <2>6, <2>7 DEF a
<1> HIDE DEF u
<1>2. \A i \in 1..Len(s) : s[i] <= m /\ s[i] < m + 1
  BY <1>0 DEF UpTo, Rec
<1>3. ASSUME NEW i \in 1..Len(u), NEW j \in 1..Len(u), i < j PROVE u[i] > u[j]
  <2>1. u[j] = s[j - 1] /\ j - 1 \in 1..Len(s)
    BY <1>1, <1>3
  <2>2. CASE i = 1
    BY <1>1, <1>2, <2>1, <2>2
  <2>3. CASE i > 1
    <3>1. u[i] = s[i - 1] /\ i - 1 \in 1..Len(s) /\ i - 1 < j - 1
      BY <1>1, <1>3, <2>3
    <3> QED
      BY <2>1, <3>1 DEF UpTo, Falling
  <2> QED
    BY <2>2, <2>3
<1>4. ASSUME NEW i \in 1..Len(u) PROVE u[i] <= m + 1
  <2>1. CASE i = 1
    BY <1>1, <2>1
  <2>2. CASE i > 1
    <3>1. u[i] = s[i - 1] /\ i - 1 \in 1..Len(s)
      BY <1>1, <2>2
    <3>2. s[i - 1] <= m /\ s[i - 1] \in Nat
      BY <1>0, <1>2, <3>1 DEF Rec
    <3> QED
      BY <3>1, <3>2
  <2> QED
    BY <2>1, <2>2
<1> QED
  BY <1>1, <1>3, <1>4 DEF UpTo, Falling, u

\* The cut of a list: what it leaves out is older than all of it.
LEMMA CutDrops ==
    ASSUME NEW u, NEW m, UpTo(u, m), NEW n \in Nat \ {0}, Len(u) > n,
           NEW r \in History!ToSet(u), r \notin History!ToSet(SubSeq(u, 1, n))
    PROVE  History!Cardinality({q \in History!ToSet(SubSeq(u, 1, n)) : q > r}) >= n
<1> DEFINE t == SubSeq(u, 1, n)
           f == [i \in 1..n |-> t[i]]
<1>1. u \in Seq(Rec) /\ Len(u) \in Nat /\ n \in 0..Len(u)
  BY DEF UpTo
<1>2. UpTo(t, m) /\ Len(t) = n /\ \A i \in 1..n : t[i] = u[i]
  BY <1>1, HeadPartOf
<1> HIDE DEF t
<1>3. t \in Seq(Rec) /\ Falling(t) /\ Rec \subseteq Nat
  BY <1>2 DEF UpTo, Rec
<1>4. PICK k \in 1..Len(u) : r = u[k]
  BY <1>1, MembersOf
<1>5. k > n
  <2>1. CASE k <= n
    <3>1. k \in 1..Len(t) /\ r = t[k]
      BY <1>1, <1>2, <1>4, <2>1
    <3>2. r \in History!ToSet(t)
      BY <1>3, <3>1, MembersOf
    <3> QED
      BY <3>2 DEF t
  <2> QED
    BY <1>1, <2>1
<1>6. \A i \in 1..n : t[i] > r
  BY <1>1, <1>2, <1>4, <1>5 DEF UpTo, Falling
<1>7. {q \in History!ToSet(t) : q > r} = History!ToSet(t)
  <2>1. ASSUME NEW q \in History!ToSet(t) PROVE q > r
    <3>1. PICK i \in 1..Len(t) : q = t[i]
      BY <1>3, MembersOf
    <3> QED
      BY <1>2, <1>6, <3>1
  <2> QED
    BY <2>1
<1>8. f \in Bijection(1..n, History!ToSet(t))
  <2>1. \A i \in 1..n : f[i] \in History!ToSet(t)
    BY <1>2, <1>3, MembersOf
  <2>2. \A i, j \in 1..n : i # j => f[i] # f[j]
    <3> SUFFICES ASSUME NEW i \in 1..n, NEW j \in 1..n, i # j PROVE t[i] # t[j]
      OBVIOUS
    <3>1. t[i] \in Nat /\ t[j] \in Nat
      <4>1. i \in 1..Len(t) /\ j \in 1..Len(t)
        BY <1>2
      <4>2. t[i] \in Rec /\ t[j] \in Rec
        BY <1>3, <4>1
      <4> QED
        BY <1>3, <4>2
    <3>2. i < j \/ j < i
      OBVIOUS
    <3> QED
      BY <1>2, <1>3, <3>1, <3>2 DEF Falling
  <2>3. \A q \in History!ToSet(t) : \E i \in 1..n : f[i] = q
    BY <1>2, <1>3, MembersOf
  <2>4. f \in [1..n -> History!ToSet(t)]
    BY <2>1
  <2> HIDE DEF f
  <2> QED
    BY <2>2, <2>3, <2>4, Fun_IsBij
<1>9. Cardinality(History!ToSet(t)) = n
  BY <1>8, FS_CountingElements DEF ExistsBijection
<1>10. \A S : History!Cardinality(S) = Cardinality(S)
  BY DEF History!Cardinality, Cardinality, History!IsFiniteSet, IsFiniteSet
<1> QED
  <2>1. History!Cardinality({q \in History!ToSet(t) : q > r}) = n
    BY <1>7, <1>9, <1>10
  <2> QED
    BY <2>1 DEF t
-----------------------------------------------------------------------------
\* A call on the store s: what it may leave.
Store == [file : Files, cache : Seq(Rec) \union {None}, fresh : BOOLEAN, threw : BOOLEAN]
\* The records are written, the write did nothing, or it was cut short.
Written(s, t, records) ==
    \/ t.file = History!Whole(records) /\ t.fresh = TRUE
    \/ t.file = s.file /\ t.fresh = s.fresh
    \/ /\ t.file \in Files /\ t.file.state = "broken" /\ t.fresh = FALSE
       /\ \E n \in 0..Len(records) : t.file.records = SubSeq(records, 1, n)

LEMMA WritesAre ==
    ASSUME NEW s \in Store, NEW records \in Seq(Rec), NEW t \in History!Writes(s, records)
    PROVE  /\ t \in Store /\ t.cache = s.cache /\ Written(s, t, records)
           /\ ~t.threw => ~s.threw /\ t.file = History!Whole(records) /\ t.fresh = TRUE
           /\ t.threw => \/ t.file = s.file /\ t.fresh = s.fresh
                         \/ t.file.state = "broken" /\ t.fresh = FALSE
                         \/ s.threw
<1>1. \/ t = [s EXCEPT !.file = History!Whole(records), !.fresh = TRUE]
      \/ t = [s EXCEPT !.threw = TRUE]
      \/ \E n \in 0..Len(records) :
           t = [s EXCEPT !.file = History!Broken(SubSeq(records, 1, n)), !.fresh = FALSE, !.threw = TRUE]
  BY DEF History!Writes
<1>2. CASE t = [s EXCEPT !.file = History!Whole(records), !.fresh = TRUE]
  <2>1. History!Whole(records) \in Files
    BY DEF History!Whole, Files
  <2>2. t.file = History!Whole(records) /\ t.fresh = TRUE /\ t.threw = s.threw /\ t.cache = s.cache /\ t \in Store
    BY <1>2, <2>1 DEF Store
  <2> QED
    BY <2>2 DEF Written
<1>3. CASE t = [s EXCEPT !.threw = TRUE]
  <2>1. t.file = s.file /\ t.fresh = s.fresh /\ t.threw = TRUE /\ t.cache = s.cache /\ t \in Store
    BY <1>3 DEF Store
  <2>2. Written(s, t, records)
    BY <2>1 DEF Written
  <2> QED
    BY <2>1, <2>2
<1>4. ASSUME NEW n \in 0..Len(records),
             t = [s EXCEPT !.file = History!Broken(SubSeq(records, 1, n)), !.fresh = FALSE, !.threw = TRUE]
      PROVE  /\ t \in Store /\ t.cache = s.cache /\ Written(s, t, records)
             /\ t.threw /\ t.file.state = "broken" /\ t.fresh = FALSE
  <2>1. SubSeq(records, 1, n) \in Seq(Rec)
    OBVIOUS
  <2> DEFINE b == History!Broken(SubSeq(records, 1, n))
  <2>2. b \in Files /\ b.state = "broken" /\ b.records = SubSeq(records, 1, n)
    BY <2>1 DEF History!Broken, Files
  <2> HIDE DEF b
  <2>3. t = [s EXCEPT !.file = b, !.fresh = FALSE, !.threw = TRUE]
    BY <1>4 DEF b
  <2>4. t.file = b /\ t.fresh = FALSE /\ t.threw = TRUE /\ t.cache = s.cache /\ t \in Store
    BY <2>2, <2>3 DEF Store
  <2> QED
    BY <2>2, <2>4 DEF Written
<1> QED
  BY <1>1, <1>2, <1>3, <1>4

LEMMA PersistAre ==
    ASSUME NEW s \in Store, ~s.threw, NEW records \in Seq(Rec), NEW t \in History!Persist(s, records)
    PROVE  /\ t \in Store /\ Written(s, t, records)
           /\ \/ ~t.threw /\ t.file = History!Whole(records) /\ t.fresh = TRUE /\ t.cache = records
              \/ t.threw /\ t.file = s.file /\ t.fresh = s.fresh /\ t.cache = s.cache
              \/ t.threw /\ t.file.state = "broken" /\ t.fresh = FALSE /\ t.cache = s.cache
<1>1. PICK w \in History!Writes(s, records) : t = IF w.threw THEN w ELSE [w EXCEPT !.cache = records]
  BY DEF History!Persist
<1>2. /\ w \in Store /\ w.cache = s.cache /\ Written(s, w, records)
      /\ ~w.threw => w.file = History!Whole(records) /\ w.fresh = TRUE
      /\ w.threw => \/ w.file = s.file /\ w.fresh = s.fresh
                    \/ w.file.state = "broken" /\ w.fresh = FALSE
  BY WritesAre
<1>3. CASE w.threw
  BY <1>1, <1>2, <1>3
<1>4. CASE ~w.threw
  <2>1. t.file = w.file /\ t.fresh = w.fresh /\ t.threw = w.threw /\ t.cache = records /\ t \in Store
    BY <1>1, <1>2, <1>4 DEF Store
  <2> QED
    BY <1>2, <1>4, <2>1 DEF Written
<1> QED
  BY <1>2, <1>3, <1>4 DEF Store

LEMMA CompactAre ==
    ASSUME NEW s \in Store, ~s.threw, NEW records \in Seq(Rec), NEW t \in History!Compact(s, records)
    PROVE  t \in Store /\ ~t.threw /\ t.cache = s.cache /\ Written(s, t, records)
<1>1. t = s \/ \E w \in History!Writes(s, records) : t = [w EXCEPT !.threw = FALSE]
  BY DEF History!Compact
<1>2. CASE t = s
  BY <1>2 DEF Written
<1>3. ASSUME NEW w \in History!Writes(s, records), t = [w EXCEPT !.threw = FALSE]
      PROVE  t \in Store /\ ~t.threw /\ t.cache = s.cache /\ Written(s, t, records)
  <2>1. w \in Store /\ w.cache = s.cache /\ Written(s, w, records)
    BY WritesAre
  <2>2. t.file = w.file /\ t.fresh = w.fresh /\ t.threw = FALSE /\ t.cache = w.cache /\ t \in Store
    BY <1>3, <2>1 DEF Store
  <2> QED
    BY <2>1, <2>2 DEF Written
<1> QED
  BY <1>1, <1>2, <1>3

SeedsAssumption ==
    /\ Seeds \in Seq(Rec) /\ None \notin Seq(Rec)

LEMMA ReadAre ==
    ASSUME NEW s \in Store, ~s.threw, s.file = historyFile, SeedsAssumption, NEW t \in History!Read(s)
    PROVE  /\ t \in Store
           /\ \/ /\ historyFile.state = "absent" /\ Written(s, t, Seeds)
                 /\ \/ ~t.threw /\ t.file = History!Whole(Seeds) /\ t.fresh = TRUE /\ t.cache = Seeds
                    \/ t.threw /\ t.file = s.file /\ t.fresh = s.fresh /\ t.cache = s.cache
                    \/ t.threw /\ t.file.state = "broken" /\ t.fresh = FALSE /\ t.cache = s.cache
              \/ s.cache # None /\ s.fresh /\ t = s
              \/ /\ historyFile.state # "absent" /\ ~t.threw /\ t.cache = History!ReadHistoryFile
                 /\ \/ t.file = History!Whole(History!ReadHistoryFile) /\ t.fresh = TRUE
                    \/ t.file = s.file /\ t.fresh = TRUE
                    \/ /\ t.file.state = "broken" /\ t.fresh = FALSE
                       /\ \E n \in 0..Len(History!ReadHistoryFile) :
                            t.file.records = SubSeq(History!ReadHistoryFile, 1, n)
<1>0. History!ReadHistoryFile \in Seq(Rec)
  BY DEF Store, Files, History!ReadHistoryFile
<1>1. CASE s.file.state = "absent" /\ configReadable
  <2>1. t \in History!Persist(s, Seeds)
    BY <1>1 DEF History!Read
  <2> QED
    BY <1>1, <2>1, PersistAre DEF SeedsAssumption
<1>2. CASE s.file.state = "absent" /\ ~configReadable
  <2>1. t = [s EXCEPT !.threw = TRUE]
    BY <1>2 DEF History!Read
  <2>2. t \in Store /\ t.file = s.file /\ t.fresh = s.fresh /\ t.cache = s.cache /\ t.threw
    BY <2>1 DEF Store
  <2>3. Written(s, t, Seeds)
    BY <2>2 DEF Written
  <2> QED
    BY <1>2, <2>2, <2>3
<1>3. CASE s.file.state # "absent" /\ s.cache # None /\ s.fresh
  BY <1>3 DEF History!Read
<1>4. CASE s.file.state # "absent" /\ ~(s.cache # None /\ s.fresh)
  <2> DEFINE r == [s EXCEPT !.cache = History!ReadHistoryFile, !.fresh = TRUE]
  <2>1. t \in History!Compact(r, History!ReadHistoryFile)
    BY <1>4 DEF History!Read
  <2>2. r \in Store /\ ~r.threw /\ r.cache = History!ReadHistoryFile /\ r.file = s.file /\ r.fresh = TRUE
    BY <1>0 DEF Store
  <2> HIDE DEF r
  <2>3. t \in Store /\ ~t.threw /\ t.cache = History!ReadHistoryFile /\ Written(r, t, History!ReadHistoryFile)
    BY <1>0, <2>1, <2>2, CompactAre
  <2> QED
    BY <1>4, <2>2, <2>3 DEF Written
<1> QED
  BY <1>1, <1>2, <1>3, <1>4

\* The record x is put before the cached ones, or the call throws.
Cut(x, c) ==
    SubSeq(<<x>> \o c, 1, IF Len(<<x>> \o c) > MaxHistory THEN MaxHistory ELSE Len(<<x>> \o c))

LEMMA AddAre ==
    ASSUME NEW s \in Store, NEW x \in Rec, s.threw \/ s.cache \in Seq(Rec), MaxHistory \in Nat \ {0},
           NEW t \in History!Add(s, x)
    PROVE  /\ t \in Store
           /\ \/ /\ ~t.threw /\ ~s.threw /\ t.fresh = TRUE
                 /\ t.file = History!Whole(Cut(x, s.cache)) /\ t.cache = Cut(x, s.cache)
              \/ /\ t.threw /\ t.file = s.file /\ t.fresh = s.fresh
                 /\ \/ t.cache = s.cache
                    \/ ~s.threw /\ t.cache = <<x>> \o s.cache
              \/ /\ t.threw /\ ~s.threw /\ t.file.state = "broken" /\ t.fresh = FALSE
                 /\ \E n \in 0..Len(Cut(x, s.cache)) : t.file.records = SubSeq(Cut(x, s.cache), 1, n)
<1>1. CASE s.threw \/ (x \in Legacy /\ ~configReadable)
  <2>1. t = [s EXCEPT !.threw = TRUE]
    BY <1>1 DEF History!Add
  <2>2. t \in Store /\ t.file = s.file /\ t.fresh = s.fresh /\ t.threw /\ t.cache = s.cache
    BY <2>1 DEF Store
  <2> QED
    BY <2>2
<1>2. CASE ~(s.threw \/ (x \in Legacy /\ ~configReadable))
  <2> DEFINE u == <<x>> \o s.cache
             r == [s EXCEPT !.cache = u]
             c == Cut(x, s.cache)
  <2>1. t \in History!Persist(r, c)
    BY <1>2 DEF History!Add, Cut
  <2>2. u \in Seq(Rec) /\ Len(u) \in Nat
    BY <1>2
  <2>3. c \in Seq(Rec)
    <3> HIDE DEF u
    <3>1. c = SubSeq(u, 1, IF Len(u) > MaxHistory THEN MaxHistory ELSE Len(u))
      BY DEF u, Cut
    <3>2. SubSeq(u, 1, IF Len(u) > MaxHistory THEN MaxHistory ELSE Len(u)) \in Seq(Rec)
      BY <2>2
    <3> QED
      BY <3>1, <3>2
  <2>4. r \in Store /\ ~r.threw /\ r.cache = u /\ r.file = s.file /\ r.fresh = s.fresh
    BY <1>2, <2>2 DEF Store
  <2> HIDE DEF r, c, u
  <2>5. /\ t \in Store /\ Written(r, t, c)
        /\ \/ ~t.threw /\ t.file = History!Whole(c) /\ t.fresh = TRUE /\ t.cache = c
           \/ t.threw /\ t.file = r.file /\ t.fresh = r.fresh /\ t.cache = r.cache
           \/ t.threw /\ t.file.state = "broken" /\ t.fresh = FALSE /\ t.cache = r.cache
    BY <2>1, <2>3, <2>4, PersistAre
  <2>6. History!Whole(c).state = "whole" /\ History!Whole(c).fat = FALSE
    BY DEF History!Whole
  <2>7. CASE t.threw /\ t.file.state = "broken" /\ t.fresh = FALSE /\ t.cache = r.cache
    BY <1>2, <2>4, <2>5, <2>6, <2>7 DEF Written, u, c
  <2> QED
    BY <1>2, <2>4, <2>5, <2>7 DEF u, c
<1> QED
  BY <1>1, <1>2
-----------------------------------------------------------------------------
\* What a reader is shown is the file, but for records that could not be written.
Shown(c, l, u) ==
    /\ History!ToSet(c) \ History!ToSet(l) \subseteq u
    /\ History!ToSet(l) \subseteq History!ToSet(c) \/ History!ToSet(c) \subseteq u

HistoryInv ==
    /\ settled \in Nat /\ settled >= OldRecords /\ settled <= MaxRecords
    /\ historyFile \in Files /\ UpTo(historyFile.records, settled)
    /\ historyFile.state = "absent" => historyFile.records = <<>>
    /\ historyCache \in Seq(Rec) \union {None} /\ fresh \in BOOLEAN
    /\ historyCache # None /\ fresh /\ historyFile.state = "whole" =>
         Shown(historyCache, historyFile.records, unsaved)

\* What is assumed of the records that were there before.
FirstRecords ==
    /\ MaxRecords \in Nat /\ OldRecords \in 0..MaxRecords /\ MaxHistory \in Nat \ {0}
    /\ None \notin Seq(Rec)
    /\ \A l \in FirstHistories \union {Seeds} : UpTo(l, OldRecords)

LEMMA OldOnes ==
    ASSUME NEW n \in Nat, n <= MaxRecords, MaxRecords \in Nat, NEW l, l \in Seq(1..n),
           \A i, j \in 1..Len(l) : i < j => l[i] > l[j]
    PROVE  UpTo(l, n)
<1>1. \A x \in 1..n : x \in Rec /\ x <= n
  BY DEF Rec
<1> DEFINE S == 1..n
<1>2. l \in Seq(S) /\ S \subseteq Rec
  BY <1>1
<1> HIDE DEF S
<1>3. l \in Seq(Rec) /\ \A i \in 1..Len(l) : l[i] \in S
  BY <1>2
<1>4. \A i \in 1..Len(l) : l[i] <= n
  BY <1>1, <1>3 DEF S
<1> QED
  BY <1>3, <1>4 DEF UpTo, Falling

LEMMA FirstRecordsAre == FirstRecords
<1>1. /\ MaxRecords \in Nat /\ OldRecords \in 0..MaxRecords /\ MaxHistory \in Nat \ {0}
      /\ \A s \in FirstHistories \union {Seeds} :
           s \in Seq(1..OldRecords) /\ \A i, j \in 1..Len(s) : i < j => s[i] > s[j]
      /\ None \notin Seq(1..MaxRecords)
  BY DataFilesAssumption DEF History!HistoryAssumption
<1>2. ASSUME NEW l \in FirstHistories \union {Seeds} PROVE UpTo(l, OldRecords)
  <2>1. l \in Seq(1..OldRecords) /\ \A i, j \in 1..Len(l) : i < j => l[i] > l[j]
    BY <1>1, <1>2
  <2> QED
    BY <1>1, <2>1, OldOnes
<1> QED
  BY <1>1, <1>2 DEF FirstRecords, Rec

LEMMA UpToMore ==
    ASSUME NEW s, NEW m \in Nat, NEW n \in Nat, m <= n, UpTo(s, m)
    PROVE  UpTo(s, n)
<1>0. s \in Seq(Rec) /\ \A i \in 1..Len(s) : s[i] \in Rec /\ s[i] <= m
  BY DEF UpTo
<1>1. \A x \in Rec : x \in Nat
  BY DEF Rec
<1>2. \A i \in 1..Len(s) : s[i] <= n
  BY <1>0, <1>1
<1> QED
  BY <1>2 DEF UpTo

LEMMA NoRecords == UpTo(<<>>, 0) /\ History!ToSet(<<>>) = {}
BY DEF UpTo, Falling, History!ToSet

LEMMA ShownWhole == ASSUME NEW l, NEW u PROVE Shown(l, l, u)
BY DEF Shown

\* What a read leaves in the store.
LEMMA ReadKeeps ==
    ASSUME HistoryInv,
           NEW s \in {History!StoreNow, [History!StoreNow EXCEPT !.cache = None]}, NEW t \in History!Read(s)
    PROVE  /\ t \in Store /\ UpTo(t.file.records, settled)
           /\ t.file.state = "absent" => t.file.records = <<>>
           /\ t.file.state = "whole" => t.cache # None /\ Shown(t.cache, t.file.records, unsaved)
           /\ History!ReadHistoryFile = historyFile.records =>
                \/ t.file.state = "broken"
                \/ History!ToSet(historyFile.records) \subseteq History!ToSet(t.file.records)
           /\ s.cache = None /\ ~t.threw => UpTo(t.cache, settled)
           /\ s.cache = None /\ ~t.threw /\ historyFile.records # <<>> => t.cache = History!ReadHistoryFile
<1> DEFINE rhf == History!ReadHistoryFile
<1>1. /\ s \in Store /\ ~s.threw /\ s.file = historyFile /\ s.fresh = fresh
      /\ s.cache = historyCache \/ s.cache = None
  <2> DEFINE n == History!StoreNow
  <2>1. /\ n \in Store /\ ~n.threw /\ n.file = historyFile /\ n.fresh = fresh /\ n.cache = historyCache
    BY DEF HistoryInv, Store, History!StoreNow
  <2> HIDE DEF n
  <2>2. CASE s = n
    BY <2>1, <2>2
  <2>3. CASE s = [n EXCEPT !.cache = None]
    BY <2>1, <2>3 DEF Store
  <2> QED
    BY <2>2, <2>3 DEF n
<1>2. /\ UpTo(Seeds, settled) /\ UpTo(<<>>, settled) /\ UpTo(historyFile.records, settled)
      /\ SeedsAssumption
  BY FirstRecordsAre, NoRecords, UpToMore DEF FirstRecords, HistoryInv, UpTo, SeedsAssumption
<1>3. /\ UpTo(rhf, settled) /\ rhf # None
      /\ rhf = historyFile.records \/ rhf = <<>>
      /\ historyFile.state = "broken" => rhf = <<>>
  <2>1. rhf = historyFile.records \/ rhf = <<>>
    BY DEF History!ReadHistoryFile
  <2>2. UpTo(rhf, settled)
    BY <1>2, <2>1
  <2>3. rhf # None
    BY <2>2, FirstRecordsAre DEF UpTo, FirstRecords
  <2>4. historyFile.state = "broken" => rhf = <<>>
    BY DEF History!ReadHistoryFile
  <2> QED
    BY <2>1, <2>2, <2>3, <2>4
<1> HIDE DEF rhf
<1>4. ASSUME NEW l, UpTo(l, settled), NEW n \in 0..Len(l) PROVE UpTo(SubSeq(l, 1, n), settled)
  BY <1>4, HeadPartOf
<1>5. /\ t \in Store
      /\ \/ /\ historyFile.state = "absent" /\ Written(s, t, Seeds)
            /\ \/ ~t.threw /\ t.file = History!Whole(Seeds) /\ t.fresh = TRUE /\ t.cache = Seeds
               \/ t.threw /\ t.file = s.file /\ t.fresh = s.fresh /\ t.cache = s.cache
               \/ t.threw /\ t.file.state = "broken" /\ t.fresh = FALSE /\ t.cache = s.cache
         \/ s.cache # None /\ s.fresh /\ t = s
         \/ /\ historyFile.state # "absent" /\ ~t.threw /\ t.cache = rhf
            /\ \/ t.file = History!Whole(rhf) /\ t.fresh = TRUE
               \/ t.file = s.file /\ t.fresh = TRUE
               \/ /\ t.file.state = "broken" /\ t.fresh = FALSE
                  /\ \E n \in 0..Len(rhf) : t.file.records = SubSeq(rhf, 1, n)
  BY <1>1, <1>2, ReadAre DEF rhf
<1>6. ASSUME NEW l PROVE History!Whole(l).state = "whole" /\ History!Whole(l).records = l
  BY DEF History!Whole
<1>7. historyFile.state = "absent" => historyFile.records = <<>>
  BY DEF HistoryInv
<1>8. CASE /\ historyFile.state = "absent" /\ Written(s, t, Seeds)
           /\ \/ ~t.threw /\ t.file = History!Whole(Seeds) /\ t.fresh = TRUE /\ t.cache = Seeds
              \/ t.threw /\ t.file = s.file /\ t.fresh = s.fresh /\ t.cache = s.cache
              \/ t.threw /\ t.file.state = "broken" /\ t.fresh = FALSE /\ t.cache = s.cache
  <2>1. historyFile.records = <<>> /\ History!ToSet(historyFile.records) = {} /\ s.file.records = <<>>
    BY <1>1, <1>7, <1>8, NoRecords
  <2>2. CASE ~t.threw /\ t.file = History!Whole(Seeds) /\ t.fresh = TRUE /\ t.cache = Seeds
    <3>1. Seeds # None
      BY <1>2 DEF SeedsAssumption
    <3> QED
      BY <1>2, <1>5, <1>6, <2>1, <2>2, <3>1, ShownWhole
  <2>3. CASE t.threw /\ t.file = s.file /\ t.fresh = s.fresh /\ t.cache = s.cache
    BY <1>1, <1>2, <1>5, <1>8, <2>1, <2>3
  <2>4. CASE t.threw /\ t.file.state = "broken" /\ t.fresh = FALSE /\ t.cache = s.cache
    <3>1. UpTo(t.file.records, settled)
      <4>1. CASE t.file = s.file
        BY <1>2, <2>1, <4>1
      <4>2. CASE \E n \in 0..Len(Seeds) : t.file.records = SubSeq(Seeds, 1, n)
        BY <1>2, <1>4, <4>2
      <4> QED
        BY <1>6, <1>8, <2>4, <4>1, <4>2 DEF Written
    <3> QED
      BY <1>5, <2>1, <2>4, <3>1
  <2> QED
    BY <1>8, <2>2, <2>3, <2>4
<1>9. CASE s.cache # None /\ s.fresh /\ t = s
  <2>1. s.cache = historyCache
    BY <1>1, <1>9
  <2>2. historyFile.state = "whole" => Shown(historyCache, historyFile.records, unsaved)
    BY <1>1, <1>9, <2>1 DEF HistoryInv
  <2> QED
    BY <1>1, <1>2, <1>5, <1>7, <1>9, <2>1, <2>2
<1>10. CASE /\ historyFile.state # "absent" /\ ~t.threw /\ t.cache = rhf
            /\ \/ t.file = History!Whole(rhf) /\ t.fresh = TRUE
               \/ t.file = s.file /\ t.fresh = TRUE
               \/ /\ t.file.state = "broken" /\ t.fresh = FALSE
                  /\ \E n \in 0..Len(rhf) : t.file.records = SubSeq(rhf, 1, n)
  <2>1. CASE t.file = History!Whole(rhf)
    BY <1>3, <1>5, <1>6, <1>10, <2>1, ShownWhole DEF rhf
  <2>2. CASE t.file = s.file
    <3>1. Shown(rhf, historyFile.records, unsaved)
      BY <1>3, NoRecords, ShownWhole DEF Shown
    <3> QED
      BY <1>1, <1>2, <1>3, <1>5, <1>7, <1>10, <2>2, <3>1 DEF rhf
  <2>3. CASE t.file.state = "broken" /\ \E n \in 0..Len(rhf) : t.file.records = SubSeq(rhf, 1, n)
    <3>1. UpTo(t.file.records, settled)
      BY <1>3, <1>4, <2>3
    <3> QED
      BY <1>3, <1>5, <1>10, <2>3, <3>1 DEF rhf
  <2> QED
    BY <1>10, <2>1, <2>2, <2>3
<1> QED
  BY <1>5, <1>8, <1>9, <1>10

\* The newest record and the others, cut.
LEMMA CutKeeps ==
    ASSUME NEW c, NEW m \in Nat, UpTo(c, m), m + 1 \in Rec, MaxHistory \in Nat \ {0}
    PROVE  /\ UpTo(Cut(m + 1, c), m + 1)
           /\ <<m + 1>> \o c \in Seq(Rec)
           /\ History!ToSet(<<m + 1>> \o c) = {m + 1} \union History!ToSet(c)
           /\ \A r \in History!ToSet(c) \ History!ToSet(Cut(m + 1, c)) :
                History!Cardinality({q \in History!ToSet(Cut(m + 1, c)) : q > r}) >= MaxHistory
<1> DEFINE u == <<m + 1>> \o c
           n == IF Len(u) > MaxHistory THEN MaxHistory ELSE Len(u)
<1>1. /\ UpTo(u, m + 1) /\ Len(u) = Len(c) + 1
      /\ u[1] = m + 1 /\ \A i \in 1..Len(c) : u[i + 1] = c[i]
  BY Before
<1>2. Cut(m + 1, c) = SubSeq(u, 1, n)
  BY DEF Cut
<1> HIDE DEF u
<1>3. c \in Seq(Rec) /\ u \in Seq(Rec) /\ Len(u) \in Nat /\ Len(c) \in Nat
  BY <1>1 DEF UpTo
<1>4. n \in 0..Len(u)
  BY <1>3
<1>5. UpTo(SubSeq(u, 1, n), m + 1) /\ Len(SubSeq(u, 1, n)) = n /\ \A i \in 1..n : SubSeq(u, 1, n)[i] = u[i]
  BY <1>1, <1>4, HeadPartOf
<1>6. History!ToSet(u) = {m + 1} \union History!ToSet(c)
  <2>1. ASSUME NEW e \in History!ToSet(u) PROVE e \in {m + 1} \union History!ToSet(c)
    <3>1. PICK i \in 1..Len(u) : e = u[i]
      BY <1>3, MembersOf
    <3>2. CASE i = 1
      BY <1>1, <3>1, <3>2
    <3>3. CASE i # 1
      <4>1. i - 1 \in 1..Len(c) /\ (i - 1) + 1 = i
        BY <1>1, <1>3, <3>3
      <4>2. e = c[i - 1]
        BY <1>1, <3>1, <4>1
      <4> QED
        BY <1>3, <4>1, <4>2, MembersOf
    <3> QED
      BY <3>2, <3>3
  <2>2. m + 1 \in History!ToSet(u)
    <3>1. 1 \in 1..Len(u)
      BY <1>1, <1>3
    <3> QED
      BY <1>1, <1>3, <3>1, MembersOf
  <2>3. ASSUME NEW e \in History!ToSet(c) PROVE e \in History!ToSet(u)
    <3>1. PICK i \in 1..Len(c) : e = c[i]
      BY <1>3, MembersOf
    <3>2. i + 1 \in 1..Len(u) /\ e = u[i + 1]
      BY <1>1, <1>3, <3>1
    <3> QED
      BY <1>3, <3>2, MembersOf
  <2> QED
    BY <2>1, <2>2, <2>3
<1>7. ASSUME NEW r \in History!ToSet(c), r \notin History!ToSet(SubSeq(u, 1, n))
      PROVE  History!Cardinality({q \in History!ToSet(SubSeq(u, 1, n)) : q > r}) >= MaxHistory
  <2>1. CASE Len(u) > MaxHistory
    <3>1. n = MaxHistory /\ r \in History!ToSet(u)
      BY <1>6, <2>1
    <3> HIDE DEF n
    <3> QED
      BY <1>1, <1>7, <2>1, <3>1, CutDrops
  <2>2. CASE ~(Len(u) > MaxHistory)
    <3>1. n = Len(u) /\ r \in History!ToSet(u)
      BY <1>6, <2>2
    <3> DEFINE v == SubSeq(u, 1, n)
    <3> HIDE DEF n
    <3>2. PICK i \in 1..Len(u) : r = u[i]
      BY <1>3, <3>1, MembersOf
    <3>3. v \in Seq(Rec) /\ i \in 1..Len(v) /\ v[i] = r
      BY <1>5, <3>1, <3>2 DEF UpTo
    <3> HIDE DEF v
    <3>4. r \in History!ToSet(v)
      BY <3>3, MembersOf
    <3> QED
      BY <1>7, <3>4 DEF v
  <2> QED
    BY <2>1, <2>2
<1> QED
  BY <1>2, <1>3, <1>5, <1>6, <1>7 DEF u

\* What the record of a run that is over leaves in the store.
LEMMA AddKeeps ==
    ASSUME HistoryInv, settled < MaxRecords,
           NEW s \in History!Read([History!StoreNow EXCEPT !.cache = None]),
           NEW x, x = settled + 1, NEW t \in History!Add(s, x),
           NEW u, u = IF t.threw THEN unsaved \union {x} ELSE unsaved
    PROVE  /\ t \in Store /\ UpTo(t.file.records, x)
           /\ t.file.state = "absent" => t.file.records = <<>>
           /\ t.file.state = "whole" /\ t.cache # None => Shown(t.cache, t.file.records, u)
           /\ History!ReadHistoryFile = historyFile.records =>
                \A r \in History!ToSet(historyFile.records) \ History!ToSet(t.file.records) :
                  \/ t.file.state = "broken"
                  \/ History!Cardinality({q \in History!ToSet(t.file.records) : q > r}) >= MaxHistory
<1> DEFINE now == [History!StoreNow EXCEPT !.cache = None]
           c == Cut(x, s.cache)
<1>1. now.cache = None
  BY DEF History!StoreNow
<1>2. /\ s \in Store /\ UpTo(s.file.records, settled)
      /\ s.file.state = "absent" => s.file.records = <<>>
      /\ s.file.state = "whole" => s.cache # None /\ Shown(s.cache, s.file.records, unsaved)
      /\ History!ReadHistoryFile = historyFile.records =>
           \/ s.file.state = "broken"
           \/ History!ToSet(historyFile.records) \subseteq History!ToSet(s.file.records)
      /\ ~s.threw => UpTo(s.cache, settled)
      /\ ~s.threw /\ historyFile.records # <<>> => s.cache = History!ReadHistoryFile
  <2> HIDE DEF now
  <2>1. now \in {History!StoreNow, now} /\ s \in History!Read(now)
    BY DEF now
  <2> QED
    BY <1>1, <2>1, ReadKeeps DEF now
<1>3. settled \in Nat /\ x \in Rec /\ x = settled + 1 /\ settled <= x /\ x \in Nat /\ MaxHistory \in Nat \ {0}
  BY FirstRecordsAre DEF HistoryInv, Rec, FirstRecords
<1>4. UpTo(s.file.records, x)
  BY <1>2, <1>3, UpToMore
<1>5. s.threw \/ s.cache \in Seq(Rec)
  BY <1>2 DEF UpTo
<1>6. /\ t \in Store
      /\ \/ /\ ~t.threw /\ ~s.threw /\ t.fresh = TRUE
            /\ t.file = History!Whole(c) /\ t.cache = c
         \/ /\ t.threw /\ t.file = s.file /\ t.fresh = s.fresh
            /\ \/ t.cache = s.cache
               \/ ~s.threw /\ t.cache = <<x>> \o s.cache
         \/ /\ t.threw /\ ~s.threw /\ t.file.state = "broken" /\ t.fresh = FALSE
            /\ \E n \in 0..Len(c) : t.file.records = SubSeq(c, 1, n)
  BY <1>2, <1>3, <1>5, AddAre
<1>7. ~s.threw =>
        /\ UpTo(c, x)
        /\ History!ToSet(<<x>> \o s.cache) = {x} \union History!ToSet(s.cache)
        /\ \A r \in History!ToSet(s.cache) \ History!ToSet(c) :
             History!Cardinality({q \in History!ToSet(c) : q > r}) >= MaxHistory
  <2> SUFFICES ASSUME ~s.threw
               PROVE  /\ UpTo(c, x)
                      /\ History!ToSet(<<x>> \o s.cache) = {x} \union History!ToSet(s.cache)
                      /\ \A r \in History!ToSet(s.cache) \ History!ToSet(c) :
                           History!Cardinality({q \in History!ToSet(c) : q > r}) >= MaxHistory
    OBVIOUS
  <2> DEFINE l == s.cache
  <2>1. UpTo(l, settled)
    BY <1>2
  <2> HIDE DEF l
  <2>2. /\ UpTo(Cut(x, l), x)
        /\ History!ToSet(<<x>> \o l) = {x} \union History!ToSet(l)
        /\ \A r \in History!ToSet(l) \ History!ToSet(Cut(x, l)) :
             History!Cardinality({q \in History!ToSet(Cut(x, l)) : q > r}) >= MaxHistory
    <3>1. settled + 1 \in Rec
      BY <1>3
    <3>2. /\ UpTo(Cut(settled + 1, l), settled + 1)
          /\ History!ToSet(<<settled + 1>> \o l) = {settled + 1} \union History!ToSet(l)
          /\ \A r \in History!ToSet(l) \ History!ToSet(Cut(settled + 1, l)) :
               History!Cardinality({q \in History!ToSet(Cut(settled + 1, l)) : q > r}) >= MaxHistory
      BY <1>3, <2>1, <3>1, CutKeeps
    <3> QED
      BY <1>3, <3>2
  <2> QED
    BY <2>2 DEF l
<1> HIDE DEF c
<1>8. CASE ~t.threw /\ ~s.threw /\ t.file = History!Whole(c) /\ t.cache = c
  <2>1. t.file.records = c /\ t.file.state = "whole"
    BY <1>8 DEF History!Whole
  <2>2. ASSUME History!ReadHistoryFile = historyFile.records,
               NEW r \in History!ToSet(historyFile.records), r \notin History!ToSet(c)
        PROVE  History!Cardinality({q \in History!ToSet(c) : q > r}) >= MaxHistory
    <3>1. historyFile.records # <<>>
      BY <2>2, NoRecords
    <3>2. s.cache = historyFile.records
      BY <1>2, <1>8, <2>2, <3>1
    <3> QED
      BY <1>7, <1>8, <2>2, <3>2
  <2>3. Shown(t.cache, t.file.records, u)
    BY <1>8, <2>1, ShownWhole
  <2> QED
    BY <1>6, <1>7, <1>8, <2>1, <2>2, <2>3
<1>9. CASE /\ t.threw /\ t.file = s.file
           /\ t.cache = s.cache \/ (~s.threw /\ t.cache = <<x>> \o s.cache)
  <2>1. u = unsaved \union {x}
    BY <1>9
  <2>2. t.file.state = "whole" => Shown(t.cache, t.file.records, u)
    BY <1>2, <1>7, <1>9, <2>1 DEF Shown
  <2> QED
    BY <1>2, <1>4, <1>6, <1>9, <2>2
<1>10. CASE /\ t.threw /\ ~s.threw /\ t.file.state = "broken"
            /\ \E n \in 0..Len(c) : t.file.records = SubSeq(c, 1, n)
  <2>1. UpTo(t.file.records, x)
    BY <1>7, <1>10, HeadPartOf
  <2> QED
    BY <1>6, <1>10, <2>1
<1>11. \/ ~t.threw /\ ~s.threw /\ t.file = History!Whole(c) /\ t.cache = c
       \/ /\ t.threw /\ t.file = s.file
          /\ t.cache = s.cache \/ (~s.threw /\ t.cache = <<x>> \o s.cache)
       \/ /\ t.threw /\ ~s.threw /\ t.file.state = "broken"
          /\ \E n \in 0..Len(c) : t.file.records = SubSeq(c, 1, n)
  BY <1>6
<1> QED
  BY <1>8, <1>9, <1>10, <1>11

\* The steps.
KeptByAge ==
    ~History!EditHistory /\ History!ReadHistoryFile = historyFile.records =>
         \A r \in History!ToSet(historyFile.records) \ History!ToSet(historyFile'.records) :
           \/ historyFile'.state = "broken"
           \/ History!Cardinality({q \in History!ToSet(historyFile'.records) : q > r}) >= MaxHistory

ShownAtReads ==
    History!ReadBackupHistory /\ historyCache' # None /\ historyFile'.state = "whole" =>
         Shown(historyCache', historyFile'.records, unsaved)

\* Opened once for all the steps: the invariant of given values.
HistoryOf(l, c, b, n, u) ==
    /\ n \in Nat /\ n >= OldRecords /\ n <= MaxRecords
    /\ l \in Files /\ UpTo(l.records, n)
    /\ l.state = "absent" => l.records = <<>>
    /\ c \in Seq(Rec) \union {None} /\ b \in BOOLEAN
    /\ c # None /\ b /\ l.state = "whole" => Shown(c, l.records, u)

LEMMA HistoryIs ==
    /\ HistoryInv <=> HistoryOf(historyFile, historyCache, fresh, settled, unsaved)
    /\ HistoryInv' <=> HistoryOf(historyFile', historyCache', fresh', settled', unsaved')
BY DEF HistoryInv, HistoryOf, Shown, UpTo, Files

LEMMA ReadStep ==
    ASSUME HistoryInv, History!ReadBackupHistory
    PROVE  HistoryInv' /\ KeptByAge /\ ShownAtReads
<1>1. PICK t \in History!Read(History!StoreNow) :
        historyFile' = t.file /\ historyCache' = t.cache /\ fresh' = t.fresh
  BY DEF History!ReadBackupHistory, History!Take
<1>2. settled' = settled /\ unsaved' = unsaved
  BY DEF History!ReadBackupHistory
<1>3. /\ t \in Store /\ UpTo(t.file.records, settled)
      /\ t.file.state = "absent" => t.file.records = <<>>
      /\ t.file.state = "whole" => t.cache # None /\ Shown(t.cache, t.file.records, unsaved)
      /\ History!ReadHistoryFile = historyFile.records =>
           \/ t.file.state = "broken"
           \/ History!ToSet(historyFile.records) \subseteq History!ToSet(t.file.records)
  <2> DEFINE n == History!StoreNow
  <2> HIDE DEF n
  <2>1. n \in {n, [n EXCEPT !.cache = None]} /\ t \in History!Read(n)
    BY DEF n
  <2> QED
    BY <2>1, ReadKeeps DEF n
<1>4. HistoryInv'
  <2>1. HistoryOf(historyFile, historyCache, fresh, settled, unsaved)
    BY HistoryIs
  <2>2. HistoryOf(t.file, t.cache, t.fresh, settled, unsaved)
    BY <1>3, <2>1 DEF HistoryOf, Store
  <2> QED
    BY <1>1, <1>2, <2>2, HistoryIs
<1>5. KeptByAge
  BY <1>1, <1>3 DEF KeptByAge
<1>6. ShownAtReads
  BY <1>1, <1>3 DEF ShownAtReads
<1> QED
  BY <1>4, <1>5, <1>6

LEMMA AddStep ==
    ASSUME HistoryInv, History!PersistBackupResult
    PROVE  HistoryInv' /\ KeptByAge
<1> DEFINE now == [History!StoreNow EXCEPT !.cache = None]
<1>1. settled < MaxRecords /\ settled' = settled + 1
  BY DEF History!PersistBackupResult
<1>2. PICK s \in History!Read(now) : \E t \in History!Add(s, settled') :
        /\ historyFile' = t.file /\ historyCache' = t.cache /\ fresh' = t.fresh
        /\ unsaved' = IF t.threw THEN unsaved \union {settled'} ELSE unsaved
  BY DEF History!PersistBackupResult, History!Take
<1>3. PICK t \in History!Add(s, settled') :
        /\ historyFile' = t.file /\ historyCache' = t.cache /\ fresh' = t.fresh
        /\ unsaved' = IF t.threw THEN unsaved \union {settled'} ELSE unsaved
  BY <1>2
<1>4. /\ t \in Store /\ UpTo(t.file.records, settled')
      /\ t.file.state = "absent" => t.file.records = <<>>
      /\ t.file.state = "whole" /\ t.cache # None => Shown(t.cache, t.file.records, unsaved')
      /\ History!ReadHistoryFile = historyFile.records =>
           \A r \in History!ToSet(historyFile.records) \ History!ToSet(t.file.records) :
             \/ t.file.state = "broken"
             \/ History!Cardinality({q \in History!ToSet(t.file.records) : q > r}) >= MaxHistory
  BY <1>1, <1>3, AddKeeps
<1>5. HistoryInv'
  <2>1. HistoryOf(historyFile, historyCache, fresh, settled, unsaved)
    BY HistoryIs
  <2>2. settled' \in Nat /\ settled' >= OldRecords /\ settled' <= MaxRecords
    BY <1>1, <2>1, FirstRecordsAre DEF HistoryOf, FirstRecords
  <2>3. t.file \in Files /\ t.cache \in Seq(Rec) \union {None} /\ t.fresh \in BOOLEAN
    BY <1>4 DEF Store
  <2>4. HistoryOf(t.file, t.cache, t.fresh, settled', unsaved')
    BY <1>4, <2>2, <2>3 DEF HistoryOf
  <2> QED
    BY <1>3, <2>4, HistoryIs
<1>6. KeptByAge
  BY <1>3, <1>4 DEF KeptByAge
<1> QED
  BY <1>5, <1>6

\* The others: the config, the file by hand, a restart.
LEMMA OtherStep ==
    ASSUME HistoryInv, History!EditConfig \/ History!EditHistory \/ History!Restart \/ UNCHANGED historyVars
    PROVE  HistoryInv' /\ KeptByAge
<1>1. HistoryOf(historyFile, historyCache, fresh, settled, unsaved)
  BY HistoryIs
<1>2. ASSUME UNCHANGED historyFile PROVE KeptByAge
  BY <1>2 DEF KeptByAge
<1>3. CASE History!EditConfig
  BY <1>1, <1>2, <1>3, HistoryIs DEF History!EditConfig
<1>4. CASE History!Restart
  <2>1. /\ historyFile' = historyFile /\ historyCache' = None /\ fresh' = FALSE
        /\ settled' = settled /\ unsaved' = unsaved
    BY <1>4 DEF History!Restart
  <2>2. HistoryOf(historyFile, None, FALSE, settled, unsaved)
    BY <1>1 DEF HistoryOf
  <2> QED
    BY <1>2, <2>1, <2>2, HistoryIs
<1>5. CASE UNCHANGED historyVars
  BY <1>1, <1>2, <1>5, HistoryIs DEF historyVars
<1>6. CASE History!EditHistory
  <2>1. /\ historyCache' = historyCache /\ fresh' = FALSE /\ settled' = settled /\ unsaved' = unsaved
        /\ \/ /\ historyFile.records # <<>> /\ historyFile' = History!Whole(Tail(historyFile.records))
           \/ historyFile' = History!Absent
    BY <1>6 DEF History!EditHistory
  <2>2. ASSUME NEW l, UpTo(l.records, settled), l \in Files, l.state = "absent" => l.records = <<>>
        PROVE  HistoryOf(l, historyCache, FALSE, settled, unsaved)
    BY <1>1, <2>2 DEF HistoryOf
  <2>3. CASE historyFile.records # <<>> /\ historyFile' = History!Whole(Tail(historyFile.records))
    <3>1. UpTo(Tail(historyFile.records), settled)
      BY <1>1, <2>3, TailOf DEF HistoryOf
    <3> DEFINE l == History!Whole(Tail(historyFile.records))
    <3>2. l \in Files /\ l.state # "absent" /\ UpTo(l.records, settled)
      BY <3>1 DEF History!Whole, Files, UpTo
    <3> HIDE DEF l
    <3> QED
      BY <1>6, <2>1, <2>2, <2>3, <3>2, HistoryIs DEF l, KeptByAge
  <2>4. CASE historyFile' = History!Absent
    <3> DEFINE l == History!Absent
    <3>1. l \in Files /\ l.records = <<>>
      BY DEF History!Absent, Files
    <3>2. UpTo(<<>>, settled)
      BY NoRecords, UpToMore DEF HistoryInv
    <3> HIDE DEF l
    <3> QED
      BY <1>6, <2>1, <2>2, <2>4, <3>1, <3>2, HistoryIs DEF l, KeptByAge
  <2> QED
    BY <2>1, <2>3, <2>4
<1> QED
  BY <1>3, <1>4, <1>5, <1>6

LEMMA HistoryInit == Init => HistoryInv
<1> SUFFICES ASSUME Init PROVE HistoryInv
  OBVIOUS
<1>1. /\ historyCache = None /\ fresh = FALSE /\ settled = OldRecords /\ unsaved = {}
      /\ \/ historyFile = History!Absent
         \/ \E l \in FirstHistories, b \in BOOLEAN :
              historyFile = [state |-> "whole", records |-> l, fat |-> b]
  BY DEF Init, History!Init
<1>2. OldRecords \in Nat /\ OldRecords <= MaxRecords
  BY FirstRecordsAre DEF FirstRecords
<1>3. historyFile \in Files /\ UpTo(historyFile.records, OldRecords) /\ (historyFile.state = "absent" => historyFile.records = <<>>)
  <2>1. CASE historyFile = History!Absent
    <3>1. historyFile \in Files /\ historyFile.records = <<>>
      BY <2>1 DEF History!Absent, Files
    <3> QED
      BY <1>2, <3>1, NoRecords, UpToMore
  <2>2. ASSUME NEW l \in FirstHistories, NEW b \in BOOLEAN,
               historyFile = [state |-> "whole", records |-> l, fat |-> b]
        PROVE  historyFile \in Files /\ UpTo(historyFile.records, OldRecords) /\ historyFile.state # "absent"
    <3>1. UpTo(l, OldRecords)
      BY FirstRecordsAre DEF FirstRecords
    <3> QED
      BY <2>2, <3>1 DEF Files, UpTo
  <2> QED
    BY <1>1, <2>1, <2>2
<1>4. None \notin Seq(Rec) /\ UpTo(historyFile.records, settled)
  BY <1>1, <1>3, FirstRecordsAre DEF FirstRecords
<1>5. settled \in Nat /\ settled >= OldRecords /\ settled <= MaxRecords
  BY <1>1, <1>2
<1>6. historyCache \in Seq(Rec) \union {None} /\ historyCache = None
  BY <1>1
<1>7. fresh \in BOOLEAN /\ ~fresh
  BY <1>1
<1> QED
  BY <1>3, <1>4, <1>5, <1>6, <1>7 DEF HistoryInv

LEMMA HistoryStep == HistoryInv /\ [Next]_vars => HistoryInv' /\ [KeptByAge /\ ShownAtReads]_(History!vars)
<1> SUFFICES ASSUME HistoryInv, [Next]_vars PROVE HistoryInv' /\ [KeptByAge /\ ShownAtReads]_(History!vars)
  OBVIOUS
<1>1. History!Next \/ UNCHANGED historyVars
  BY DEF Next, vars
<1>2. CASE UNCHANGED historyVars
  BY <1>2, OtherStep DEF historyVars, History!vars
<1>3. CASE History!ReadBackupHistory
  BY <1>3, ReadStep
<1>4. CASE History!PersistBackupResult /\ ~History!ReadBackupHistory
  BY <1>4, AddStep DEF ShownAtReads
<1>5. CASE (History!EditConfig \/ History!EditHistory \/ History!Restart) /\ ~History!ReadBackupHistory
  BY <1>5, OtherStep DEF ShownAtReads
<1> QED
  BY <1>1, <1>2, <1>3, <1>4, <1>5 DEF History!Next

THEOREM HistoryHolds == Spec => []HistoryInv
BY HistoryInit, HistoryStep, PTL DEF Spec

\* A record leaves the file for as many newer ones as the history keeps, or for a
\* file that is cut short, or that cannot be read (addBackupRecord,
\* writeBackupHistory, readHistoryFile).
THEOREM RecordsGoByTheirAge == Spec => RecordsGoByAge
<1>1. RecordsGoByAge <=> [][KeptByAge]_(History!vars)
  BY DEF RecordsGoByAge, History!RecordsGoByAge, KeptByAge
<1>2. HistoryInv /\ [Next]_vars => [KeptByAge]_(History!vars)
  BY HistoryStep
<1> QED
  BY <1>1, <1>2, HistoryHolds, PTL DEF Spec

\* What a reader is shown is what the file has, but for the records that could not
\* be written (loadBackupHistory, addBackupRecord, persistHistory).
THEOREM ReadsAreOfTheFile == Spec => ReadsShowTheFile
<1>1. ReadsShowTheFile <=> [][ShownAtReads]_(History!vars)
  BY DEF ReadsShowTheFile, History!ReadsShowTheFile, ShownAtReads, Shown
<1>2. HistoryInv /\ [Next]_vars => [ShownAtReads]_(History!vars)
  BY HistoryStep
<1> QED
  BY <1>1, <1>2, HistoryHolds, PTL DEF Spec
=============================================================================
