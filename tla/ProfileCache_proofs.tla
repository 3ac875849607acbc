------------------------- MODULE ProfileCache_proofs ------------------------
(***************************************************************************)
(* Proofs about ProfileCache: that a model's name keeps its meaning, that  *)
(* telegrams are decoded as taught, that points get names of their own and *)
(* that the JSON service ends the program in the cases named only, for any *)
(* devices, models, profiles, short cuts and sizes of the tables.          *)
(***************************************************************************)
EXTENDS ProfileCache, SequenceTheorems, FiniteSetTheorems,
        WellFoundedInduction, TLAPS

\* The models the next reading finds, and those it will find when the model
\* under way is in its file.
Filed == ReadModel(hasModels, models, <<>>)
Coming ==
    IF job = NoModel THEN Filed
    ELSE ReadModel(TRUE, Append(models, job.model), <<>>)

\* In a cache c the name n is that of the model f.
Means(c, n, f) == \E i \in DOMAIN c : CmStr(c, i) = n /\ c[i] = f

\* What holds in any state: a line's EEP is what was sent and is decoded by
\* itself, every node's name is cached, half a line spoils, and without a
\* file there are no lines.
Plain(lines) ==
    \A i \in DOMAIN lines : lines[i].profile \in Eeps =>
        lines[i].sent = lines[i].profile
Fixed ==
    /\ Plain(control) /\ Plain(nodes)
    /\ \A i \in DOMAIN nodes : nodes[i].profile \in DOMAIN profiles
    /\ \A e \in Eeps \cap DOMAIN profiles : profiles[e] = e
    /\ torn => spoiled
    /\ ~hasModels => models = <<>>

\* The control file's names mean what was sent in the models to come; with
\* a model under way all names but its own do without it.
FilesAgree ==
    \A i \in DOMAIN control :
        LET l == control[i] IN
        l.profile \notin Eeps =>
            /\ Means(Coming, l.profile, l.sent)
            /\ \/ job # NoModel /\ l.profile = job.name
               \/ Means(Filed, l.profile, l.sent)

\* ModelCache is what the file says, but while EoClearControl is between the
\* two or ReadModel fills it.  With a model under way and no file it is empty
\* or that model's.
CacheAgrees ==
    command[1] \notin {"models", "lines"} =>
        IF job = NoModel THEN modelCache = Filed
        ELSE hasModels \/ modelCache = <<>> \/ modelCache = Coming

\* When the models are gone no line needs one.
HalfEmpty ==
    command[1] = "models" =>
        /\ models = <<>>
        /\ \A i \in DOMAIN control : control[i].profile \in Eeps

\* What is cached by name agrees with the models to come, or is stale.
TablesAgree ==
    /\ \A n \in DOMAIN profiles \ (Eeps \cup stale) :
           Means(Coming, n, profiles[n])
    /\ \A i \in DOMAIN nodes :
           nodes[i].profile \notin Eeps \cup stale =>
               Means(Coming, nodes[i].profile, nodes[i].sent)

\* Titles are found until models or nodes are dropped, and will be found
\* again when ReadModel is done.
Titles == IF command[1] = "lines" THEN Filed ELSE modelCache
TitlesFound ==
    ~cleared /\ job = NoModel =>
        \A i \in DOMAIN nodes : nodes[i].profile \notin Eeps =>
            Means(Titles, nodes[i].profile, nodes[i].sent)

\* Every name of a point that is in the file is in the table.
PointsKnown ==
    job = NoModel =>
        \/ control = <<>> \/ nodes = control
        \/ spoiled /\ command[1] # "control"

\* A cache that grows keeps its names.
Begins(c, d) == Len(c) <= Len(d) /\ \A i \in 1 .. Len(c) : d[i] = c[i]

\* Main reads for Operation: it has found as much of the file, or all of it.
LinesRead ==
    /\ command[1] \in {"operation", "lines", "nodes"} => mode = "Operation"
    /\ command[1] = "lines" => hasModels /\ Begins(modelCache, Filed)
    /\ command[1] = "nodes" /\ hasModels => modelCache = Filed

ProfileInv ==
    /\ TypeOK
    /\ LinesRead
    /\ Fixed
    /\ ~spoiled => /\ FilesAgree
                   /\ CacheAgrees
                   /\ HalfEmpty
                   /\ TablesAgree
                   /\ TitlesFound
    /\ PointsKnown

(***************************************************************************)
(* Numbers.                                                                *)
(***************************************************************************)
\* A set of numbers has a least one: the smallest of its parts up to a number
\* of the set, which are ordered by inclusion.
LEMMA LeastNumber ==
    ASSUME NEW S \in SUBSET Nat, S # {}
    PROVE  \E n \in S : \A m \in S : n <= m
<1> DEFINE upTo(n) == {k \in S : k <= n}
<1> DEFINE parts == {upTo(n) : n \in S}
<1>0. \A k \in S : k \in Nat
  OBVIOUS
<1>1. ASSUME NEW n \in S
      PROVE  IsFiniteSet(upTo(n)) /\ n \in upTo(n)
  <2>1. n \in Nat /\ n <= n
    BY <1>0
  <2>2. IsFiniteSet(0 .. n)
    BY <2>1, FS_Interval
  <2>3. \A k \in S : k <= n => k \in 0 .. n
    BY <1>0, <2>1
  <2>4. \A k \in upTo(n) : k \in S /\ k <= n
    OBVIOUS
  <2>5. upTo(n) \subseteq 0 .. n
    BY <2>3, <2>4
  <2> QED BY <2>1, <2>2, <2>5, FS_Subset
<1>2. parts \subseteq FiniteSubsetsOf(Nat) /\ parts # {}
  BY <1>1 DEF FiniteSubsetsOf
<1> DEFINE R == StrictSubsetOrdering(Nat)
<1>3. \E part \in parts : \A other \in parts : ~(<<other, part>> \in R)
  <2>1. IsWellFoundedOn(R, FiniteSubsetsOf(Nat))
    BY FS_StrictSubsetOrderingWellFounded
  <2> HIDE DEF R, parts
  <2> QED BY <1>2, <2>1, WFMin
<1>4. PICK n \in S : \A other \in parts : ~(<<other, upTo(n)>> \in R)
  BY <1>3
<1>5. ASSUME NEW m \in S, m < n
      PROVE  FALSE
  <2>1. n \in Nat /\ m \in Nat /\ ~(n <= m)
    BY <1>0, <1>5
  <2>2. \A k \in upTo(m) : k \in S /\ k \in Nat /\ k <= m
    BY <1>0
  <2>3. \A k \in upTo(m) : k <= n
    BY <1>5, <2>1, <2>2
  <2>4. upTo(m) \subseteq upTo(n) /\ n \notin upTo(m)
    BY <2>1, <2>2, <2>3
  <2>5. upTo(m) # upTo(n) /\ upTo(n) \subseteq Nat
    BY <1>0, <1>1, <2>4
  <2>6. <<upTo(m), upTo(n)>> \in R
    BY <2>4, <2>5 DEF StrictSubsetOrdering
  <2> QED BY <1>4, <2>6
<1> QED BY <1>0, <1>5

(***************************************************************************)
(* The names CmGetModel gives.                                             *)
(***************************************************************************)
\* The constants, in the form the steps need.
LEMMA Sizes ==
    /\ CM_CACHE_SIZE \in Nat /\ CM_CACHE_SIZE >= 1
    /\ MAX_SUFFIX \in Nat
    /\ \A e \in Eeps : e \notin Models /\ e \notin Names
<1>1. CM_CACHE_SIZE \in Nat \ {0} /\ MAX_SUFFIX \in Nat \ {0}
  BY ProfileAssumption
<1>2. \A f \in Models : BaseOf[f] \in STRING
  BY ProfileAssumption
<1>3. Names \subseteq STRING \X Nat
  <2>1. ASSUME NEW n \in Names
        PROVE  n \in STRING \X Nat
    <3>1. PICK b \in {BaseOf[f] : f \in Models}, k \in 1 .. CM_CACHE_SIZE :
                  n = <<b, k>>
      BY DEF Names
    <3>2. b \in STRING /\ k \in Nat
      BY <1>1, <1>2
    <3> QED BY <3>1, <3>2
  <2> QED BY <2>1
<1> QED BY <1>1, <1>3, ProfileAssumption

\* The entries of i's base up to i: finitely many, and i is one of them.
SameBase(c, i) == {j \in 1 .. i : BaseOf[c[j]] = BaseOf[c[i]]}

LEMMA SameBaseCounts ==
    ASSUME NEW c \in Seq(Models), NEW i \in DOMAIN c
    PROVE  /\ IsFiniteSet(SameBase(c, i))
           /\ Cardinality(SameBase(c, i)) \in 1 .. i
           /\ CmStr(c, i) = <<BaseOf[c[i]], Cardinality(SameBase(c, i))>>
<1>1. i \in Nat /\ 1 <= i /\ i \in 1 .. i
  BY LenProperties
<1>2. IsFiniteSet(1 .. i) /\ Cardinality(1 .. i) = i
  BY <1>1, FS_Interval
<1>3. SameBase(c, i) \in SUBSET (1 .. i) /\ i \in SameBase(c, i)
  BY <1>1 DEF SameBase
<1>4. IsFiniteSet(SameBase(c, i)) /\ Cardinality(SameBase(c, i)) <= i
  BY <1>2, <1>3, FS_Subset
<1>5. Cardinality(SameBase(c, i)) \in Nat
  BY <1>4, FS_CardinalityType
<1>6. Cardinality(SameBase(c, i)) # 0
  BY <1>3, <1>4, FS_EmptySet
<1>7. CmStr(c, i) = <<BaseOf[c[i]], Cardinality(SameBase(c, i))>>
  BY DEF CmStr, SameBase
<1>8. Cardinality(SameBase(c, i)) \in 1 .. i
  BY <1>1, <1>4, <1>5, <1>6
<1> QED BY <1>4, <1>7, <1>8

\* A model's name is a name.
LEMMA CmStrIsName ==
    ASSUME NEW c \in Seq(Models), Len(c) <= CM_CACHE_SIZE, NEW i \in DOMAIN c
    PROVE  CmStr(c, i) \in Names
<1>1. c[i] \in Models /\ i \in Nat /\ i <= CM_CACHE_SIZE
  BY LenProperties, Sizes
<1> DEFINE k == Cardinality(SameBase(c, i))
<1>2. k \in 1 .. i /\ CmStr(c, i) = <<BaseOf[c[i]], k>>
  BY SameBaseCounts
<1>3. k \in 1 .. CM_CACHE_SIZE
  BY <1>1, <1>2, Sizes
<1> QED BY <1>1, <1>2, <1>3 DEF Names

\* No two entries have one name.
LEMMA NamesDiffer ==
    ASSUME NEW c \in Seq(Models), NEW i \in DOMAIN c, NEW j \in DOMAIN c,
           CmStr(c, i) = CmStr(c, j)
    PROVE  i = j
<1>1. ASSUME NEW m \in DOMAIN c, NEW n \in DOMAIN c, m < n,
             CmStr(c, m) = CmStr(c, n)
      PROVE  FALSE
  <2>1. m \in Nat /\ n \in Nat /\ 1 <= m
    BY LenProperties
  <2>2. BaseOf[c[m]] = BaseOf[c[n]]
        /\ Cardinality(SameBase(c, m)) = Cardinality(SameBase(c, n))
    BY <1>1, SameBaseCounts
  <2>3. SameBase(c, m) \in SUBSET SameBase(c, n)
    BY <1>1, <2>1, <2>2 DEF SameBase
  <2>4. n \in SameBase(c, n) /\ n \notin SameBase(c, m)
    BY <1>1, <2>1 DEF SameBase
  <2>5. IsFiniteSet(SameBase(c, n))
    BY SameBaseCounts
  <2> QED BY <2>2, <2>3, <2>4, <2>5, FS_Subset
<1>2. i \in Nat /\ j \in Nat
  BY LenProperties
<1>3. CASE i < j
  BY <1>1, <1>3
<1>4. CASE j < i
  BY <1>1, <1>4
<1> QED BY <1>2, <1>3, <1>4

\* A name that has a meaning is decoded by it.
LEMMA MeansOne ==
    ASSUME NEW c \in Seq(Models), NEW n, NEW f, Means(c, n, f)
    PROVE  /\ CmGetCache(c, n) # {}
           /\ c[CHOOSE i \in CmGetCache(c, n) : TRUE] = f
           /\ f \in Models
           /\ \A g : Means(c, n, g) => g = f
<1>1. PICK i \in DOMAIN c : CmStr(c, i) = n /\ c[i] = f
  BY DEF Means
<1>2. \A j \in DOMAIN c : CmStr(c, j) = n => j = i
  BY <1>1, NamesDiffer
<1>3. CmGetCache(c, n) = {i}
  BY <1>1, <1>2 DEF CmGetCache
<1>4. c[i] \in Models
  OBVIOUS
<1> QED BY <1>1, <1>2, <1>3, <1>4 DEF Means

\* A name that is in the cache has a meaning, and AddEepCache takes it.
LEMMA CachedMeans ==
    ASSUME NEW c \in Seq(Models), NEW n, n \notin Eeps, CmGetCache(c, n) # {}
    PROVE  Means(c, n, AddEepCache(n, c))
<1>1. (CHOOSE i \in CmGetCache(c, n) : TRUE) \in CmGetCache(c, n)
  OBVIOUS
<1> QED BY <1>1 DEF Means, AddEepCache, CmGetCache

(***************************************************************************)
(* A cache that grows keeps its names.                                     *)
(***************************************************************************)
LEMMA BeginsKeeps ==
    ASSUME NEW c \in Seq(Models), NEW d \in Seq(Models), Begins(c, d),
           NEW n, NEW f, Means(c, n, f)
    PROVE  Means(d, n, f)
<1>1. PICK i \in DOMAIN c : CmStr(c, i) = n /\ c[i] = f
  BY DEF Means
<1>2. /\ i \in Nat /\ i <= Len(c) /\ Len(c) \in Nat /\ Len(d) \in Nat
      /\ Len(c) <= Len(d) /\ DOMAIN d = 1 .. Len(d) /\ 1 <= i
  BY LenProperties DEF Begins
<1>3. i \in DOMAIN d /\ \A j \in 1 .. i : j \in 1 .. Len(c)
  BY <1>2
<1>4. \A j \in 1 .. i : d[j] = c[j]
  BY <1>3 DEF Begins
<1>5. d[i] = c[i]
  BY <1>2, <1>4
<1>6. SameBase(d, i) = SameBase(c, i)
  BY <1>4, <1>5 DEF SameBase
<1>7. CmStr(d, i) = CmStr(c, i)
  BY <1>3, <1>5, <1>6, SameBaseCounts
<1> QED BY <1>1, <1>3, <1>5, <1>7 DEF Means

\* What a reading of a file finds.
Readable(file) ==
    SubSeq(file, 1, IF Len(file) < CM_CACHE_SIZE THEN Len(file)
                    ELSE CM_CACHE_SIZE)

LEMMA HeadIs ==
    ASSUME NEW file \in Seq(Models)
    PROVE  /\ Readable(file) \in Seq(Models)
           /\ Len(Readable(file)) <= CM_CACHE_SIZE
           /\ Begins(Readable(file), file)
           /\ Len(file) < CM_CACHE_SIZE => Readable(file) = file
           /\ Len(file) >= CM_CACHE_SIZE =>
                  Len(Readable(file)) = CM_CACHE_SIZE
           /\ \A c : ReadModel(TRUE, file, c) = Readable(file)
           /\ \A c : ReadModel(FALSE, file, c) = c
<1> DEFINE n == IF Len(file) < CM_CACHE_SIZE THEN Len(file) ELSE CM_CACHE_SIZE
<1>1. n \in Nat /\ Len(file) \in Nat /\ n <= Len(file) /\ n <= CM_CACHE_SIZE
  BY Sizes, LenProperties
<1>2. Readable(file) = SubSeq(file, 1, n)
  BY DEF Readable
<1>3. Readable(file) = [i \in 1 .. n |-> file[i]] /\ Len(Readable(file)) = n
      /\ Readable(file) \in Seq(Models)
  <2> HIDE DEF n
  <2>1. \A i \in 1 .. n : file[i] \in Models
    BY <1>1
  <2>2. Len(SubSeq(file, 1, n)) = n /\ SubSeq(file, 1, n) \in Seq(Models)
        /\ \A i \in 1 .. n : SubSeq(file, 1, n)[i] = file[i]
    BY <1>1, SubSeqProperties
  <2>3. DOMAIN SubSeq(file, 1, n) = 1 .. n
    BY <2>2, LenProperties
  <2>4. SubSeq(file, 1, n) = [i \in 1 .. n |-> file[i]]
    BY <1>1, <2>2, <2>3
  <2> QED BY <1>2, <2>2, <2>4
<1>4. Begins(Readable(file), file)
  BY <1>1, <1>3 DEF Begins
<1>5. ASSUME Len(file) < CM_CACHE_SIZE
      PROVE  Readable(file) = file
  <2>1. n = Len(file)
    BY <1>5
  <2>2. file = [i \in 1 .. Len(file) |-> file[i]]
    BY LenProperties
  <2> QED BY <1>3, <2>1, <2>2
<1>6. ASSUME Len(file) >= CM_CACHE_SIZE
      PROVE  Len(Readable(file)) = CM_CACHE_SIZE
  BY <1>1, <1>3, <1>6, Sizes
<1>7. \A c : ReadModel(TRUE, file, c) = Readable(file)
  BY DEF ReadModel, Readable
<1>8. \A c : ReadModel(FALSE, file, c) = c
  BY DEF ReadModel
<1> QED BY <1>1, <1>3, <1>4, <1>5, <1>6, <1>7, <1>8

\* One more line, and the same are found before it; a full cache does not
\* change.
LEMMA HeadGrows ==
    ASSUME NEW file \in Seq(Models), NEW f \in Models
    PROVE  /\ Append(file, f) \in Seq(Models)
           /\ Begins(Readable(file), Readable(Append(file, f)))
           /\ Len(Readable(file)) = CM_CACHE_SIZE =>
                  Readable(Append(file, f)) = Readable(file)
           /\ Len(Readable(file)) < CM_CACHE_SIZE =>
                  /\ Readable(file) = file
                  /\ Readable(Append(file, f)) = Append(Readable(file), f)
<1> DEFINE g == Append(file, f)
<1>1. /\ g \in Seq(Models) /\ Len(g) = Len(file) + 1
      /\ \A i \in 1 .. Len(file) : g[i] = file[i]
      /\ Len(file) \in Nat
  BY AppendProperties, LenProperties
<1>2. CASE Len(file) < CM_CACHE_SIZE
  <2>1. Readable(file) = file
    BY <1>2, HeadIs
  <2>2. Readable(g) = g
    <3>1. CASE Len(g) < CM_CACHE_SIZE
      BY <1>1, <3>1, HeadIs
    <3>2. CASE Len(g) = CM_CACHE_SIZE
      <4>1. Readable(g) = SubSeq(g, 1, Len(g))
        BY <3>2, Sizes DEF Readable
      <4>2. Len(SubSeq(g, 1, Len(g))) = Len(g)
            /\ SubSeq(g, 1, Len(g)) \in Seq(Models)
            /\ \A i \in 1 .. Len(g) : SubSeq(g, 1, Len(g))[i] = g[i]
        BY <1>1, SubSeqProperties
      <4>3. SubSeq(g, 1, Len(g)) = g
        <5> DEFINE h == SubSeq(g, 1, Len(g))
        <5>1. h \in Seq(Models) /\ Len(h) = Len(g)
              /\ \A i \in 1 .. Len(g) : h[i] = g[i]
          BY <4>2
        <5> HIDE DEF g, h
        <5> QED BY <1>1, <5>1, SeqEqual
      <4> QED BY <4>1, <4>3
    <3>3. Len(g) <= CM_CACHE_SIZE
      BY <1>1, <1>2, Sizes
    <3>4. Len(g) < CM_CACHE_SIZE \/ Len(g) = CM_CACHE_SIZE
      BY <1>1, <3>3, Sizes
    <3> QED BY <3>1, <3>2, <3>4
  <2>3. Len(Readable(file)) # CM_CACHE_SIZE
    BY <1>1, <1>2, <2>1, Sizes
  <2>4. Begins(file, g)
    BY <1>1 DEF Begins
  <2> QED BY <1>1, <2>1, <2>2, <2>3, <2>4
<1>3. CASE Len(file) >= CM_CACHE_SIZE
  <2>1. Len(g) >= CM_CACHE_SIZE
    BY <1>1, <1>3, Sizes
  <2> DEFINE a == Readable(file)
             b == Readable(g)
  <2>2. /\ a \in Seq(Models) /\ b \in Seq(Models)
        /\ Len(a) = CM_CACHE_SIZE /\ Len(b) = CM_CACHE_SIZE
        /\ Begins(a, file) /\ Begins(b, g)
    BY <1>1, <1>3, <2>1, HeadIs
  <2>3. \A i \in 1 .. CM_CACHE_SIZE : i \in 1 .. Len(file)
    BY <1>1, <1>3, Sizes
  <2>4. \A i \in 1 .. CM_CACHE_SIZE : a[i] = b[i]
    <3> HIDE DEF a, b, g
    <3> QED BY <1>1, <2>2, <2>3 DEF Begins
  <2>5. a = b
    <3> HIDE DEF a, b
    <3> QED BY <2>2, <2>4, SeqEqual
  <2>6. Begins(a, b)
    <3> HIDE DEF a, b
    <3> QED BY <2>2, <2>5, Sizes DEF Begins
  <2>7. ~(Len(a) < CM_CACHE_SIZE)
    BY <2>2, Sizes
  <2> QED BY <1>1, <2>5, <2>6, <2>7
<1>4. Len(file) < CM_CACHE_SIZE \/ Len(file) >= CM_CACHE_SIZE
  BY <1>1, Sizes
<1> QED BY <1>2, <1>3, <1>4

(***************************************************************************)
(* The names of points.                                                    *)
(***************************************************************************)
LEMMA NewNameIsPoint ==
    ASSUME NEW sc \in Points, NEW used
    PROVE  GetNewNameWithCurrent(sc, used) \in Points
<1> DEFINE with(k) == <<sc[1], Append(sc[2], k)>>
           free == {k \in 1 .. MAX_SUFFIX : with(k) \notin used}
<1>1. sc[1] \in STRING /\ sc[2] \in Seq(Nat)
  BY DEF Points
<1>2. ASSUME NEW k \in Nat PROVE with(k) \in Points
  <2>1. Append(sc[2], k) \in Seq(Nat)
    BY <1>1, AppendProperties
  <2> QED BY <1>1, <2>1 DEF Points
<1>3. CASE free # {}
  <2>1. free \in SUBSET Nat
    BY Sizes
  <2>2. \E k \in free : \A l \in free : k <= l
    <3> HIDE DEF free
    <3> QED BY <1>3, <2>1, LeastNumber
  <2>3. (CHOOSE k \in free : \A l \in free : k <= l) \in Nat
    <3> HIDE DEF free
    <3> QED BY <2>1, <2>2
  <2>4. with(CHOOSE k \in free : \A l \in free : k <= l) \in Points
    <3> HIDE DEF with, free
    <3> QED BY <1>2, <2>3
  <2> QED BY <2>4 DEF GetNewNameWithCurrent
<1>4. CASE free = {}
  BY <1>4 DEF GetNewNameWithCurrent
<1> QED BY <1>3, <1>4

\* A name that is used already is the short cut itself, with all its
\* suffixes used.
LEMMA UsedNameHasNoSuffix ==
    ASSUME NEW sc \in Points, NEW used,
           GetNewNameWithCurrent(sc, used) \in used
    PROVE  \A k \in 1 .. MAX_SUFFIX :
               LET n == GetNewNameWithCurrent(sc, used) IN
               <<n[1], Append(n[2], k)>> \in used
<1> DEFINE with(k) == <<sc[1], Append(sc[2], k)>>
           free == {k \in 1 .. MAX_SUFFIX : with(k) \notin used}
           least == CHOOSE k \in free : \A l \in free : k <= l
<1>1. ASSUME free # {}, sc \in used
      PROVE  FALSE
  <2>1. free \in SUBSET Nat
    BY Sizes
  <2>2. \E k \in free : \A l \in free : k <= l
    <3> HIDE DEF free
    <3> QED BY <1>1, <2>1, LeastNumber
  <2>3. least \in free
    <3> HIDE DEF free
    <3> QED BY <2>2
  <2>4. with(least) \notin used
    <3> HIDE DEF least, with
    <3> QED BY <2>3
  <2>5. GetNewNameWithCurrent(sc, used) = with(least)
    BY <1>1 DEF GetNewNameWithCurrent
  <2> QED BY <2>4, <2>5
<1>2. sc \notin used => GetNewNameWithCurrent(sc, used) = sc
  BY DEF GetNewNameWithCurrent
<1>3. free = {} => GetNewNameWithCurrent(sc, used) = sc
  BY DEF GetNewNameWithCurrent
<1>4. free = {} /\ GetNewNameWithCurrent(sc, used) = sc
  BY <1>1, <1>2, <1>3
<1>5. \A k \in 1 .. MAX_SUFFIX : with(k) \in used
  BY <1>4
<1> QED BY <1>4, <1>5

\* The names of a line: each is the first that is new to the table and to
\* the names before it.
Named(s, n, scs, taken) ==
    \A i \in 1 .. n : s[i] = GetNewNameWithCurrent(scs[i],
                                 taken \cup {s[j] : j \in 1 .. i - 1})

LEMMA NamesCanBeGiven ==
    ASSUME NEW scs \in Seq(Points), NEW taken, NEW n \in 0 .. Len(scs)
    PROVE  \E s \in [1 .. n -> Points] : Named(s, n, scs, taken)
<1> DEFINE Given(k) == \E s \in [1 .. k -> Points] : Named(s, k, scs, taken)
           bad == {k \in 0 .. Len(scs) : ~Given(k)}
<1>1. Len(scs) \in Nat /\ DOMAIN scs = 1 .. Len(scs)
  BY LenProperties
<1>2. CASE bad # {}
  <2>1. bad \in SUBSET Nat
    OBVIOUS
  <2>2. PICK k \in bad : \A l \in bad : k <= l
    <3> HIDE DEF bad
    <3> QED BY <1>2, <2>1, LeastNumber
  <2>3. k \in 0 .. Len(scs) /\ ~Given(k) /\ k \in Nat
    OBVIOUS
  <2>4. k # 0
    <3>1. [i \in 1 .. 0 |-> scs[i]] \in [1 .. 0 -> Points]
      OBVIOUS
    <3>2. Named([i \in 1 .. 0 |-> scs[i]], 0, scs, taken)
      BY DEF Named
    <3>3. Given(0)
      BY <3>1, <3>2
    <3> HIDE DEF Given
    <3> QED BY <2>3, <3>3
  <2>5. k - 1 \in 0 .. Len(scs) /\ k - 1 \in Nat /\ k - 1 \notin bad
    <3>1. k - 1 \in 0 .. Len(scs) /\ k - 1 \in Nat /\ ~(k <= k - 1)
      BY <1>1, <2>3, <2>4
    <3> HIDE DEF bad
    <3> QED BY <2>2, <3>1
  <2>6. Given(k - 1)
    BY <2>5
  <2>7. PICK s \in [1 .. k - 1 -> Points] : Named(s, k - 1, scs, taken)
    BY <2>6
  <2> DEFINE new == GetNewNameWithCurrent(scs[k],
                        taken \cup {s[j] : j \in 1 .. k - 1})
             t == [i \in 1 .. k |-> IF i = k THEN new ELSE s[i]]
  <2>8. k \in 1 .. Len(scs) /\ scs[k] \in Points
    BY <1>1, <2>3, <2>4
  <2>9. new \in Points
    BY <2>8, NewNameIsPoint
  <2>10. /\ \A i \in 1 .. k - 1 : t[i] = s[i]
         /\ t[k] = new
         /\ t \in [1 .. k -> Points]
    <3>1. \A i \in 1 .. k : i # k => i \in 1 .. k - 1
      BY <2>3
    <3>2. \A i \in 1 .. k - 1 : i \in 1 .. k /\ i # k
      BY <2>3
    <3>3. k \in 1 .. k
      BY <2>3, <2>4
    <3> HIDE DEF new
    <3> QED BY <2>9, <3>1, <3>2, <3>3
  <2>11. ASSUME NEW i \in 1 .. k
         PROVE  t[i] = GetNewNameWithCurrent(scs[i],
                           taken \cup {t[j] : j \in 1 .. i - 1})
    <3>1. \A j \in 1 .. i - 1 : j \in 1 .. k - 1
      BY <2>3
    <3>2. {t[j] : j \in 1 .. i - 1} = {s[j] : j \in 1 .. i - 1}
      <4>1. \A j \in 1 .. i - 1 : t[j] = s[j]
        BY <2>10, <3>1
      <4> HIDE DEF t
      <4> QED BY <4>1
    <3>3. CASE i = k
      <4> HIDE DEF t
      <4> QED BY <2>10, <3>2, <3>3
    <3>4. CASE i # k
      <4>1. i \in 1 .. k - 1
        BY <2>3, <3>4
      <4>2. s[i] = GetNewNameWithCurrent(scs[i],
                       taken \cup {s[j] : j \in 1 .. i - 1})
        BY <2>7, <4>1 DEF Named
      <4> HIDE DEF t
      <4> QED BY <2>10, <3>2, <4>1, <4>2
    <3> QED BY <3>3, <3>4
  <2>12. Named(t, k, scs, taken)
    <3> HIDE DEF t
    <3> QED BY <2>11 DEF Named
  <2>13. Given(k)
    <3> HIDE DEF t
    <3> QED BY <2>10, <2>12
  <2> HIDE DEF Given
  <2> QED BY <2>3, <2>13
<1>3. CASE bad = {}
  <2>1. n \notin bad
    BY <1>3
  <2> QED BY <2>1
<1> QED BY <1>2, <1>3

LEMMA NamesGiven ==
    ASSUME NEW scs \in Seq(Points), NEW table
    PROVE  LET s == MakeSCutFieldsWithCurrent(scs, table) IN
           /\ s \in Seq(Points) /\ Len(s) = Len(scs)
           /\ Named(s, Len(scs), scs, UsedIn(table))
<1> DEFINE taken == UsedIn(table)
           n == Len(scs)
           Makes(s) == s = [i \in DOMAIN scs |->
                               GetNewNameWithCurrent(scs[i],
                                   taken \cup {s[j] : j \in 1 .. i - 1})]
           name == CHOOSE s : Makes(s)
<1>1. n \in Nat /\ DOMAIN scs = 1 .. n /\ n \in 0 .. n
  BY LenProperties
<1>2. PICK s \in [1 .. n -> Points] : Named(s, n, scs, taken)
  BY <1>1, NamesCanBeGiven
<1>3. Makes(s)
  BY <1>1, <1>2 DEF Named
<1>4. Makes(name)
  <2> HIDE DEF Makes
  <2> QED BY <1>3
<1>5. MakeSCutFieldsWithCurrent(scs, table) = name
  BY DEF MakeSCutFieldsWithCurrent
<1>6. DOMAIN name = 1 .. n
      /\ \A i \in 1 .. n : name[i] = GetNewNameWithCurrent(scs[i],
                               taken \cup {name[j] : j \in 1 .. i - 1})
  <2> HIDE DEF name
  <2> QED BY <1>1, <1>4
<1>7. \A i \in 1 .. n : name[i] \in Points
  <2>1. \A i \in 1 .. n : scs[i] \in Points
    BY <1>1
  <2> HIDE DEF name
  <2> QED BY <1>6, <2>1, NewNameIsPoint
<1>8. name = [i \in 1 .. n |-> name[i]]
  <2>1. name = [i \in DOMAIN scs |-> GetNewNameWithCurrent(scs[i],
                                   taken \cup {name[j] : j \in 1 .. i - 1})]
    <3> HIDE DEF name
    <3> QED BY <1>4
  <2> HIDE DEF name
  <2> QED BY <1>1, <2>1
<1>9. name \in Seq(Points) /\ Len(name) = n
  <2> HIDE DEF name
  <2> QED BY <1>1, <1>7, <1>8
<1>10. Named(name, n, scs, taken)
  <2> HIDE DEF name
  <2> QED BY <1>6 DEF Named
<1> QED
  <2> HIDE DEF name
  <2> QED BY <1>5, <1>9, <1>10

(***************************************************************************)
(* Types.                                                                  *)
(***************************************************************************)
Table(t) ==
    /\ DOMAIN t \subseteq Eeps \cup Names
    /\ \A n \in DOMAIN t : t[n] \in Models \cup Eeps \cup {NoUnits}

\* What CacheProfiles makes of a table: it keeps what is there and adds the
\* names of the lines.
LEMMA CacheIs ==
    ASSUME NEW lines \in Seq(Line), NEW c \in Seq(Models), NEW table,
           Table(table)
    PROVE  LET t == CacheProfiles(lines, c, table) IN
           /\ Table(t)
           /\ \A n \in DOMAIN table : n \in DOMAIN t /\ t[n] = table[n]
           /\ \A i \in DOMAIN lines : lines[i].profile \in DOMAIN t
           /\ \A n \in DOMAIN t : n \notin DOMAIN table =>
                  /\ t[n] = AddEepCache(n, c)
                  /\ \E i \in DOMAIN lines : lines[i].profile = n
<1> DEFINE t == CacheProfiles(lines, c, table)
           named == {lines[i].profile : i \in DOMAIN lines}
<1>1. /\ DOMAIN t = DOMAIN table \cup named
      /\ \A n \in DOMAIN table : t[n] = table[n]
      /\ \A n \in named : n \notin DOMAIN table => t[n] = AddEepCache(n, c)
  BY DEF CacheProfiles
<1>2. \A i \in DOMAIN lines : lines[i].profile \in Eeps \cup Names
  <2>1. ASSUME NEW i \in DOMAIN lines
        PROVE  lines[i].profile \in Eeps \cup Names
    <3>1. lines[i] \in Line
      BY LenProperties
    <3> QED BY <3>1 DEF Line
  <2> QED BY <2>1
<1>3. \A n \in named : \E i \in DOMAIN lines : lines[i].profile = n
  OBVIOUS
<1>4. ASSUME NEW n \in named
      PROVE  AddEepCache(n, c) \in Models \cup Eeps \cup {NoUnits}
  <2>1. CASE n \in Eeps
    BY <2>1 DEF AddEepCache
  <2>2. CASE n \notin Eeps /\ CmGetCache(c, n) = {}
    BY <2>2 DEF AddEepCache
  <2>3. CASE n \notin Eeps /\ CmGetCache(c, n) # {}
    <3>1. Means(c, n, AddEepCache(n, c))
      BY <2>3, CachedMeans
    <3> QED BY <3>1, MeansOne
  <2> QED BY <2>1, <2>2, <2>3
<1>5. Table(t)
  <2> HIDE DEF t
  <2>1. DOMAIN t \subseteq Eeps \cup Names
    BY <1>1, <1>2, <1>3 DEF Table
  <2>2. \A n \in DOMAIN t : t[n] \in Models \cup Eeps \cup {NoUnits}
    BY <1>1, <1>4 DEF Table
  <2> QED BY <2>1, <2>2 DEF Table
<1>6. \A i \in DOMAIN lines : lines[i].profile \in named
  OBVIOUS
<1> HIDE DEF t, named
<1>7. QED BY <1>1, <1>3, <1>5, <1>6 DEF t

\* The tables are well typed after a reading.
LEMMA ReadingTypes ==
    ASSUME NEW has \in BOOLEAN, NEW file \in Seq(Models),
           NEW lines \in Seq(Line), NEW c \in Seq(Models),
           Len(c) <= CM_CACHE_SIZE, NEW table, Table(table),
           EoReadControl(has, file, lines, c, table)
    PROVE  /\ modelCache' \in Seq(Models) /\ Len(modelCache') <= CM_CACHE_SIZE
           /\ nodes' \in Seq(Line)
           /\ Table(profiles')
           /\ crashed' \in Ids \cup {NoOne, Overrun}
<1> DEFINE read == ReadModel(has, file, c)
<1>1. read \in Seq(Models) /\ Len(read) <= CM_CACHE_SIZE
  BY HeadIs
<1>2. modelCache' = read /\ nodes' = lines
      /\ profiles' = CacheProfiles(lines, read, table)
      /\ crashed' \in {NoOne, Overrun}
  BY DEF EoReadControl
<1> HIDE DEF read
<1>3. Table(profiles')
  BY <1>1, <1>2, CacheIs
<1> QED BY <1>1, <1>2, <1>3

\* How far main may have come.
Stages == {"no", "control", "models", "table",
           "operation", "lines", "nodes"} \X BOOLEAN

LEMMA InitTypes == Init => TypeOK
<1> SUFFICES ASSUME Init PROVE TypeOK
  OBVIOUS
<1>1. <<>> \in Seq(Line) /\ <<>> \in Seq(Models) /\ Len(<<>>) = 0
      /\ 0 <= CM_CACHE_SIZE
  BY Sizes
<1>2. DOMAIN profiles = {}
  BY DEF Init
<1>3. command \in Stages
  BY DEF Init, Stages
<1> QED BY <1>1, <1>2, <1>3 DEF Init, TypeOK, Stages, fileVars, tableVars

\* CmGetModel's cache has the model, or is full.
LEMMA CmGetModelIs ==
    ASSUME NEW c \in Seq(Models), Len(c) <= CM_CACHE_SIZE, NEW f \in Models
    PROVE  /\ CmGetModel(c, f) \in Seq(Models)
           /\ Len(CmGetModel(c, f)) <= CM_CACHE_SIZE
           /\ \/ CmGetModel(c, f) = c
              \/ /\ Len(c) < CM_CACHE_SIZE
                 /\ CmGetModel(c, f) = Append(c, f)
<1>1. Append(c, f) \in Seq(Models) /\ Len(Append(c, f)) = Len(c) + 1
      /\ Len(c) \in Nat
  BY AppendProperties, LenProperties
<1>2. CASE f \in ToSet(c) \/ Len(c) = CM_CACHE_SIZE
  BY <1>2 DEF CmGetModel
<1>3. CASE ~(f \in ToSet(c) \/ Len(c) = CM_CACHE_SIZE)
  <2>1. CmGetModel(c, f) = Append(c, f)
    BY <1>3 DEF CmGetModel
  <2>2. Len(c) < CM_CACHE_SIZE /\ Len(Append(c, f)) <= CM_CACHE_SIZE
    BY <1>1, <1>3, Sizes
  <2> QED BY <1>1, <2>1, <2>2
<1> QED BY <1>2, <1>3

\* The name EoSetCm takes is that of an entry with its model.
LEMMA FoundMeans ==
    ASSUME NEW c \in Seq(Models), Len(c) <= CM_CACHE_SIZE, NEW f \in ToSet(c)
    PROVE  LET n == CmStr(c, CmFpSearch(c, f)) IN n \in Names /\ Means(c, n, f)
<1> DEFINE with == {i \in DOMAIN c : c[i] = f}
<1>1. DOMAIN c = 1 .. Len(c) /\ Len(c) \in Nat
  BY LenProperties
<1>2. with # {} /\ with \in SUBSET Nat
  BY <1>1 DEF ToSet
<1>3. PICK i \in with : \A j \in with : i <= j
  <2> HIDE DEF with
  <2> QED BY <1>2, LeastNumber
<1>4. \A j \in 1 .. i - 1 : c[j] # f
  <2> SUFFICES ASSUME NEW j \in 1 .. i - 1, c[j] = f
               PROVE  FALSE
    OBVIOUS
  <2>1. i \in DOMAIN c /\ j \in DOMAIN c /\ ~(i <= j)
    BY <1>1, <1>3
  <2>2. j \in with
    BY <2>1
  <2> HIDE DEF with
  <2> QED BY <1>3, <2>1, <2>2
<1>5. \E k \in DOMAIN c : c[k] = f /\ \A j \in 1 .. k - 1 : c[j] # f
  BY <1>3, <1>4
<1>6. CmFpSearch(c, f) \in DOMAIN c /\ c[CmFpSearch(c, f)] = f
  BY <1>5 DEF CmFpSearch
<1>7. CmStr(c, CmFpSearch(c, f)) \in Names
  BY <1>6, CmStrIsName
<1> QED BY <1>6, <1>7 DEF Means

LEMMA NewLineIsLine ==
    ASSUME NEW d \in Ids, NEW n \in Eeps \cup Names, NEW f \in Models \cup Eeps
    PROVE  /\ NewLine(d, n, f) \in Line
           /\ NewLine(d, n, f).profile = n /\ NewLine(d, n, f).sent = f
           /\ NewLine(d, n, f).points
                  = MakeSCutFieldsWithCurrent(PointsOf[f], nodes)
<1>1. PointsOf[f] \in Seq(Points)
  BY ProfileAssumption
<1>2. MakeSCutFieldsWithCurrent(PointsOf[f], nodes) \in Seq(Points)
  BY <1>1, NamesGiven
<1> QED BY <1>2 DEF NewLine, Line

\* A reading at the end of a telegram or command.
LEMMA ReadFilesTypes ==
    ASSUME TypeOK, NEW c \in Seq(Models), Len(c) <= CM_CACHE_SIZE,
           control' \in Seq(Line), models' \in Seq(Models),
           hasModels' \in BOOLEAN, ReadFiles(c)
    PROVE  /\ modelCache' \in Seq(Models) /\ Len(modelCache') <= CM_CACHE_SIZE
           /\ nodes' \in Seq(Line)
           /\ DOMAIN profiles' \subseteq Eeps \cup Names
           /\ \A n \in DOMAIN profiles' :
                  profiles'[n] \in Models \cup Eeps \cup {NoUnits}
           /\ crashed' \in Ids \cup {NoOne, Overrun}
<1>1. Table(profiles)
  BY DEF TypeOK, Table
<1>2. EoReadControl(hasModels', models', control', c, profiles)
  BY DEF ReadFiles
<1>3. Table(profiles')
  BY <1>1, <1>2, ReadingTypes
<1> QED BY <1>1, <1>2, <1>3, ReadingTypes DEF Table

\* And at a start.
LEMMA StartTypes ==
    ASSUME TypeOK, NEW m \in {"Monitor", "Register", "Operation"},
           control' \in Seq(Line), models' \in Seq(Models),
           hasModels' \in BOOLEAN, torn' \in BOOLEAN, spoiled' \in BOOLEAN,
           Start(m)
    PROVE  TypeOK'
<1>1. <<>> \in Seq(Models) /\ Len(<<>>) = 0 /\ 0 <= CM_CACHE_SIZE
  BY Sizes
<1>2. Table(<<>>)
  BY DEF Table
<1>3. EoReadControl(hasModels', models', control', <<>>, <<>>)
  BY DEF Start
<1>4. /\ modelCache' \in Seq(Models) /\ Len(modelCache') <= CM_CACHE_SIZE
      /\ nodes' \in Seq(Line) /\ Table(profiles')
      /\ crashed' \in Ids \cup {NoOne, Overrun}
  BY <1>1, <1>2, <1>3, ReadingTypes
<1>5. /\ DOMAIN profiles' \subseteq Eeps \cup Names
      /\ \A n \in DOMAIN profiles' :
             profiles'[n] \in Models \cup Eeps \cup {NoUnits}
  BY <1>4 DEF Table
<1>6. /\ mode' = m /\ job' = NoModel /\ command' = <<"no", FALSE>>
      /\ cleared' = FALSE /\ stale' = {}
  BY DEF Start
<1>7. command' \in Stages
  BY <1>6 DEF Stages
<1> QED BY <1>4, <1>5, <1>6, <1>7 DEF TypeOK, Stages

LEMMA TypesKept == TypeOK /\ [Next]_vars => TypeOK'
<1> SUFFICES ASSUME TypeOK, [Next]_vars PROVE TypeOK'
  OBVIOUS
<1> USE DEF fileVars, tableVars, Stages
<1>0. /\ control \in Seq(Line) /\ models \in Seq(Models)
      /\ hasModels \in BOOLEAN /\ torn \in BOOLEAN /\ spoiled \in BOOLEAN
      /\ modelCache \in Seq(Models) /\ Len(modelCache) <= CM_CACHE_SIZE
      /\ <<>> \in Seq(Line) /\ <<>> \in Seq(Models)
      /\ Len(<<>>) <= CM_CACHE_SIZE
  BY Sizes DEF TypeOK
<1>1. ASSUME NEW d \in Ids, NEW e \in Eeps, EepTeachIn(d, e)
      PROVE  TypeOK'
  <2>1. NewLine(d, e, e) \in Line
    BY NewLineIsLine
  <2>2. control' = Append(control, NewLine(d, e, e)) /\ ReadFiles(modelCache)
        /\ cleared' = FALSE
        /\ UNCHANGED <<mode, models, hasModels, torn, job, command, spoiled,
                       stale>>
    BY <1>1 DEF EepTeachIn
  <2>3. control' \in Seq(Line)
    BY <1>0, <2>1, <2>2, AppendProperties
  <2> QED BY <1>0, <2>2, <2>3, ReadFilesTypes DEF TypeOK
<1>2. ASSUME NEW d \in Ids, NEW f \in Models, CmTeachIn(d, f)
      PROVE  TypeOK'
  <2> DEFINE found == CmGetModel(modelCache, f)
             name == CmStr(found, CmFpSearch(found, f))
  <2>1. /\ f \in ToSet(found) /\ modelCache' = found
        /\ control' = Append(control, NewLine(d, name, f))
        /\ job' = [model |-> f, name |-> name]
        /\ spoiled' = (spoiled \/ HalfCleared)
        /\ UNCHANGED <<mode, models, hasModels, torn, nodes, profiles,
                       command, crashed, cleared, stale>>
    BY <1>2 DEF CmTeachIn
  <2>2. found \in Seq(Models) /\ Len(found) <= CM_CACHE_SIZE
    BY <1>0, CmGetModelIs
  <2>3. name \in Names
    <3> HIDE DEF found
    <3> QED BY <2>1, <2>2, FoundMeans
  <2>4. NewLine(d, name, f) \in Line
    BY <2>3, NewLineIsLine
  <2>5. control' \in Seq(Line)
    BY <1>0, <2>1, <2>4, AppendProperties
  <2>6. job' \in {NoModel} \cup [model : Models, name : Names]
    BY <2>1, <2>3
  <2>7. spoiled' \in BOOLEAN
    BY <1>0, <2>1 DEF HalfCleared
  <2> QED BY <2>1, <2>2, <2>5, <2>6, <2>7 DEF TypeOK
<1>3. ASSUME NEW d \in Ids, NEW f \in Models, CmTeachInFails(d, f)
      PROVE  TypeOK'
  <2>1. ReadFiles(CmGetModel(modelCache, f)) /\ cleared' = FALSE
        /\ spoiled' = (spoiled \/ ~hasModels)
        /\ UNCHANGED <<mode, control, models, hasModels, torn, job, command,
                       stale>>
    BY <1>3 DEF CmTeachInFails
  <2>2. /\ CmGetModel(modelCache, f) \in Seq(Models)
        /\ Len(CmGetModel(modelCache, f)) <= CM_CACHE_SIZE
    BY <1>0, CmGetModelIs
  <2>3. spoiled' \in BOOLEAN
    BY <1>0, <2>1
  <2> QED BY <1>0, <2>1, <2>2, <2>3, ReadFilesTypes DEF TypeOK
<1>4. ASSUME NEW d \in Ids, TeachInRefused(d)
      PROVE  TypeOK'
  <2>1. ReadFiles(modelCache) /\ cleared' = FALSE
        /\ UNCHANGED <<mode, control, models, hasModels, torn, job, command,
                       spoiled, stale>>
    BY <1>4 DEF TeachInRefused
  <2> QED BY <1>0, <2>1, ReadFilesTypes DEF TypeOK
<1>5. ASSUME NEW d \in Ids, JsonTelegram(d)
      PROVE  TypeOK'
  BY <1>5 DEF JsonTelegram, TypeOK
<1>6. ASSUME NEW ok \in BOOLEAN, WriteModel(ok)
      PROVE  TypeOK'
  <2>1. /\ job # NoModel /\ job' = NoModel
        /\ models' = IF ok /\ ~torn THEN Append(models, job.model) ELSE models
        /\ hasModels' = (hasModels \/ ok)
        /\ UNCHANGED <<mode, control, torn, command, stale>>
        /\ ReadFiles(modelCache)
        /\ cleared' = FALSE
        /\ spoiled' = (spoiled \/ ~ok \/ HalfCleared)
    BY <1>6 DEF WriteModel
  <2>2. job.model \in Models
    BY <2>1 DEF TypeOK
  <2>3. models' \in Seq(Models) /\ hasModels' \in BOOLEAN
        /\ spoiled' \in BOOLEAN
    BY <1>0, <2>1, <2>2, AppendProperties DEF HalfCleared
  <2> QED BY <1>0, <2>1, <2>3, ReadFilesTypes DEF TypeOK
<1>7. ASSUME NEW m \in {"Monitor", "Register"}, ChangeMode(m)
      PROVE  TypeOK'
  BY <1>7 DEF ChangeMode, TypeOK
<1>8. CASE ChangeToOperation \/ OpenModels \/ ReadModelLine \/ ReadNodes
  <2>1. CASE ChangeToOperation
    <3>1. command' \in Stages
      BY <2>1 DEF ChangeToOperation
    <3> QED BY <2>1, <3>1 DEF ChangeToOperation, TypeOK
  <2>2. CASE OpenModels
    <3>1. command' \in Stages
      BY <2>2 DEF OpenModels
    <3>2. modelCache' \in Seq(Models) /\ Len(modelCache') <= CM_CACHE_SIZE
      BY <1>0, <2>2 DEF OpenModels
    <3> QED BY <2>2, <3>1, <3>2 DEF OpenModels, TypeOK
  <2>3. CASE ReadModelLine
    <3>1. command' \in Stages
      <4>1. command' = command \/ command' = <<"nodes", FALSE>>
        BY <2>3 DEF ReadModelLine
      <4>2. command \in Stages
        BY DEF TypeOK
      <4>3. <<"nodes", FALSE>> \in Stages
        OBVIOUS
      <4> HIDE DEF Stages
      <4> QED BY <4>1, <4>2, <4>3
    <3>2. modelCache' \in Seq(Models) /\ Len(modelCache') <= CM_CACHE_SIZE
      <4> DEFINE read == ReadModel(hasModels, models, modelCache)
      <4>1. \/ UNCHANGED modelCache
            \/ /\ Len(modelCache) < Len(read)
               /\ modelCache' = Append(modelCache, read[Len(modelCache) + 1])
        BY <2>3 DEF ReadModelLine
      <4>2. read \in Seq(Models) /\ Len(read) <= CM_CACHE_SIZE
        <5>1. read = IF hasModels THEN Readable(models) ELSE modelCache
          BY <1>0, HeadIs
        <5> HIDE DEF read
        <5> QED BY <1>0, <5>1, HeadIs
      <4> HIDE DEF read
      <4>3. CASE Len(modelCache) < Len(read)
        <5>1. Len(modelCache) \in Nat /\ Len(read) \in Nat
              /\ DOMAIN read = 1 .. Len(read)
          BY <1>0, <4>2, LenProperties
        <5>2. Len(modelCache) + 1 \in DOMAIN read
          BY <4>3, <5>1
        <5>3. read[Len(modelCache) + 1] \in Models
          BY <4>2, <5>2
        <5>4. Len(modelCache) + 1 <= CM_CACHE_SIZE
          BY <4>2, <4>3, <5>1, Sizes
        <5> DEFINE m == read[Len(modelCache) + 1]
        <5>5. m \in Models
          BY <5>3
        <5> HIDE DEF m
        <5>6. /\ Append(modelCache, m) \in Seq(Models)
              /\ Len(Append(modelCache, m)) = Len(modelCache) + 1
          BY <1>0, <5>5, AppendProperties
        <5>7. modelCache' = modelCache \/ modelCache' = Append(modelCache, m)
          BY <4>1 DEF m
        <5> QED BY <1>0, <5>4, <5>6, <5>7
      <4> QED BY <1>0, <4>1, <4>3
    <3> QED BY <2>3, <3>1, <3>2 DEF ReadModelLine, TypeOK
  <2>4. CASE ReadNodes
    <3>1. /\ command' = <<"no", FALSE>> /\ cleared' = FALSE
          /\ UNCHANGED <<mode, control, models, hasModels, torn, job, spoiled>>
          /\ EoReadControl(FALSE, models, control, modelCache, profiles)
          /\ stale' = stale \cup
                 (IF job = NoModel THEN {} ELSE {job.name} \ DOMAIN profiles)
      BY <2>4 DEF ReadNodes
    <3>2. stale' \subseteq Names
      <4>1. job # NoModel => job.name \in Names
        BY DEF TypeOK
      <4> QED BY <3>1, <4>1 DEF TypeOK
    <3>3. Table(profiles)
      BY DEF TypeOK, Table
    <3>4. /\ modelCache' \in Seq(Models) /\ Len(modelCache') <= CM_CACHE_SIZE
          /\ nodes' \in Seq(Line) /\ Table(profiles')
          /\ crashed' \in Ids \cup {NoOne, Overrun}
      BY <1>0, <3>1, <3>3, ReadingTypes
    <3>5. /\ DOMAIN profiles' \subseteq Eeps \cup Names
          /\ \A n \in DOMAIN profiles' :
                 profiles'[n] \in Models \cup Eeps \cup {NoUnits}
      BY <3>4 DEF Table
    <3>6. command' \in Stages
      BY <3>1
    <3> QED BY <1>0, <3>1, <3>2, <3>4, <3>5, <3>6 DEF TypeOK
  <2> QED BY <1>8, <2>1, <2>2, <2>3, <2>4
<1>9. ASSUME NEW all \in BOOLEAN, TruncateControl(all)
      PROVE  TypeOK'
  <2>1. command' \in Stages
    BY <1>9 DEF TruncateControl
  <2> QED BY <1>0, <1>9, <2>1 DEF TruncateControl, TypeOK
<1>10. CASE TruncateModels
  <2>1. /\ command' = <<"models", command[2]>> /\ models' = <<>>
        /\ torn' = FALSE /\ cleared' = TRUE
        /\ UNCHANGED hasModels
        /\ spoiled' = (\E i \in DOMAIN control :
                          control[i].profile \notin Eeps)
        /\ stale' = stale \cup (DOMAIN profiles \ Eeps)
        /\ UNCHANGED <<mode, control, modelCache, nodes, profiles, job,
                       crashed>>
    BY <1>10 DEF TruncateModels, EmptyModelFile
  <2>2. command' \in Stages
    BY <2>1 DEF TypeOK
  <2>3. stale' \subseteq Names /\ spoiled' \in BOOLEAN
    BY <2>1 DEF TypeOK
  <2> QED BY <1>0, <2>1, <2>2, <2>3 DEF TypeOK
<1>11. CASE CmCleanUp
  <2>1. command' \in Stages
    BY <1>11 DEF CmCleanUp, TypeOK
  <2> QED BY <1>0, <1>11, <2>1 DEF CmCleanUp, TypeOK
<1>12. CASE ClearTable
  <2>1. command' \in Stages
    BY <1>12 DEF ClearTable
  <2> QED BY <1>0, <1>12, <2>1 DEF ClearTable, TypeOK
<1>13. ASSUME NEW m \in {"Monitor", "Register", "Operation"}, Restart(m)
       PROVE  TypeOK'
  <2>1. UNCHANGED <<control, models, hasModels, torn>> /\ Start(m)
        /\ spoiled' = (spoiled \/ job # NoModel)
    BY <1>13 DEF Restart
  <2>2. spoiled' \in BOOLEAN
    BY <1>0, <2>1
  <2> QED BY <1>0, <2>1, <2>2, StartTypes
<1>14. ASSUME NEW m \in {"Monitor", "Register", "Operation"}, TornRestart(m)
       PROVE  TypeOK'
  <2>1. UNCHANGED <<control, models>> /\ Start(m)
        /\ hasModels' = TRUE /\ torn' = TRUE /\ spoiled' = TRUE
    BY <1>14 DEF TornRestart
  <2> QED BY <1>0, <2>1, StartTypes
<1>15. CASE RestartClear
  <2>1. /\ control' = <<>> /\ models' = <<>> /\ torn' = FALSE
        /\ UNCHANGED hasModels
        /\ spoiled' = FALSE /\ Start("Register")
    BY <1>15 DEF RestartClear, EmptyModelFile
  <2> QED BY <1>0, <2>1, StartTypes
<1>16. CASE UNCHANGED vars
  BY <1>16 DEF vars, TypeOK
<1> QED
  BY <1>1, <1>2, <1>3, <1>4, <1>5, <1>6, <1>7, <1>8, <1>9, <1>10, <1>11,
     <1>12, <1>13, <1>14, <1>15, <1>16
  DEF Next, MainJob, Commands, Restarts

(***************************************************************************)
(* A reading of the files.                                                 *)
(***************************************************************************)
\* With one more line a reading finds the same and perhaps that line.
LEMMA OneMoreIsRead ==
    ASSUME NEW has \in BOOLEAN, NEW file \in Seq(Models), NEW m \in Models
    PROVE  LET now == ReadModel(has, file, <<>>)
               then == ReadModel(TRUE, Append(file, m), <<>>) IN
           /\ then \in Seq(Models) /\ Len(then) <= CM_CACHE_SIZE
           /\ then = Readable(Append(file, m))
           /\ Begins(now, then)
           /\ Len(now) = CM_CACHE_SIZE => then = now
<1> DEFINE now == ReadModel(has, file, <<>>)
           then == ReadModel(TRUE, Append(file, m), <<>>)
<1>1. /\ Append(file, m) \in Seq(Models)
      /\ Begins(Readable(file), Readable(Append(file, m)))
      /\ Len(Readable(file)) = CM_CACHE_SIZE =>
             Readable(Append(file, m)) = Readable(file)
  BY HeadGrows
<1>2. then = Readable(Append(file, m))
  BY <1>1, HeadIs
<1>3. then \in Seq(Models) /\ Len(then) <= CM_CACHE_SIZE
  <2> HIDE DEF then
  <2> QED BY <1>1, <1>2, HeadIs
<1>4. CASE has
  <2>1. now = Readable(file)
    BY <1>4, HeadIs
  <2> QED BY <1>1, <1>2, <1>3, <2>1
<1>5. CASE ~has
  <2>1. now = <<>>
    BY <1>5, HeadIs
  <2>2. Begins(<<>>, then)
    <3> HIDE DEF then
    <3> QED BY <1>3, LenProperties DEF Begins
  <2>3. Len(<<>>) # CM_CACHE_SIZE
    BY Sizes
  <2> QED BY <1>2, <1>3, <2>1, <2>2, <2>3
<1> QED BY <1>4, <1>5

\* What a reading finds now, and what it will find.
ReadingFacts ==
    /\ Filed = IF hasModels THEN Readable(models) ELSE <<>>
    /\ Filed \in Seq(Models) /\ Len(Filed) <= CM_CACHE_SIZE
    /\ Coming \in Seq(Models) /\ Len(Coming) <= CM_CACHE_SIZE
    /\ job = NoModel => Coming = Filed
    /\ job # NoModel => /\ job.model \in Models
                        /\ Coming = Readable(Append(models, job.model))
    /\ Begins(Filed, Coming)
    /\ Len(Filed) = CM_CACHE_SIZE => Coming = Filed

LEMMA FiledIs ==
    ASSUME NEW has \in BOOLEAN, NEW file \in Seq(Models)
    PROVE  LET now == ReadModel(has, file, <<>>) IN
           /\ now = IF has THEN Readable(file) ELSE <<>>
           /\ now \in Seq(Models) /\ Len(now) <= CM_CACHE_SIZE
           /\ Begins(now, now)
<1> DEFINE now == ReadModel(has, file, <<>>)
<1>1. now = IF has THEN Readable(file) ELSE <<>>
  BY HeadIs
<1>2. <<>> \in Seq(Models) /\ Len(<<>>) <= CM_CACHE_SIZE
  BY Sizes
<1>3. now \in Seq(Models) /\ Len(now) <= CM_CACHE_SIZE
  <2> HIDE DEF now
  <2> QED BY <1>1, <1>2, HeadIs
<1>4. Begins(now, now)
  <2> HIDE DEF now
  <2> QED BY <1>3, LenProperties DEF Begins
<1> QED BY <1>1, <1>3, <1>4

LEMMA FilesRead == (TypeOK => ReadingFacts) /\ (TypeOK' => ReadingFacts')
<1>1. ASSUME TypeOK PROVE ReadingFacts
  <2>1. models \in Seq(Models) /\ hasModels \in BOOLEAN
        /\ (job # NoModel => job.model \in Models)
    BY <1>1 DEF TypeOK
  <2>2. CASE job = NoModel
    <3>1. Coming = Filed
      BY <2>2 DEF Coming
    <3> QED BY <2>1, <2>2, <3>1, FiledIs DEF Filed, ReadingFacts
  <2>3. CASE job # NoModel
    <3>1. Coming = ReadModel(TRUE, Append(models, job.model), <<>>)
      BY <2>3 DEF Coming
    <3>2. /\ Filed = IF hasModels THEN Readable(models) ELSE <<>>
          /\ Filed \in Seq(Models) /\ Len(Filed) <= CM_CACHE_SIZE
      BY <2>1, FiledIs DEF Filed
    <3>3. /\ Coming \in Seq(Models) /\ Len(Coming) <= CM_CACHE_SIZE
          /\ Coming = Readable(Append(models, job.model))
          /\ Begins(Filed, Coming)
          /\ Len(Filed) = CM_CACHE_SIZE => Coming = Filed
      BY <2>1, <2>3, <3>1, OneMoreIsRead DEF Filed
    <3> QED BY <2>1, <2>3, <3>2, <3>3 DEF ReadingFacts
  <2> QED BY <2>2, <2>3
<1>2. ASSUME TypeOK' PROVE ReadingFacts'
  <2>1. models' \in Seq(Models) /\ hasModels' \in BOOLEAN
        /\ (job' # NoModel => job'.model \in Models)
    BY <1>2 DEF TypeOK
  <2>2. CASE job' = NoModel
    <3>1. Coming' = Filed'
      BY <2>2 DEF Coming
    <3> QED BY <2>1, <2>2, <3>1, FiledIs DEF Filed, ReadingFacts
  <2>3. CASE job' # NoModel
    <3>1. Coming' = ReadModel(TRUE, Append(models', job'.model), <<>>)
      BY <2>3 DEF Coming
    <3>2. /\ Filed' = IF hasModels' THEN Readable(models') ELSE <<>>
          /\ Filed' \in Seq(Models) /\ Len(Filed') <= CM_CACHE_SIZE
      BY <2>1, FiledIs DEF Filed
    <3>3. /\ Coming' \in Seq(Models) /\ Len(Coming') <= CM_CACHE_SIZE
          /\ Coming' = Readable(Append(models', job'.model))
          /\ Begins(Filed', Coming')
          /\ Len(Filed') = CM_CACHE_SIZE => Coming' = Filed'
      BY <2>1, <2>3, <3>1, OneMoreIsRead DEF Filed
    <3> QED BY <2>1, <2>3, <3>2, <3>3 DEF ReadingFacts
  <2> QED BY <2>2, <2>3
<1> QED BY <1>1, <1>2

\* After a reading a name means what was sent, but that of the model under
\* way, which may have no meaning yet while there is room for it.
LEMMA LineIsRead ==
    ASSUME TypeOK', FilesAgree', HalfEmpty', CacheAgrees',
           command'[1] # "lines",
           NEW c, modelCache' = ReadModel(hasModels', models', c),
           NEW i \in DOMAIN control', control'[i].profile \notin Eeps
    PROVE  LET n == control'[i].profile
               f == control'[i].sent IN
           /\ \/ job' # NoModel /\ n = job'.name
              \/ Means(modelCache', n, f)
           /\ Means(Coming', n, f)
           /\ Len(modelCache') = CM_CACHE_SIZE => Means(modelCache', n, f)
<1> DEFINE n == control'[i].profile
           f == control'[i].sent
<1>1. command'[1] # "models"
  BY DEF HalfEmpty
<1>2. /\ Means(Coming', n, f)
      /\ \/ job' # NoModel /\ n = job'.name
         \/ Means(Filed', n, f)
  BY DEF FilesAgree
<1>3. models' \in Seq(Models) /\ modelCache' \in Seq(Models)
      /\ hasModels' \in BOOLEAN
  BY DEF TypeOK
<1>0. ReadingFacts'
  BY FilesRead
<1>4. CASE hasModels'
  <2>1. modelCache' = Filed'
    BY <1>0, <1>3, <1>4, HeadIs DEF ReadingFacts
  <2> QED BY <1>0, <1>2, <2>1 DEF ReadingFacts
<1>5. CASE ~hasModels' /\ job' = NoModel
  <2>1. modelCache' = Filed'
    BY <1>1, <1>5 DEF CacheAgrees
  <2> QED BY <1>2, <1>5, <2>1
<1>6. CASE ~hasModels' /\ job' # NoModel
  <2>1. modelCache' = <<>> \/ modelCache' = Coming'
    BY <1>1, <1>6 DEF CacheAgrees
  <2>2. ~Means(Filed', n, f)
    BY <1>0, <1>6 DEF Means, ReadingFacts
  <2>3. Len(<<>>) # CM_CACHE_SIZE
    BY Sizes
  <2> QED BY <1>2, <2>1, <2>2, <2>3
<1> QED BY <1>3, <1>4, <1>5, <1>6

\* A reading makes tables that agree with the files, and stays within the
\* cache, if the files agree and so does what was cached before.
LEMMA ReadingAgrees ==
    ASSUME TypeOK', NEW c, NEW table, Table(table),
           EoReadControl(hasModels', models', control', c, table),
           command'[1] # "lines",
           Plain(control)', torn' => spoiled', ~hasModels' => models' = <<>>,
           \A e \in Eeps \cap DOMAIN table : table[e] = e,
           ~spoiled' =>
               /\ FilesAgree' /\ HalfEmpty' /\ CacheAgrees'
               /\ \A n \in DOMAIN table \ (Eeps \cup stale') :
                      Means(Coming', n, table[n])
               /\ job' # NoModel => job'.name \in DOMAIN table \cup stale'
    PROVE  /\ Fixed' /\ PointsKnown'
           /\ ~spoiled' => TablesAgree' /\ TitlesFound' /\ crashed' = NoOne
<1> DEFINE read == ReadModel(hasModels', models', c)
<1>1. /\ modelCache' = read /\ nodes' = control'
      /\ profiles' = CacheProfiles(control', modelCache', table)
      /\ crashed' \in {NoOne} \cup (IF Overruns(control', modelCache', table)
                                    THEN {Overrun} ELSE {})
  BY DEF EoReadControl
<1>2. modelCache' \in Seq(Models) /\ control' \in Seq(Line)
  BY DEF TypeOK
<1>3. /\ \A n \in DOMAIN table : n \in DOMAIN profiles'
                                  /\ profiles'[n] = table[n]
      /\ \A i \in DOMAIN control' : control'[i].profile \in DOMAIN profiles'
      /\ \A n \in DOMAIN profiles' : n \notin DOMAIN table =>
             /\ profiles'[n] = AddEepCache(n, modelCache')
             /\ \E i \in DOMAIN control' : control'[i].profile = n
  BY <1>1, <1>2, CacheIs
<1>4. Fixed'
  <2>1. \A e \in Eeps \cap DOMAIN profiles' : profiles'[e] = e
    BY <1>3 DEF AddEepCache
  <2>2. Plain(nodes)'
    BY <1>1 DEF Plain
  <2> QED BY <1>1, <1>3, <2>1, <2>2 DEF Fixed
<1>5. PointsKnown'
  BY <1>1 DEF PointsKnown
<1>6. ASSUME ~spoiled'
      PROVE  TablesAgree' /\ TitlesFound' /\ crashed' = NoOne
  <2>1. ASSUME NEW i \in DOMAIN control', control'[i].profile \notin Eeps
        PROVE  /\ \/ job' # NoModel /\ control'[i].profile = job'.name
                  \/ Means(modelCache', control'[i].profile, control'[i].sent)
               /\ Means(Coming', control'[i].profile, control'[i].sent)
               /\ Len(modelCache') = CM_CACHE_SIZE =>
                     Means(modelCache', control'[i].profile, control'[i].sent)
    BY <1>1, <1>6, <2>1, LineIsRead
  <2>2. ASSUME NEW n \in DOMAIN profiles' \ (Eeps \cup stale')
        PROVE  Means(Coming', n, profiles'[n])
    <3>1. CASE n \in DOMAIN table
      BY <1>3, <1>6, <3>1
    <3>2. CASE n \notin DOMAIN table
      <4>1. PICK i \in DOMAIN control' : control'[i].profile = n
        BY <1>3, <3>2
      <4>2. ~(job' # NoModel /\ n = job'.name)
        BY <1>6, <3>2
      <4>3. Means(modelCache', n, control'[i].sent)
            /\ Means(Coming', n, control'[i].sent)
        BY <2>1, <4>1, <4>2
      <4>4. AddEepCache(n, modelCache') = control'[i].sent
        BY <1>2, <4>3, MeansOne DEF AddEepCache
      <4> QED BY <1>3, <3>2, <4>3, <4>4
    <3> QED BY <3>1, <3>2
  <2>3. TablesAgree'
    BY <1>1, <2>1, <2>2 DEF TablesAgree
  <2>4. TitlesFound'
    BY <1>1, <2>1 DEF TitlesFound, Titles
  <2>5. ~Overruns(control', modelCache', table)
    <3> SUFFICES ASSUME Len(modelCache') = CM_CACHE_SIZE,
                        NEW i \in DOMAIN control',
                        control'[i].profile \notin Eeps,
                        CmGetCache(modelCache', control'[i].profile) = {}
                 PROVE  FALSE
      BY DEF Overruns
    <3>1. Means(modelCache', control'[i].profile, control'[i].sent)
      BY <2>1
    <3> QED BY <1>2, <3>1, MeansOne
  <2> QED BY <1>1, <2>3, <2>4, <2>5
<1> QED BY <1>4, <1>5, <1>6

(***************************************************************************)
(* The steps.                                                              *)
(***************************************************************************)
LEMMA OneMoreLine ==
    ASSUME NEW lines \in Seq(Line), NEW l \in Line
    PROVE  /\ \A i \in DOMAIN Append(lines, l) :
                  \/ i \in DOMAIN lines /\ Append(lines, l)[i] = lines[i]
                  \/ Append(lines, l)[i] = l
           /\ Len(Append(lines, l)) = Len(lines) + 1
           /\ Append(lines, l)[Len(lines) + 1] = l
<1>1. /\ Append(lines, l) \in Seq(Line)
      /\ Len(Append(lines, l)) = Len(lines) + 1
      /\ \A i \in 1 .. Len(lines) : Append(lines, l)[i] = lines[i]
      /\ Append(lines, l)[Len(lines) + 1] = l
  BY AppendProperties
<1>2. DOMAIN Append(lines, l) = 1 .. Len(lines) + 1
      /\ DOMAIN lines = 1 .. Len(lines) /\ Len(lines) \in Nat
  BY <1>1, LenProperties
<1> QED BY <1>1, <1>2

\* Without a model file there are no models: a reading finds those in it.
LEMMA FiledIsReadable ==
    ASSUME TypeOK, Fixed
    PROVE  Filed = Readable(models)
<1>1. <<>> \in Seq(Models) /\ Len(<<>>) < CM_CACHE_SIZE
  BY Sizes
<1>2. Readable(<<>>) = <<>>
  BY <1>1, HeadIs
<1> QED BY <1>2, FilesRead DEF Fixed, ReadingFacts

\* A reading of files that did not change finds what ModelCache had.
LEMMA ReadingRepeats ==
    ASSUME TypeOK, TypeOK', CacheAgrees,
           UNCHANGED <<models, hasModels, job>>,
           command' = command \/ command[1] \notin {"models", "lines"},
           modelCache' = ReadModel(hasModels', models', modelCache)
    PROVE  CacheAgrees'
<1>1. Filed' = Filed /\ Coming' = Coming
  BY DEF Filed, Coming
<1>2. models \in Seq(Models) /\ hasModels \in BOOLEAN
  BY DEF TypeOK
<1>3. hasModels => modelCache' = Filed'
  BY <1>1, <1>2, HeadIs, FilesRead DEF ReadingFacts
<1>4. ~hasModels => modelCache' = modelCache
  BY <1>2, HeadIs
<1> QED BY <1>1, <1>3, <1>4 DEF CacheAgrees

LEMMA TableOf == TypeOK => Table(profiles)
BY DEF TypeOK, Table

LEMMA EepTeachInKeeps ==
    ASSUME ProfileInv, TypeOK', NEW d \in Ids, NEW e \in Eeps, EepTeachIn(d, e)
    PROVE  ProfileInv' /\ (~spoiled' => crashed' = NoOne)
<1> DEFINE l == NewLine(d, e, e)
<1>1. /\ control' = Append(control, l) /\ job = NoModel
      /\ EoReadControl(hasModels', models', control', modelCache, profiles)
      /\ modelCache' = ReadModel(hasModels', models', modelCache)
      /\ UNCHANGED <<models, hasModels, torn, job, command, spoiled, stale>>
  BY DEF EepTeachIn, NewIdComing, ReadFiles, EoReadControl
<1>0. command'[1] # "lines" /\ LinesRead'
  BY <1>1 DEF ProfileInv, LinesRead, EepTeachIn, NewIdComing
<1>2. l \in Line /\ l.profile = e /\ l.sent = e
  BY NewLineIsLine
<1>3. TypeOK /\ Fixed /\ control \in Seq(Line)
  BY DEF ProfileInv, TypeOK
<1>4. \A i \in DOMAIN control' :
          \/ i \in DOMAIN control /\ control'[i] = control[i]
          \/ control'[i] = l
  BY <1>1, <1>2, <1>3, OneMoreLine
<1>5. Plain(control)'
  <2> HIDE DEF l
  <2> QED BY <1>2, <1>3, <1>4 DEF Fixed, Plain
<1>6. Filed' = Filed /\ Coming' = Coming
  BY <1>1 DEF Filed, Coming
<1>7. ASSUME ~spoiled'
      PROVE  /\ FilesAgree' /\ HalfEmpty' /\ CacheAgrees'
             /\ \A n \in DOMAIN profiles \ (Eeps \cup stale') :
                    Means(Coming', n, profiles[n])
  <2>1. FilesAgree /\ HalfEmpty /\ CacheAgrees /\ TablesAgree
    BY <1>1, <1>7 DEF ProfileInv
  <2>2. FilesAgree'
    <3> HIDE DEF l
    <3> QED BY <1>1, <1>2, <1>4, <1>6, <2>1 DEF FilesAgree
  <2>3. HalfEmpty'
    <3> HIDE DEF l
    <3> QED BY <1>1, <1>2, <1>4, <2>1 DEF HalfEmpty
  <2>4. CacheAgrees'
    BY <1>1, <1>3, <2>1, ReadingRepeats
  <2> QED BY <1>1, <1>6, <2>1, <2>2, <2>3, <2>4 DEF TablesAgree
<1>8. /\ Fixed' /\ PointsKnown'
      /\ ~spoiled' => TablesAgree' /\ TitlesFound' /\ crashed' = NoOne
  BY <1>0, <1>1, <1>3, <1>5, <1>7, TableOf, ReadingAgrees DEF Fixed
<1> QED BY <1>0, <1>7, <1>8 DEF ProfileInv

LEMMA RefusalKeeps ==
    ASSUME ProfileInv, TypeOK', NEW d \in Ids, TeachInRefused(d)
    PROVE  ProfileInv' /\ (~spoiled' => crashed' = NoOne)
<1>1. /\ job = NoModel
      /\ EoReadControl(hasModels', models', control', modelCache, profiles)
      /\ modelCache' = ReadModel(hasModels', models', modelCache)
      /\ UNCHANGED <<control, models, hasModels, torn, job, command, spoiled,
                     stale>>
  BY DEF TeachInRefused, NewIdComing, ReadFiles, EoReadControl, fileVars
<1>0. command'[1] # "lines" /\ LinesRead'
  BY <1>1 DEF ProfileInv, LinesRead, TeachInRefused, NewIdComing
<1>2. TypeOK /\ Fixed
  BY DEF ProfileInv
<1>3. Filed' = Filed /\ Coming' = Coming
  BY <1>1 DEF Filed, Coming
<1>4. Plain(control)'
  BY <1>1, <1>2 DEF Fixed, Plain
<1>5. ASSUME ~spoiled'
      PROVE  /\ FilesAgree' /\ HalfEmpty' /\ CacheAgrees'
             /\ \A n \in DOMAIN profiles \ (Eeps \cup stale') :
                    Means(Coming', n, profiles[n])
  <2>1. FilesAgree /\ HalfEmpty /\ CacheAgrees /\ TablesAgree
    BY <1>1, <1>5 DEF ProfileInv
  <2>2. FilesAgree' /\ HalfEmpty'
    BY <1>1, <1>3, <2>1 DEF FilesAgree, HalfEmpty
  <2>3. CacheAgrees'
    BY <1>1, <1>2, <2>1, ReadingRepeats
  <2> QED BY <1>1, <1>3, <2>1, <2>2, <2>3 DEF TablesAgree
<1>6. /\ Fixed' /\ PointsKnown'
      /\ ~spoiled' => TablesAgree' /\ TitlesFound' /\ crashed' = NoOne
  BY <1>0, <1>1, <1>2, <1>4, <1>5, TableOf, ReadingAgrees DEF Fixed
<1> QED BY <1>0, <1>5, <1>6 DEF ProfileInv

LEMMA FailureKeeps ==
    ASSUME ProfileInv, TypeOK', NEW d \in Ids, NEW f \in Models,
           CmTeachInFails(d, f)
    PROVE  ProfileInv' /\ (~spoiled' => crashed' = NoOne)
<1> DEFINE c == CmGetModel(modelCache, f)
<1>1. /\ job = NoModel
      /\ EoReadControl(hasModels', models', control', c, profiles)
      /\ modelCache' = ReadModel(hasModels', models', c)
      /\ UNCHANGED <<control, models, hasModels, torn, job, command, stale>>
      /\ spoiled' = (spoiled \/ ~hasModels)
  BY DEF CmTeachInFails, NewIdComing, ReadFiles, EoReadControl, fileVars
<1>0. command'[1] # "lines" /\ LinesRead'
  BY <1>1 DEF ProfileInv, LinesRead, CmTeachInFails, NewIdComing
<1>2. TypeOK /\ Fixed /\ models \in Seq(Models) /\ hasModels \in BOOLEAN
  BY DEF ProfileInv, TypeOK
<1>3. Filed' = Filed /\ Coming' = Coming
  BY <1>1 DEF Filed, Coming
<1>4. Plain(control)'
  BY <1>1, <1>2 DEF Fixed, Plain
<1>5. ASSUME ~spoiled'
      PROVE  /\ FilesAgree' /\ HalfEmpty' /\ CacheAgrees'
             /\ \A n \in DOMAIN profiles \ (Eeps \cup stale') :
                    Means(Coming', n, profiles[n])
  <2>1. FilesAgree /\ HalfEmpty /\ CacheAgrees /\ TablesAgree /\ hasModels
    BY <1>1, <1>5 DEF ProfileInv
  <2>2. FilesAgree' /\ HalfEmpty'
    BY <1>1, <1>3, <2>1 DEF FilesAgree, HalfEmpty
  <2>3. modelCache' = Filed'
    BY <1>1, <1>2, <1>3, <2>1, HeadIs, FilesRead DEF ReadingFacts
  <2>4. CacheAgrees'
    BY <1>1, <2>3 DEF CacheAgrees
  <2> QED BY <1>1, <1>3, <2>1, <2>2, <2>4 DEF TablesAgree
<1>6. /\ Fixed' /\ PointsKnown'
      /\ ~spoiled' => TablesAgree' /\ TitlesFound' /\ crashed' = NoOne
  BY <1>0, <1>1, <1>2, <1>4, <1>5, TableOf, ReadingAgrees DEF Fixed
<1> QED BY <1>0, <1>5, <1>6 DEF ProfileInv

\* EoSetCm's name is that of its model in the models to come.
LEMMA CmTeachInKeeps ==
    ASSUME ProfileInv, TypeOK', NEW d \in Ids, NEW f \in Models,
           CmTeachIn(d, f)
    PROVE  ProfileInv'
<1> DEFINE found == CmGetModel(modelCache, f)
           name == CmStr(found, CmFpSearch(found, f))
           l == NewLine(d, name, f)
<1>1. /\ job = NoModel /\ f \in ToSet(found) /\ modelCache' = found
      /\ control' = Append(control, l)
      /\ job' = [model |-> f, name |-> name]
      /\ spoiled' = (spoiled \/ HalfCleared)
      /\ UNCHANGED <<models, hasModels, torn, nodes, profiles, command,
                     cleared, stale>>
  BY DEF CmTeachIn, NewIdComing
<1>0. command[1] # "lines" /\ LinesRead'
  BY <1>1 DEF ProfileInv, LinesRead, CmTeachIn, NewIdComing
<1>2. /\ TypeOK /\ Fixed /\ control \in Seq(Line) /\ models \in Seq(Models)
      /\ modelCache \in Seq(Models) /\ Len(modelCache) <= CM_CACHE_SIZE
  BY DEF ProfileInv, TypeOK
<1>3. found \in Seq(Models) /\ Len(found) <= CM_CACHE_SIZE
  BY <1>2, CmGetModelIs
<1>4. name \in Names /\ Means(found, name, f)
  <2> HIDE DEF found
  <2> QED BY <1>1, <1>3, FoundMeans
<1>5. l \in Line /\ l.profile = name /\ l.sent = f /\ name \notin Eeps
  <2> HIDE DEF name
  <2> QED BY <1>4, NewLineIsLine, Sizes
<1>6. \A i \in DOMAIN control' :
          \/ i \in DOMAIN control /\ control'[i] = control[i]
          \/ control'[i] = l
  BY <1>1, <1>2, <1>5, OneMoreLine
<1>7. job' # NoModel /\ job'.name = name /\ job'.model = f
  BY <1>1 DEF NoModel
<1>8. Plain(control)'
  <2> HIDE DEF l, name
  <2> QED BY <1>2, <1>5, <1>6 DEF Fixed, Plain
<1>9. Fixed'
  BY <1>1, <1>2, <1>8 DEF Fixed, Plain
<1>10. PointsKnown' /\ TitlesFound'
  BY <1>7 DEF PointsKnown, TitlesFound
<1>11. /\ Filed' = Filed /\ Filed = Readable(models) /\ Coming = Filed
       /\ Filed \in Seq(Models) /\ Len(Filed) <= CM_CACHE_SIZE
       /\ Coming' = Readable(Append(models, f)) /\ Coming' \in Seq(Models)
       /\ Begins(Filed, Coming')
       /\ ~hasModels => Filed = <<>>
  <2>1. Filed' = Filed
    BY <1>1 DEF Filed
  <2>2. ReadingFacts /\ ReadingFacts'
    BY <1>2, FilesRead
  <2> QED BY <1>1, <1>2, <1>7, <2>1, <2>2, FiledIsReadable DEF ReadingFacts
<1>12. ASSUME ~spoiled'
       PROVE  FilesAgree' /\ CacheAgrees' /\ HalfEmpty' /\ TablesAgree'
  <2>1. /\ FilesAgree /\ CacheAgrees /\ TablesAgree
        /\ command[1] # "models" /\ modelCache = Filed
    BY <1>0, <1>1, <1>12 DEF ProfileInv, HalfCleared, CacheAgrees
  <2>2. \/ found = Filed
        \/ found = Append(Filed, f) /\ found = Coming'
    <3>1. \/ found = Filed
          \/ Len(Filed) < CM_CACHE_SIZE /\ found = Append(Filed, f)
      BY <1>11, <2>1, CmGetModelIs
    <3>2. Len(Filed) < CM_CACHE_SIZE => Coming' = Append(Filed, f)
      BY <1>2, <1>11, HeadGrows DEF TypeOK
    <3> QED BY <3>1, <3>2
  <2>3. Begins(found, Coming')
    <3>1. Begins(Coming', Coming')
      BY <1>11, LenProperties DEF Begins
    <3> HIDE DEF found
    <3> QED BY <1>11, <2>2, <3>1
  <2>4. Means(Coming', name, f)
    <3> HIDE DEF found, name
    <3> QED BY <1>3, <1>4, <1>11, <2>3, BeginsKeeps
  <2>5. \A n, g : Means(Filed, n, g) => Means(Coming', n, g)
    BY <1>11, BeginsKeeps
  <2>6. ASSUME NEW i \in DOMAIN control', control'[i].profile \notin Eeps
        PROVE  LET k == control'[i] IN
               /\ Means(Coming', k.profile, k.sent)
               /\ k.profile = job'.name \/ Means(Filed', k.profile, k.sent)
    <3>1. CASE control'[i] = l
      <4> HIDE DEF l, name
      <4> QED BY <1>5, <1>7, <2>4, <3>1
    <3>2. CASE i \in DOMAIN control /\ control'[i] = control[i]
      BY <1>1, <1>11, <2>1, <2>5, <2>6, <3>2 DEF FilesAgree
    <3> HIDE DEF l
    <3> QED BY <1>6, <3>1, <3>2
  <2>7. FilesAgree'
    BY <1>7, <2>6 DEF FilesAgree
  <2>8. CacheAgrees'
    <3>1. hasModels' \/ modelCache' = <<>> \/ modelCache' = Coming'
      <4> HIDE DEF found
      <4> QED BY <1>1, <1>11, <2>2
    <3> QED BY <1>7, <3>1 DEF CacheAgrees
  <2>9. HalfEmpty'
    BY <1>1, <2>1 DEF HalfEmpty
  <2>10. TablesAgree'
    BY <1>1, <1>11, <2>1, <2>5 DEF TablesAgree
  <2> QED BY <2>7, <2>8, <2>9, <2>10
<1> QED BY <1>0, <1>9, <1>10, <1>12 DEF ProfileInv

\* The model in its file: what was to come is there.
LEMMA WriteModelKeeps ==
    ASSUME ProfileInv, TypeOK', NEW ok \in BOOLEAN, WriteModel(ok)
    PROVE  ProfileInv' /\ (~spoiled' => crashed' = NoOne)
<1>1. /\ job # NoModel /\ job' = NoModel
      /\ models' = IF ok /\ ~torn THEN Append(models, job.model) ELSE models
      /\ hasModels' = (hasModels \/ ok)
      /\ UNCHANGED <<control, torn, command, stale>>
      /\ EoReadControl(hasModels', models', control', modelCache, profiles)
      /\ modelCache' = ReadModel(hasModels', models', modelCache)
      /\ spoiled' = (spoiled \/ ~ok \/ HalfCleared)
  BY DEF WriteModel, ReadFiles, EoReadControl
<1>0. command'[1] # "lines" /\ LinesRead'
  BY <1>1 DEF ProfileInv, LinesRead, WriteModel, Reading
<1>2. TypeOK /\ Fixed /\ models \in Seq(Models) /\ hasModels \in BOOLEAN
  BY DEF ProfileInv, TypeOK
<1>3. Plain(control)' /\ (torn' => spoiled')
  BY <1>1, <1>2 DEF Fixed, Plain
<1>4. ~hasModels' => models' = <<>>
  BY <1>1, <1>2 DEF Fixed
<1>5. ASSUME ~spoiled'
      PROVE  /\ FilesAgree' /\ HalfEmpty' /\ CacheAgrees'
             /\ \A n \in DOMAIN profiles \ (Eeps \cup stale') :
                    Means(Coming', n, profiles[n])
  <2>1. /\ FilesAgree /\ HalfEmpty /\ CacheAgrees /\ TablesAgree
        /\ command[1] # "models" /\ ok /\ ~torn
    BY <1>1, <1>2, <1>5 DEF ProfileInv, HalfCleared, Fixed
  <2>2. models' = Append(models, job.model) /\ hasModels' = TRUE
    BY <1>1, <2>1
  <2>3. Coming = ReadModel(hasModels', models', <<>>)
    BY <1>1, <2>2 DEF Coming
  <2>4. Filed' = Coming /\ Coming' = Coming
    BY <1>1, <2>3 DEF Filed, Coming
  <2>5. modelCache' = Filed'
    <3>1. models' \in Seq(Models)
      BY DEF TypeOK
    <3>2. modelCache' = ReadModel(TRUE, models', modelCache)
          /\ Filed' = ReadModel(TRUE, models', <<>>)
      BY <1>1, <2>2 DEF Filed
    <3> QED BY <3>1, <3>2, HeadIs
  <2>6. FilesAgree'
    BY <1>1, <2>1, <2>4 DEF FilesAgree
  <2>7. HalfEmpty' /\ CacheAgrees'
    BY <1>1, <2>1, <2>5 DEF HalfEmpty, CacheAgrees
  <2> QED BY <1>1, <2>1, <2>4, <2>6, <2>7 DEF TablesAgree
<1>6. /\ Fixed' /\ PointsKnown'
      /\ ~spoiled' => TablesAgree' /\ TitlesFound' /\ crashed' = NoOne
  BY <1>0, <1>1, <1>2, <1>3, <1>4, <1>5, TableOf, ReadingAgrees DEF Fixed
<1> QED BY <1>0, <1>5, <1>6 DEF ProfileInv

\* Main's reading of the models: what was found stays the head of the file.
LEMMA ReadModelLineKeeps ==
    ASSUME ProfileInv, TypeOK', ReadModelLine
    PROVE  ProfileInv' /\ crashed' = crashed
<1>1. /\ command[1] = "lines"
      /\ UNCHANGED <<mode, control, models, hasModels, torn, nodes, profiles,
                     job, crashed, cleared, spoiled, stale>>
  BY DEF ReadModelLine, fileVars
<1>2. /\ TypeOK /\ modelCache \in Seq(Models) /\ models \in Seq(Models)
      /\ hasModels = TRUE /\ Begins(modelCache, Filed)
      /\ mode = "Operation" /\ Filed \in Seq(Models)
  BY <1>1, FilesRead DEF ProfileInv, LinesRead, TypeOK, ReadingFacts
<1>3. Filed' = Filed /\ Coming' = Coming
  BY <1>1 DEF Filed, Coming
<1>4. ReadModel(hasModels, models, modelCache) = Filed
  <2>1. ReadModel(TRUE, models, modelCache) = Readable(models)
        /\ ReadModel(TRUE, models, <<>>) = Readable(models)
    BY <1>2, HeadIs
  <2>2. Filed = ReadModel(TRUE, models, <<>>)
    BY <1>2 DEF Filed
  <2> QED BY <1>2, <2>1, <2>2
<1>5. \/ /\ Len(modelCache) < Len(Filed)
         /\ modelCache' = Append(modelCache, Filed[Len(modelCache) + 1])
         /\ command' = command
      \/ /\ Len(modelCache) >= Len(Filed)
         /\ command' = <<"nodes", FALSE>>
         /\ modelCache' = modelCache
  BY <1>4 DEF ReadModelLine
<1>6. /\ Len(modelCache) \in Nat /\ Len(Filed) \in Nat
      /\ DOMAIN modelCache = 1 .. Len(modelCache)
      /\ DOMAIN Filed = 1 .. Len(Filed)
      /\ Len(modelCache) <= Len(Filed)
      /\ \A i \in 1 .. Len(modelCache) : Filed[i] = modelCache[i]
  BY <1>2, LenProperties DEF Begins
<1> DEFINE n == Len(modelCache)
<1>7. CASE n < Len(Filed)
  <2> DEFINE m == Filed[n + 1]
  <2>0. n + 1 \in DOMAIN Filed
    BY <1>6, <1>7
  <2>1. m \in Models
    BY <1>2, <2>0
  <2>2. modelCache' = Append(modelCache, m) /\ command' = command
    <3>1. ~(n >= Len(Filed))
      BY <1>6, <1>7
    <3> QED BY <1>5, <3>1
  <2> HIDE DEF m
  <2>3. /\ Len(modelCache') = n + 1
        /\ \A i \in 1 .. n : modelCache'[i] = modelCache[i]
        /\ modelCache'[n + 1] = m
    BY <1>2, <2>1, <2>2, AppendProperties
  <2>4. \A i \in 1 .. n + 1 : i \in 1 .. n \/ i = n + 1
    BY <1>6
  <2>5. \A i \in 1 .. n + 1 : Filed[i] = modelCache'[i]
    BY <1>6, <2>3, <2>4 DEF m
  <2>6. n + 1 <= Len(Filed)
    BY <1>6, <1>7
  <2>7. Begins(modelCache', Filed')
    <3> HIDE DEF n
    <3> QED BY <1>3, <2>3, <2>5, <2>6 DEF Begins
  <2>8. LinesRead'
    BY <1>1, <1>2, <2>2, <2>7 DEF LinesRead
  <2>9. Titles' = Titles
    BY <1>1, <1>3, <2>2 DEF Titles
  <2> QED BY <1>1, <1>3, <2>2, <2>8, <2>9 DEF ProfileInv, Fixed, Plain,
          FilesAgree, CacheAgrees, HalfEmpty, TablesAgree, TitlesFound,
          PointsKnown
<1>8. CASE n >= Len(Filed)
  <2>1. n = Len(Filed) /\ command' = <<"nodes", FALSE>>
        /\ modelCache' = modelCache
    <3>1. ~(n < Len(Filed)) /\ n = Len(Filed)
      <4>1. \A a, b \in Nat : a <= b /\ a >= b => ~(a < b) /\ a = b
        OBVIOUS
      <4>2. n \in Nat /\ Len(Filed) \in Nat /\ n <= Len(Filed)
        BY <1>6
      <4> HIDE DEF n
      <4> QED BY <1>8, <4>1, <4>2
    <3> QED BY <1>5, <3>1
  <2>2. modelCache = Filed
    <3>1. modelCache = [i \in 1 .. n |-> modelCache[i]]
          /\ Filed = [i \in 1 .. n |-> Filed[i]]
      BY <1>2, <1>6, <2>1
    <3> HIDE DEF n
    <3> QED BY <1>6, <2>1, <3>1 DEF n
  <2>3. modelCache' = Filed' /\ command'[1] = "nodes"
    BY <1>3, <2>1, <2>2
  <2>4. LinesRead'
    BY <1>1, <1>2, <2>3 DEF LinesRead
  <2>5. Titles' = Titles
    BY <1>1, <1>3, <2>3 DEF Titles
  <2>6. CacheAgrees'
    BY <1>1, <1>2, <2>3 DEF CacheAgrees
  <2> QED BY <1>1, <1>3, <2>3, <2>4, <2>5, <2>6 DEF ProfileInv, Fixed, Plain,
          FilesAgree, HalfEmpty, TablesAgree, TitlesFound, PointsKnown
<1> QED BY <1>6, <1>7, <1>8

\* The mode, and ReadModel's opening of its file.
LEMMA OpenModelsKeeps ==
    ASSUME ProfileInv, TypeOK', ChangeToOperation \/ OpenModels
    PROVE  ProfileInv' /\ crashed' = crashed
<1>1. CASE ChangeToOperation
  <2>1. /\ command[1] = "no" /\ command'[1] = "operation"
        /\ mode' = "Operation"
        /\ UNCHANGED <<control, models, hasModels, torn, modelCache, nodes,
                       profiles, job, crashed, cleared, spoiled, stale>>
    BY <1>1 DEF ChangeToOperation, fileVars, tableVars
  <2>2. LinesRead'
    BY <2>1 DEF LinesRead
  <2>3. Filed' = Filed /\ Coming' = Coming /\ Titles' = Titles
    BY <2>1 DEF Filed, Coming, Titles
  <2> QED BY <2>1, <2>2, <2>3 DEF ProfileInv, Fixed, Plain, FilesAgree,
          CacheAgrees, HalfEmpty, TablesAgree, TitlesFound, PointsKnown,
        LinesRead, Titles
<1>2. CASE OpenModels
  <2>1. /\ command[1] = "operation"
        /\ command' = <<IF hasModels THEN "lines" ELSE "nodes", FALSE>>
        /\ modelCache' = IF hasModels THEN <<>> ELSE modelCache
        /\ UNCHANGED <<mode, control, models, hasModels, torn, nodes,
                       profiles, job, crashed, cleared, spoiled, stale>>
    BY <1>2 DEF OpenModels, fileVars
  <2>2. /\ Filed' = Filed /\ Coming' = Coming /\ mode = "Operation"
        /\ hasModels \in BOOLEAN /\ Filed \in Seq(Models)
    BY <2>1, FilesRead
    DEF Filed, Coming, ProfileInv, LinesRead, TypeOK, ReadingFacts
  <2>3. CASE hasModels
    <3>1. /\ command'[1] = "lines" /\ modelCache' = <<>>
      BY <2>1, <2>3
    <3>2. Begins(<<>>, Filed)
      BY <2>2, LenProperties DEF Begins
    <3>3. LinesRead'
      BY <2>1, <2>2, <2>3, <3>1, <3>2 DEF LinesRead
    <3>4. ASSUME ~spoiled PROVE TitlesFound'
      <4>1. TitlesFound /\ CacheAgrees /\ Titles = modelCache
        BY <2>1, <3>4 DEF ProfileInv, Titles
      <4>2. job = NoModel => modelCache = Filed
        BY <2>1, <4>1 DEF CacheAgrees
      <4>3. Titles' = Filed
        BY <2>2, <3>1 DEF Titles
      <4> QED BY <2>1, <4>1, <4>2, <4>3 DEF TitlesFound
    <3> QED BY <2>1, <2>2, <3>1, <3>3, <3>4 DEF ProfileInv, Fixed, Plain,
            FilesAgree, CacheAgrees, HalfEmpty, TablesAgree, PointsKnown
  <2>4. CASE ~hasModels
    <3>1. /\ command'[1] = "nodes" /\ modelCache' = modelCache
      BY <2>1, <2>4
    <3>2. LinesRead'
      BY <2>1, <2>2, <2>4, <3>1 DEF LinesRead
    <3>3. Titles' = Titles
      BY <2>1, <3>1 DEF Titles
    <3> QED BY <2>1, <2>2, <3>1, <3>2, <3>3 DEF ProfileInv, Fixed, Plain,
            FilesAgree, CacheAgrees, HalfEmpty, TablesAgree, TitlesFound,
            PointsKnown
  <2> QED BY <2>2, <2>3, <2>4
<1> QED BY <1>1, <1>2

\* Main's reading of the nodes: what the whole reading would make of them.  A
\* reading between the two lines of a teach-in makes the name stale.
LEMMA ReadNodesKeeps ==
    ASSUME ProfileInv, TypeOK', ReadNodes
    PROVE  ProfileInv' /\ (~spoiled' => crashed' = NoOne)
<1>0. /\ command[1] = "nodes" /\ command'[1] = "no"
      /\ UNCHANGED <<control, models, hasModels, torn, job, spoiled>>
      /\ EoReadControl(FALSE, models, control, modelCache, profiles)
      /\ stale' = stale \cup
             (IF job = NoModel THEN {} ELSE {job.name} \ DOMAIN profiles)
  BY DEF ReadNodes, fileVars
<1>7. ReadModel(FALSE, models, modelCache)
          = ReadModel(hasModels', models', modelCache)
  <2>1. /\ hasModels \in BOOLEAN /\ models \in Seq(Models)
        /\ hasModels => modelCache = Filed
    BY <1>0 DEF ProfileInv, TypeOK, LinesRead
  <2>2. ReadModel(FALSE, models, modelCache) = modelCache
    BY <2>1, HeadIs
  <2>3. hasModels => ReadModel(TRUE, models, modelCache) = Filed
    <3>1. ReadModel(TRUE, models, modelCache) = Readable(models)
          /\ ReadModel(TRUE, models, <<>>) = Readable(models)
      BY <2>1, HeadIs
    <3> QED BY <3>1 DEF Filed
  <2> QED BY <1>0, <2>1, <2>2, <2>3
<1>1. /\ EoReadControl(hasModels', models', control', modelCache, profiles)
      /\ modelCache' = ReadModel(hasModels', models', modelCache)
  <2> DEFINE r == ReadModel(FALSE, models, modelCache)
  <2>1. /\ modelCache' = r /\ nodes' = control
        /\ profiles' = CacheProfiles(control, r, profiles)
        /\ crashed' \in {NoOne} \cup
               (IF Overruns(control, r, profiles) THEN {Overrun} ELSE {})
    BY <1>0 DEF EoReadControl
  <2>2. r = ReadModel(hasModels', models', modelCache)
    BY <1>7
  <2> HIDE DEF r
  <2> QED BY <1>0, <2>1, <2>2 DEF EoReadControl
<1>8. LinesRead'
  BY <1>0 DEF LinesRead
<1>2. TypeOK /\ Fixed
  BY DEF ProfileInv
<1>3. Filed' = Filed /\ Coming' = Coming
  BY <1>0 DEF Filed, Coming
<1>4. Plain(control)'
  BY <1>0, <1>2 DEF Fixed, Plain
<1>5. ASSUME ~spoiled'
      PROVE  /\ FilesAgree' /\ HalfEmpty' /\ CacheAgrees'
             /\ \A n \in DOMAIN profiles \ (Eeps \cup stale') :
                    Means(Coming', n, profiles[n])
             /\ job' # NoModel => job'.name \in DOMAIN profiles \cup stale'
  <2>1. FilesAgree /\ HalfEmpty /\ CacheAgrees /\ TablesAgree
    BY <1>0, <1>5 DEF ProfileInv
  <2>2. FilesAgree' /\ HalfEmpty'
    BY <1>0, <1>3, <2>1 DEF FilesAgree, HalfEmpty
  <2>3. CacheAgrees'
    BY <1>0, <1>1, <1>2, <2>1, ReadingRepeats
  <2>4. stale \subseteq stale'
        /\ (job' # NoModel => job'.name \in DOMAIN profiles \cup stale')
    BY <1>0
  <2> QED BY <1>0, <1>3, <2>1, <2>2, <2>3, <2>4 DEF TablesAgree
<1>6. /\ Fixed' /\ PointsKnown'
      /\ ~spoiled' => TablesAgree' /\ TitlesFound' /\ crashed' = NoOne
  BY <1>0, <1>1, <1>2, <1>4, <1>5, TableOf, ReadingAgrees DEF Fixed
<1> QED BY <1>5, <1>6, <1>8 DEF ProfileInv

\* The steps of EoClearControl and the command of the table.
LEMMA ClearingKeeps ==
    ASSUME ProfileInv, TypeOK',
           \/ \E all \in BOOLEAN : TruncateControl(all)
           \/ TruncateModels \/ CmCleanUp \/ ClearTable
    PROVE  ProfileInv' /\ crashed' = crashed
<1> USE DEF fileVars, tableVars
<1>0. TypeOK /\ Fixed /\ PointsKnown /\ <<>> \in Seq(Models)
  BY DEF ProfileInv
<1>1. ASSUME NEW all \in BOOLEAN, TruncateControl(all)
      PROVE  ProfileInv' /\ crashed' = crashed
  <2>1. /\ command[1] = "no" /\ control' = <<>>
        /\ command'[1] = "control"
        /\ UNCHANGED <<models, hasModels, torn, modelCache, nodes, profiles,
                       job, crashed, cleared, spoiled, stale>>
    BY <1>1 DEF TruncateControl
  <2>2. Filed' = Filed /\ Coming' = Coming
    BY <2>1 DEF Filed, Coming
  <2>3. Fixed' /\ PointsKnown'
    BY <1>0, <2>1 DEF Fixed, Plain, PointsKnown
  <2>4. ASSUME ~spoiled'
        PROVE  FilesAgree' /\ CacheAgrees' /\ HalfEmpty' /\ TablesAgree'
               /\ TitlesFound'
    BY <2>1, <2>2, <2>4 DEF ProfileInv, FilesAgree, CacheAgrees, HalfEmpty,
                            TablesAgree, TitlesFound, Titles
  <2> QED BY <2>1, <2>3, <2>4 DEF ProfileInv, LinesRead
<1>2. CASE TruncateModels
  <2>1. /\ command[1] = "control" /\ command'[1] = "models"
        /\ models' = <<>> /\ torn' = FALSE /\ cleared' = TRUE
        /\ spoiled' = (\E i \in DOMAIN control :
                          control[i].profile \notin Eeps)
        /\ stale' = stale \cup (DOMAIN profiles \ Eeps)
        /\ UNCHANGED <<control, hasModels, modelCache, nodes, profiles, job,
                       crashed>>
    BY <1>2 DEF TruncateModels, EmptyModelFile
  <2>2. Fixed' /\ PointsKnown' /\ TitlesFound'
    BY <1>0, <2>1 DEF Fixed, Plain, PointsKnown, TitlesFound
  <2>3. ASSUME ~spoiled'
        PROVE  FilesAgree' /\ CacheAgrees' /\ HalfEmpty' /\ TablesAgree'
    <3>1. \A i \in DOMAIN control : control[i].profile \in Eeps
      BY <2>1, <2>3
    <3>2. FilesAgree' /\ CacheAgrees' /\ HalfEmpty'
      BY <2>1, <3>1 DEF FilesAgree, CacheAgrees, HalfEmpty
    <3>3. TablesAgree'
      BY <1>0, <2>1 DEF TablesAgree, Fixed
    <3> QED BY <3>2, <3>3
  <2> QED BY <2>1, <2>2, <2>3 DEF ProfileInv, LinesRead
<1>3. CASE CmCleanUp
  <2>1. /\ command[1] = "models" /\ modelCache' = <<>>
        /\ command'[1] \in {"table", "no"} /\ cleared' = TRUE
        /\ UNCHANGED <<control, models, hasModels, torn, nodes, profiles, job,
                       crashed, spoiled, stale>>
    BY <1>3 DEF CmCleanUp
  <2>2. Filed' = Filed /\ Coming' = Coming
    BY <2>1 DEF Filed, Coming
  <2>3. Fixed' /\ PointsKnown' /\ TitlesFound'
    BY <1>0, <2>1 DEF Fixed, Plain, PointsKnown, TitlesFound
  <2>4. ASSUME ~spoiled'
        PROVE  FilesAgree' /\ CacheAgrees' /\ HalfEmpty' /\ TablesAgree'
    <3>1. FilesAgree /\ TablesAgree /\ models = <<>>
      BY <2>1, <2>4 DEF ProfileInv, HalfEmpty
    <3>2. Readable(<<>>) = <<>>
      <4>1. Len(<<>>) < CM_CACHE_SIZE
        BY Sizes
      <4> QED BY <1>0, <4>1, HeadIs
    <3>3. Filed' = <<>>
      BY <1>0, <2>2, <3>1, <3>2, FiledIsReadable
    <3> QED BY <2>1, <2>2, <3>1, <3>3
            DEF FilesAgree, CacheAgrees, HalfEmpty, TablesAgree
  <2> QED BY <2>1, <2>3, <2>4 DEF ProfileInv, LinesRead
<1>4. CASE ClearTable
  <2>1. /\ command[1] = "table" /\ nodes' = <<>> /\ command'[1] = "no"
        /\ spoiled' = (spoiled \/ control # <<>>)
        /\ UNCHANGED <<control, models, hasModels, torn, modelCache, profiles,
                       job, crashed, cleared, stale>>
    BY <1>4 DEF ClearTable
  <2>2. Filed' = Filed /\ Coming' = Coming
    BY <2>1 DEF Filed, Coming
  <2>3. Fixed' /\ PointsKnown'
    <3>1. DOMAIN nodes' = {}
      BY <2>1
    <3>2. Fixed'
      BY <1>0, <2>1, <3>1 DEF Fixed, Plain
    <3>3. CASE control = <<>>
      BY <2>1, <3>2, <3>3 DEF PointsKnown
    <3>4. CASE control # <<>>
      <4>1. spoiled' = TRUE
        BY <2>1, <3>4, Zenon
      <4> QED BY <2>1, <3>2, <4>1 DEF PointsKnown
    <3> QED BY <3>3, <3>4
  <2>4. ASSUME ~spoiled'
        PROVE  FilesAgree' /\ CacheAgrees' /\ HalfEmpty' /\ TablesAgree'
               /\ TitlesFound'
    BY <2>1, <2>2, <2>4 DEF ProfileInv, FilesAgree, CacheAgrees, HalfEmpty,
                            TablesAgree, TitlesFound, Titles
  <2> QED BY <2>1, <2>3, <2>4 DEF ProfileInv, LinesRead
<1> QED BY <1>1, <1>2, <1>3, <1>4

\* A start reads what is in the files and has nothing else.
LEMMA StartKeeps ==
    ASSUME TypeOK', NEW m \in {"Monitor", "Register", "Operation"}, Start(m),
           Plain(control)', torn' => spoiled', ~hasModels' => models' = <<>>,
           ~spoiled' => FilesAgree'
    PROVE  ProfileInv' /\ (~spoiled' => crashed' = NoOne)
<1>1. /\ EoReadControl(hasModels', models', control', <<>>, <<>>)
      /\ modelCache' = ReadModel(hasModels', models', <<>>)
      /\ job' = NoModel /\ command'[1] = "no"
  BY DEF Start, EoReadControl
<1>2. DOMAIN <<>> = {} /\ Table(<<>>)
  BY DEF Table
<1>3. HalfEmpty' /\ LinesRead'
  BY <1>1 DEF HalfEmpty, LinesRead
<1>4. CacheAgrees'
  BY <1>1 DEF CacheAgrees, Filed
<1>5. /\ Fixed' /\ PointsKnown'
      /\ ~spoiled' => TablesAgree' /\ TitlesFound' /\ crashed' = NoOne
  BY <1>1, <1>2, <1>3, <1>4, ReadingAgrees
<1> QED BY <1>3, <1>4, <1>5 DEF ProfileInv

LEMMA RestartsKeep ==
    ASSUME ProfileInv, TypeOK', Restarts
    PROVE  ProfileInv' /\ (~spoiled' => crashed' = NoOne)
<1>0. TypeOK /\ Fixed
  BY DEF ProfileInv
<1>1. ASSUME NEW m \in {"Monitor", "Register", "Operation"}, Restart(m)
      PROVE  ProfileInv' /\ (~spoiled' => crashed' = NoOne)
  <2>1. UNCHANGED <<control, models, hasModels, torn>> /\ Start(m)
        /\ spoiled' = (spoiled \/ job # NoModel) /\ job' = NoModel
    BY <1>1 DEF Restart, Start, fileVars
  <2>2. /\ Plain(control)' /\ (torn' => spoiled')
        /\ (~hasModels' => models' = <<>>)
    BY <1>0, <2>1 DEF Fixed, Plain
  <2>3. ASSUME ~spoiled' PROVE FilesAgree'
    <3>1. ~spoiled /\ job = NoModel /\ FilesAgree
      BY <2>1, <2>3 DEF ProfileInv
    <3>2. Filed' = Filed /\ Coming' = Coming
      BY <2>1, <3>1 DEF Filed, Coming
    <3> QED BY <2>1, <3>1, <3>2 DEF FilesAgree
  <2> QED BY <2>1, <2>2, <2>3, StartKeeps
<1>2. ASSUME NEW m \in {"Monitor", "Register", "Operation"}, TornRestart(m)
      PROVE  ProfileInv' /\ (~spoiled' => crashed' = NoOne)
  <2>1. UNCHANGED <<control, models>> /\ Start(m)
        /\ hasModels' = TRUE /\ spoiled' = TRUE
    BY <1>2 DEF TornRestart
  <2>2. Plain(control)'
    BY <1>0, <2>1 DEF Fixed, Plain
  <2> QED BY <2>1, <2>2, StartKeeps
<1>3. CASE RestartClear
  <2>1. /\ control' = <<>> /\ models' = <<>> /\ torn' = FALSE
        /\ spoiled' = FALSE /\ Start("Register")
    BY <1>3 DEF RestartClear, EmptyModelFile
  <2>2. Plain(control)' /\ FilesAgree'
    BY <2>1 DEF Plain, FilesAgree
  <2> QED BY <2>1, <2>2, StartKeeps
<1> QED BY <1>1, <1>2, <1>3 DEF Restarts

LEMMA InitKeeps == Init => ProfileInv
<1> SUFFICES ASSUME Init PROVE ProfileInv
  OBVIOUS
<1>1. TypeOK
  BY InitTypes
<1>2. /\ DOMAIN control = {} /\ DOMAIN nodes = {} /\ DOMAIN profiles = {}
      /\ control = <<>> /\ models = <<>> /\ modelCache = <<>>
      /\ ~torn /\ job = NoModel /\ command[1] = "no" /\ hasModels = FALSE
  BY DEF Init
<1>3. Filed = <<>>
  BY <1>1, <1>2, FilesRead DEF ReadingFacts
<1>4. LinesRead /\ Fixed
  BY <1>2 DEF LinesRead, Fixed, Plain
<1>5. FilesAgree /\ CacheAgrees /\ HalfEmpty /\ TablesAgree /\ TitlesFound
      /\ PointsKnown
  BY <1>2, <1>3 DEF FilesAgree, CacheAgrees, HalfEmpty, TablesAgree,
     TitlesFound, PointsKnown
<1> QED BY <1>1, <1>4, <1>5 DEF ProfileInv

\* Every step keeps the invariant, and only one that leaves the files
\* spoiled, or a telegram, ends the program.
LEMMA StepKeeps ==
    ASSUME ProfileInv, [Next]_vars
    PROVE  /\ ProfileInv'
           /\ \/ spoiled' \/ crashed' \in {NoOne, crashed}
              \/ \E d \in Ids : JsonTelegram(d)
<1>0. TypeOK'
  BY TypesKept DEF ProfileInv
<1> DEFINE Kept == /\ ProfileInv'
                   /\ \/ spoiled' \/ crashed' \in {NoOne, crashed}
                      \/ \E d \in Ids : JsonTelegram(d)
<1>1. ASSUME NEW d \in Ids, NEW e \in Eeps, EepTeachIn(d, e) PROVE Kept
  BY <1>0, <1>1, EepTeachInKeeps
<1>2. ASSUME NEW d \in Ids, NEW f \in Models, CmTeachIn(d, f) PROVE Kept
  BY <1>0, <1>2, CmTeachInKeeps DEF CmTeachIn
<1>3. ASSUME NEW d \in Ids, NEW f \in Models, CmTeachInFails(d, f) PROVE Kept
  BY <1>0, <1>3, FailureKeeps
<1>4. ASSUME NEW d \in Ids, TeachInRefused(d) PROVE Kept
  BY <1>0, <1>4, RefusalKeeps
<1>5. ASSUME NEW d \in Ids, JsonTelegram(d) PROVE Kept
  <2>1. UNCHANGED <<mode, control, models, hasModels, torn, modelCache, nodes,
                    profiles, job, command, cleared, spoiled, stale>>
    BY <1>5 DEF JsonTelegram, fileVars, tableVars
  <2>2. ProfileInv'
    BY <1>0, <2>1 DEF ProfileInv, Fixed, Plain, FilesAgree, CacheAgrees,
       HalfEmpty, TablesAgree, TitlesFound, Titles, PointsKnown, Filed,
       Coming, LinesRead
  <2> QED BY <1>5, <2>2
<1>6. ASSUME NEW ok \in BOOLEAN, WriteModel(ok) PROVE Kept
  BY <1>0, <1>6, WriteModelKeeps
<1>7. ASSUME \/ \E m \in {"Monitor", "Register"} : ChangeMode(m)
             \/ UNCHANGED vars
      PROVE  Kept
  <2>0. UNCHANGED mode \/ command[1] = "no"
    BY <1>7 DEF ChangeMode, vars
  <2>1. UNCHANGED <<control, models, hasModels, torn, modelCache, nodes,
                    profiles, job, command, crashed, cleared, spoiled, stale>>
    BY <1>7 DEF ChangeMode, fileVars, tableVars, vars
  <2>2. ProfileInv'
    BY <1>0, <2>0, <2>1 DEF ProfileInv, Fixed, Plain, FilesAgree, CacheAgrees,
       HalfEmpty, TablesAgree, TitlesFound, Titles, PointsKnown, Filed,
       Coming, LinesRead
  <2> QED BY <2>1, <2>2
<1>8. ASSUME ChangeToOperation \/ OpenModels \/ ReadModelLine \/ ReadNodes
      PROVE  Kept
  BY <1>0, <1>8, OpenModelsKeeps, ReadModelLineKeeps, ReadNodesKeeps
<1>9. ASSUME \/ \E all \in BOOLEAN : TruncateControl(all)
             \/ TruncateModels \/ CmCleanUp \/ ClearTable
      PROVE  Kept
  BY <1>0, <1>9, ClearingKeeps
<1>10. ASSUME Restarts PROVE Kept
  BY <1>0, <1>10, RestartsKeep
<1> HIDE DEF Kept
<1>11. ASSUME MainJob PROVE Kept
  <2>1. ASSUME \E d \in Ids : TeachInRefused(d) \/ JsonTelegram(d)
        PROVE  Kept
    BY <2>1, <1>4, <1>5
  <2>2. ASSUME \E d \in Ids : \E e \in Eeps : EepTeachIn(d, e)
        PROVE  Kept
    BY <2>2, <1>1
  <2>3. ASSUME \E d \in Ids : \E f \in Models :
                   CmTeachIn(d, f) \/ CmTeachInFails(d, f)
        PROVE  Kept
    BY <2>3, <1>2, <1>3
  <2>4. ASSUME \E ok \in BOOLEAN : WriteModel(ok) PROVE Kept
    BY <2>4, <1>6
  <2> QED BY <1>11, <2>1, <2>2, <2>3, <2>4 DEF MainJob
<1>12. ASSUME Commands PROVE Kept
  BY <1>12, <1>7, <1>8, <1>9 DEF Commands
<1>13. MainJob \/ Commands \/ Restarts \/ UNCHANGED vars
  BY DEF Next
<1>14. Kept
  BY <1>7, <1>10, <1>11, <1>12, <1>13
<1> QED BY <1>14 DEF Kept

(***************************************************************************)
(* The theorems.                                                           *)
(***************************************************************************)
\* Types, the agreement of files, models to come and tables, and what is
\* known of the points' names: one inductive invariant of teach-ins,
\* commands, restarts and losses of power.
THEOREM ProfileInvariance == Spec => []ProfileInv
<1>1. ProfileInv /\ [Next]_vars => ProfileInv'
  BY StepKeeps
<1> QED BY <1>1, InitKeeps, PTL DEF Spec

\* In every reading of the files a name is that of the model its device
\* sent, for any devices and models and any size of ModelCache.
THEOREM NamesMean == Spec => []NamesKeepMeaning
<1>1. ASSUME ProfileInv PROVE NamesKeepMeaning
  <2>1. TypeOK
    BY <1>1 DEF ProfileInv
  <2> DEFINE file == IF job = NoModel THEN models
                     ELSE Append(models, job.model)
             read == ReadModel(hasModels \/ job # NoModel, file, <<>>)
  <2>2. read = Coming
    <3>1. CASE job = NoModel
      <4>1. (hasModels \/ job # NoModel) = hasModels
        BY <2>1, <3>1 DEF TypeOK
      <4> QED BY <3>1, <4>1 DEF Coming, Filed
    <3>2. CASE job # NoModel
      BY <3>2 DEF Coming
    <3> QED BY <3>1, <3>2
  <2>3. ASSUME ~spoiled, NEW i \in DOMAIN control
        PROVE  AddEepCache(control[i].profile, Coming) = control[i].sent
    <3>1. CASE control[i].profile \in Eeps
      BY <1>1, <3>1 DEF ProfileInv, Fixed, Plain, AddEepCache
    <3>2. CASE control[i].profile \notin Eeps
      <4>1. Means(Coming, control[i].profile, control[i].sent)
        BY <1>1, <2>3, <3>2 DEF ProfileInv, FilesAgree
      <4>2. Coming \in Seq(Models)
        BY <2>1, FilesRead DEF ReadingFacts
      <4> QED BY <3>2, <4>1, <4>2, MeansOne DEF AddEepCache
    <3> QED BY <3>1, <3>2
  <2> HIDE DEF read
  <2> QED BY <2>1, <2>2, <2>3 DEF NamesKeepMeaning, read
<1> QED BY <1>1, ProfileInvariance, PTL

\* A known device's telegrams are decoded by the profile it was taught in
\* with, for any devices, profiles and models.
THEOREM TaughtIsDecoded == Spec => []DecodedAsTaught
<1>1. ASSUME ProfileInv PROVE DecodedAsTaught
  <2> SUFFICES ASSUME ~spoiled, NEW i \in DOMAIN nodes,
                      nodes[i].profile \notin stale
               PROVE  profiles[nodes[i].profile] = nodes[i].sent
    BY DEF DecodedAsTaught
  <2>1. nodes[i].profile \in DOMAIN profiles
    BY <1>1 DEF ProfileInv, Fixed
  <2>2. CASE nodes[i].profile \in Eeps
    BY <1>1, <2>1, <2>2 DEF ProfileInv, Fixed, Plain
  <2>3. CASE nodes[i].profile \notin Eeps
    <3>1. Means(Coming, nodes[i].profile, nodes[i].sent)
          /\ Means(Coming, nodes[i].profile, profiles[nodes[i].profile])
      BY <1>1, <2>1, <2>3 DEF ProfileInv, TablesAgree
    <3>2. Coming \in Seq(Models)
      BY <1>1, FilesRead DEF ProfileInv, ReadingFacts
    <3> QED BY <3>1, <3>2, MeansOne
  <2> QED BY <2>2, <2>3
<1> QED BY <1>1, ProfileInvariance, PTL

\* The JSON service meets a missing title, or the end of the full cache, in
\* the cases named only.
THEOREM CrashesNamed == Spec => CrashCases
<1>1. ASSUME ProfileInv, [Next]_vars, crashed' # crashed, crashed' # NoOne
      PROVE  \/ spoiled'
             \/ /\ crashed' \in Ids
                /\ \/ ~CheckTableId(crashed') \/ cleared
                   \/ command[1] = "lines"
                   \/ ProfileOf(crashed')[1] \in EepLike
  <2>1. spoiled' \/ \E d \in Ids : JsonTelegram(d)
    BY <1>1, StepKeeps
  <2>2. ASSUME NEW d \in Ids, JsonTelegram(d), ~spoiled', CheckTableId(d),
               command[1] # "lines", ProfileOf(d)[1] \notin EepLike
        PROVE  cleared
    <3>1. /\ job = NoModel /\ ~spoiled /\ ProfileOf(d) \notin Eeps
          /\ CmGetCache(modelCache, ProfileOf(d)) = {}
          /\ Titles = modelCache
      BY <2>2 DEF JsonTelegram, LooksLikeEep, Titles
    <3>2. \E i \in DOMAIN nodes : nodes[i].profile = ProfileOf(d)
      <4> DEFINE own == {i \in DOMAIN nodes : nodes[i].id = d}
      <4>0. DOMAIN nodes = 1 .. Len(nodes) /\ Len(nodes) \in Nat
        BY <1>1, LenProperties DEF ProfileInv, TypeOK
      <4>1. own # {} /\ own \in SUBSET Nat
        BY <2>2, <4>0 DEF CheckTableId
      <4>2. PICK i \in own : \A j \in own : i <= j
        <5> HIDE DEF own
        <5> QED BY <4>1, LeastNumber
      <4>3. \A j \in 1 .. i - 1 : nodes[j].id # d
        <5> SUFFICES ASSUME NEW j \in 1 .. i - 1, nodes[j].id = d
                     PROVE  FALSE
          OBVIOUS
        <5>1. i \in DOMAIN nodes /\ j \in DOMAIN nodes /\ ~(i <= j)
          BY <4>0, <4>2
        <5>2. j \in own
          BY <5>1
        <5> HIDE DEF own
        <5> QED BY <4>2, <5>1, <5>2
      <4>4. \E k \in DOMAIN nodes :
                nodes[k].id = d /\ \A j \in 1 .. k - 1 : nodes[j].id # d
        BY <4>2, <4>3
      <4> QED BY <4>4 DEF ProfileOf
    <3>3. PICK i \in DOMAIN nodes : nodes[i].profile = ProfileOf(d)
      BY <3>2
    <3>4. ~Means(modelCache, nodes[i].profile, nodes[i].sent)
      <4>1. modelCache \in Seq(Models)
        BY <1>1 DEF ProfileInv, TypeOK
      <4> QED BY <3>1, <3>3, <4>1, MeansOne
    <3> QED BY <1>1, <3>1, <3>3, <3>4 DEF ProfileInv, TitlesFound, TypeOK
  <2>3. \A d \in Ids : JsonTelegram(d) => crashed' = d
    BY DEF JsonTelegram
  <2> QED BY <2>1, <2>2, <2>3
<1>2. ProfileInv /\ [Next]_vars =>
          [crashed' # crashed /\ crashed' # NoOne =>
               \/ spoiled'
               \/ /\ crashed' \in Ids
                  /\ \/ ~CheckTableId(crashed') \/ cleared
                     \/ command[1] = "lines"
                     \/ ProfileOf(crashed')[1] \in EepLike]_vars
  BY <1>1
<1> QED BY <1>2, ProfileInvariance, PTL DEF Spec, CrashCases

\* The names of a new line's points are new to the table and to the line,
\* or had no suffix left.
LEMMA NewNamesAreNew ==
    ASSUME NEW scs \in Seq(Points), NEW table
    PROVE  LET pts == MakeSCutFieldsWithCurrent(scs, table) IN
           \A p \in DOMAIN pts :
               pts[p] \in UsedIn(table)
                             \cup {pts[q] : q \in DOMAIN pts \ {p}} =>
                   \A k \in 1 .. MAX_SUFFIX :
                       <<pts[p][1], Append(pts[p][2], k)>>
                           \in UsedIn(table) \cup ToSet(pts)
<1> DEFINE pts == MakeSCutFieldsWithCurrent(scs, table)
           taken == UsedIn(table)
           before(p) == taken \cup {pts[j] : j \in 1 .. p - 1}
           noSuffix(p) == \A k \in 1 .. MAX_SUFFIX :
               <<pts[p][1], Append(pts[p][2], k)>> \in taken \cup ToSet(pts)
<1>1. /\ pts \in Seq(Points) /\ Len(pts) = Len(scs)
      /\ Named(pts, Len(scs), scs, taken)
  BY NamesGiven
<1>2. /\ Len(scs) \in Nat
      /\ DOMAIN pts = 1 .. Len(scs) /\ DOMAIN scs = 1 .. Len(scs)
      /\ \A p \in DOMAIN pts :
             pts[p] = GetNewNameWithCurrent(scs[p], before(p))
  <2> HIDE DEF pts, taken
  <2> QED BY <1>1, LenProperties DEF Named
<1>3. \A p \in DOMAIN pts : before(p) \subseteq taken \cup ToSet(pts)
  <2> HIDE DEF pts, taken
  <2> QED BY <1>2 DEF ToSet
<1>4. \A p \in DOMAIN pts : pts[p] \in before(p) => noSuffix(p)
  <2> SUFFICES ASSUME NEW p \in DOMAIN pts, pts[p] \in before(p),
                      NEW k \in 1 .. MAX_SUFFIX
               PROVE  <<pts[p][1], Append(pts[p][2], k)>>
                          \in taken \cup ToSet(pts)
    OBVIOUS
  <2>1. scs[p] \in Points /\ before(p) \subseteq taken \cup ToSet(pts)
        /\ pts[p] = GetNewNameWithCurrent(scs[p], before(p))
    BY <1>2, <1>3
  <2> HIDE DEF pts, before, taken
  <2> DEFINE set == before(p)
             name == GetNewNameWithCurrent(scs[p], set)
  <2>2. <<name[1], Append(name[2], k)>> \in set
    <3>1. name \in set
      BY <2>1
    <3> HIDE DEF set
    <3> QED BY <2>1, <3>1, UsedNameHasNoSuffix
  <2> QED BY <2>1, <2>2
<1>5. \A p, q \in DOMAIN pts : pts[p] = pts[q] => noSuffix(p) = noSuffix(q)
  <2> HIDE DEF pts, taken
  <2> QED OBVIOUS
<1>6. \A p, q \in DOMAIN pts : q < p => pts[q] \in before(p)
  <2> HIDE DEF pts, taken
  <2> QED BY <1>2
<1>7. ASSUME NEW p \in DOMAIN pts,
             pts[p] \in taken \cup {pts[q] : q \in DOMAIN pts \ {p}}
      PROVE  noSuffix(p)
  <2>1. CASE pts[p] \in taken
    <3> HIDE DEF pts, taken, noSuffix
    <3> QED BY <2>1, <1>4
  <2>2. CASE pts[p] \notin taken
    <3> HIDE DEF pts, taken, noSuffix, before
    <3>1. PICK q \in DOMAIN pts \ {p} : pts[p] = pts[q]
      BY <1>7, <2>2
    <3>2. p \in Nat /\ q \in Nat /\ (q < p \/ p < q)
      BY <1>2, <3>1
    <3>3. pts[p] \in before(p) \/ pts[q] \in before(q)
      BY <1>6, <3>1, <3>2
    <3> QED BY <1>4, <1>5, <3>1, <3>3
  <2> QED BY <2>1, <2>2
<1> QED BY <1>7

\* The points of a new line have names and bridge files of their own, for
\* any devices, profiles and short cuts: the table MakeSCutFieldsWithCurrent
\* looks in has every name of the control file.
THEOREM PointsAreNew == Spec => NewPointsAreNew
<1> DEFINE New(pts) == \A p \in DOMAIN pts :
               pts[p] \in UsedIn(control)
                             \cup {pts[q] : q \in DOMAIN pts \ {p}} =>
                   \A k \in 1 .. MAX_SUFFIX :
                       <<pts[p][1], Append(pts[p][2], k)>>
                           \in UsedIn(nodes) \cup ToSet(pts)
<1>1. ASSUME TypeOK, PointsKnown, ~spoiled, NEW d \in Ids, NewIdComing(d),
             NEW n \in Eeps \cup Names, NEW f \in Models \cup Eeps,
             control' = Append(control, NewLine(d, n, f))
      PROVE  New(Last(control').points)
  <2> DEFINE l == NewLine(d, n, f)
  <2>1. l \in Line
        /\ l.points = MakeSCutFieldsWithCurrent(PointsOf[f], nodes)
    BY NewLineIsLine
  <2>2. Last(control') = l
    <3>1. control \in Seq(Line)
      BY <1>1 DEF TypeOK
    <3> HIDE DEF l
    <3>2. Append(control, l) \in Seq(Line)
          /\ Len(Append(control, l)) = Len(control) + 1
          /\ Append(control, l)[Len(control) + 1] = l
      BY <2>1, <3>1, AppendProperties
    <3>3. control' = Append(control, l)
      BY <1>1 DEF l
    <3> QED BY <3>2, <3>3 DEF Last
  <2>3. UsedIn(control) \subseteq UsedIn(nodes)
    BY <1>1 DEF PointsKnown, NewIdComing, UsedIn
  <2>4. PointsOf[f] \in Seq(Points)
    BY ProfileAssumption
  <2> DEFINE pts == MakeSCutFieldsWithCurrent(PointsOf[f], nodes)
  <2>5. \A p \in DOMAIN pts :
            pts[p] \in UsedIn(nodes) \cup {pts[q] : q \in DOMAIN pts \ {p}} =>
                \A k \in 1 .. MAX_SUFFIX :
                    <<pts[p][1], Append(pts[p][2], k)>>
                        \in UsedIn(nodes) \cup ToSet(pts)
    BY <2>4, NewNamesAreNew
  <2>6. Last(control').points = pts
    BY <2>1, <2>2
  <2> HIDE DEF pts
  <2>7. New(pts)
    BY <2>3, <2>5
  <2> QED BY <2>6, <2>7
<1>2. ASSUME ProfileInv, [Next]_vars, ~spoiled,
             Len(control') = Len(control) + 1
      PROVE  New(Last(control').points)
  <2>0. TypeOK /\ PointsKnown /\ Len(control) \in Nat
    BY <1>2, LenProperties DEF ProfileInv, TypeOK
  <2>1. ASSUME NEW d \in Ids, NEW e \in Eeps, EepTeachIn(d, e)
        PROVE  New(Last(control').points)
    <3>1. NewIdComing(d) /\ control' = Append(control, NewLine(d, e, e))
      BY <2>1 DEF EepTeachIn
    <3> QED BY <1>1, <1>2, <2>0, <3>1
  <2>2. ASSUME NEW d \in Ids, NEW f \in Models, CmTeachIn(d, f)
        PROVE  New(Last(control').points)
    <3> DEFINE found == CmGetModel(modelCache, f)
               name == CmStr(found, CmFpSearch(found, f))
    <3>1. /\ NewIdComing(d) /\ f \in ToSet(found)
          /\ control' = Append(control, NewLine(d, name, f))
      BY <2>2 DEF CmTeachIn
    <3>2. found \in Seq(Models) /\ Len(found) <= CM_CACHE_SIZE
      BY <2>0, CmGetModelIs DEF TypeOK
    <3>3. name \in Names
      <4> HIDE DEF found
      <4> QED BY <3>1, <3>2, FoundMeans
    <3> HIDE DEF name
    <3> QED BY <1>1, <1>2, <2>0, <3>1, <3>3
  <2>3. ASSUME UNCHANGED control \/ control' = <<>> PROVE FALSE
    BY <1>2, <2>0, <2>3
  <2>4. \/ \E d \in Ids : \E e \in Eeps : EepTeachIn(d, e)
        \/ \E d \in Ids : \E f \in Models : CmTeachIn(d, f)
        \/ UNCHANGED control \/ control' = <<>>
    <3>1. CASE MainJob
      BY <3>1 DEF MainJob, CmTeachInFails, TeachInRefused, JsonTelegram,
         WriteModel, fileVars
    <3>2. CASE Commands
      BY <3>2 DEF Commands, ChangeMode, ChangeToOperation, OpenModels,
                ReadModelLine, ReadNodes, TruncateControl,
         TruncateModels, CmCleanUp, ClearTable, fileVars
    <3>3. CASE Restarts
      BY <3>3 DEF Restarts, Restart, TornRestart, RestartClear, fileVars
    <3>4. CASE UNCHANGED vars
      BY <3>4 DEF vars, fileVars
    <3> QED BY <1>2, <3>1, <3>2, <3>3, <3>4 DEF Next
  <2> HIDE DEF New
  <2> QED BY <2>1, <2>2, <2>3, <2>4
<1>3. ProfileInv /\ [Next]_vars =>
          [Len(control') = Len(control) + 1 /\ ~spoiled =>
               New(Last(control').points)]_vars
  BY <1>2
<1> QED BY <1>3, ProfileInvariance, PTL DEF Spec, NewPointsAreNew
=============================================================================
