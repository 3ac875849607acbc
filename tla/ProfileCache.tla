---------------------------- MODULE ProfileCache ----------------------------
(***************************************************************************)
(* What dpride keeps of a device's profile: the names of its points and    *)
(* the communication model (CM) it was taught in with (dpride/dpride.c,    *)
(* dpride/control.c, eolib/models.c).  A teach-in adds a line to the       *)
(* control file and, with a CM, one to the model file; both are read       *)
(* again, and CacheProfiles caches by the profile's name how to decode it. *)
(* A CM's name, base-1, base-2 and so on, is not in the model file: it     *)
(* follows from the order in which ModelCache was filled.  MainJob teaches *)
(* in while the main thread clears the files, sends to the JSON service    *)
(* while it reads them for Operation, line by line, and either can be cut  *)
(* off by a restart or a loss of power.                                    *)
(*                                                                         *)
(* MainJob's own reading of the files after a teach-in is one step, which  *)
(* main's does not overlap: two threads that fill the tables at once are   *)
(* left out.  The tables have room for every device and profile, but       *)
(* ModelCache.                                                             *)
(***************************************************************************)
EXTENDS Naturals, Sequences, FiniteSets, SequencesExt

CONSTANTS
    Ids,           \* device addresses
    NoOne,         \* and no device
    Models,        \* fingerprints of communication models
    Eeps,          \* EEP profiles
    BaseOf,        \* the name CmMakeString gives a model
    EepLike,       \* such names that begin with a letter from A to F
    PointsOf,      \* the short cuts of a profile's fields
    CM_CACHE_SIZE, \* entries of ModelCache
    MAX_SUFFIX,    \* the last suffix tried for a point
    MaxLines       \* bound: lines of the model file

\* The name of a point: a short cut, "T" or "T1", and the suffixes it got.
Points == STRING \X Seq(Nat)

ASSUME ProfileAssumption ==
    /\ IsFiniteSet(Ids) /\ NoOne \notin Ids
    /\ IsFiniteSet(Models) /\ IsFiniteSet(Eeps) /\ Models \cap Eeps = {}
    /\ Eeps \cap (STRING \X Nat) = {}   \* no profile has a model's name
    /\ BaseOf \in [Models -> STRING] /\ EepLike \subseteq STRING
    /\ PointsOf \in [Models \cup Eeps -> Seq(Points)]
    /\ {CM_CACHE_SIZE, MAX_SUFFIX, MaxLines} \subseteq Nat \ {0}

VARIABLES
    mode,       \* EO_CONTROL.Mode
    control,    \* the control file; sent is what the device was taught as
    models,     \* the lines of the model file that can be read,
    hasModels,  \* whether that file exists,
    torn,       \* and whether half a line follows, where reading ends
    modelCache, \* ModelCache: the fingerprints in their order
    nodes,      \* NodeTable, up to its end
    profiles,   \* CacheTable: the profile each name is decoded by
    job,        \* the model EoSetCm has still to write to its file
    command,    \* how far main has come with EoClearControl, and for whom,
                \* or with the change to Operation
    crashed,    \* the device whose telegram met a missing title, or Overrun
    cleared,    \* history: models or nodes were dropped, not yet read again
    spoiled,    \* history: control and model file do not go together
    stale       \* history: names cached before their model changed

fileVars == <<control, models, hasModels, torn>>
tableVars == <<modelCache, nodes, profiles>>
vars == <<mode, fileVars, tableVars, job, command, crashed, cleared,
          spoiled, stale>>

Names ==
    {<<b, n>> : b \in {BaseOf[f] : f \in Models}, n \in 1 .. CM_CACHE_SIZE}
NoUnits == <<>>   \* CacheTable has the name and fields of length 0
NoModel == <<>>   \* EoSetCm is not at work
Overrun == "overrun"

Line == [id : Ids, profile : Eeps \cup Names,
         points : Seq(Points), sent : Models \cup Eeps]

TypeOK ==
    /\ mode \in {"Monitor", "Register", "Operation"}
    /\ control \in Seq(Line)
    /\ models \in Seq(Models)
    /\ hasModels \in BOOLEAN /\ torn \in BOOLEAN
    /\ modelCache \in Seq(Models)
    /\ Len(modelCache) <= CM_CACHE_SIZE
    /\ nodes \in Seq(Line)
    /\ DOMAIN profiles \subseteq Eeps \cup Names
    /\ \A n \in DOMAIN profiles :
           profiles[n] \in Models \cup Eeps \cup {NoUnits}
    /\ job \in {NoModel} \cup [model : Models, name : Names]
    /\ command \in {"no", "control", "models", "table",
                    "operation", "lines", "nodes"} \X BOOLEAN
    /\ crashed \in Ids \cup {NoOne, Overrun}
    /\ cleared \in BOOLEAN /\ spoiled \in BOOLEAN
    /\ stale \subseteq Names

(***************************************************************************)
(* The model cache.                                                        *)
(***************************************************************************)
\* The name CmGetModel gives the i-th entry: the first with its base that
\* no entry before it has.
CmStr(c, i) ==
    <<BaseOf[c[i]],
      Cardinality({j \in 1 .. i : BaseOf[c[j]] = BaseOf[c[i]]})>>

\* The cache after a look-up of fingerprint f of a telegram.  A new one is
\* added unless the cache is full, in which case CmGetModel returns NULL.
CmGetModel(c, f) ==
    IF f \in ToSet(c) \/ Len(c) = CM_CACHE_SIZE THEN c ELSE Append(c, f)

\* The first entry of a fingerprint that is in the cache.
CmFpSearch(c, f) ==
    CHOOSE i \in DOMAIN c : c[i] = f /\ \A j \in 1 .. i - 1 : c[j] # f

\* CmGetCache: the entries with that name, one or none.
CmGetCache(c, name) == {i \in DOMAIN c : CmStr(c, i) = name}

\* Mutation of ReadModel: the last line is not taken.
MutNoLastLine(has, file, c) ==
    IF has THEN SubSeq(file, 1, Len(file) - 1) ELSE c

\* ReadModel empties the cache and fills it again, but only when the file
\* can be opened.  CmTextToBin takes the end of a line for one byte more, so
\* that CmFpSearch, which compares lengths, finds none of them: a model
\* with two lines has two entries.
ReadModel(has, file, c) ==
    IF has THEN SubSeq(file, 1, IF Len(file) < CM_CACHE_SIZE THEN Len(file)
                                ELSE CM_CACHE_SIZE)
    ELSE c

(***************************************************************************)
(* The profile cache.                                                      *)
(***************************************************************************)
\* AddEepCache: what a name is decoded by from now on.
AddEepCache(name, c) ==
    IF name \in Eeps THEN name
    ELSE IF CmGetCache(c, name) = {} THEN NoUnits
    ELSE c[CHOOSE i \in CmGetCache(c, name) : TRUE]

\* CacheProfiles: a name that is in the table keeps its entry.
CacheProfiles(lines, c, table) ==
    [n \in DOMAIN table \cup {lines[i].profile : i \in DOMAIN lines} |->
        IF n \in DOMAIN table THEN table[n] ELSE AddEepCache(n, c)]

\* CmGetCache has no bound but an empty entry: in a full cache it reads on
\* behind the last one for a name that is not there.
Overruns(lines, c, table) ==
    /\ Len(c) = CM_CACHE_SIZE
    /\ \E i \in DOMAIN lines :
           /\ lines[i].profile \notin Eeps \cup DOMAIN table
           /\ CmGetCache(c, lines[i].profile) = {}

\* Mutation of EoReadControl: profiles are cached before models are read.
MutCachedFirst(has, file, lines, c, table) ==
    /\ modelCache' = ReadModel(has, file, c)
    /\ nodes' = lines
    /\ profiles' = CacheProfiles(lines, c, table)
    /\ crashed' \in {NoOne}
                    \cup (IF Overruns(lines, c, table) THEN {Overrun} ELSE {})

\* The tables made from these files, a cache c and a CacheTable.
EoReadControl(has, file, lines, c, table) ==
    LET read == ReadModel(has, file, c) IN
    /\ modelCache' = read
    /\ nodes' = lines
    /\ profiles' = CacheProfiles(lines, read, table)
    /\ crashed' \in {NoOne}
                    \cup (IF Overruns(lines, read, table) THEN {Overrun} ELSE {})

ReadFiles(c) ==
    EoReadControl(hasModels', models', control', c, profiles)

(***************************************************************************)
(* The names of points.                                                    *)
(***************************************************************************)
\* GetNewNameWithCurrent: the short cut, or with the first suffix that makes
\* it new; with all of them taken, the short cut again.
GetNewNameWithCurrent(sc, used) ==
    LET with(k) == <<sc[1], Append(sc[2], k)>>
        free == {k \in 1 .. MAX_SUFFIX : with(k) \notin used} IN
    IF sc \notin used \/ free = {} THEN sc
    ELSE with(CHOOSE k \in free : \A l \in free : k <= l)

UsedIn(lines) == UNION {ToSet(lines[i].points) : i \in DOMAIN lines}

\* Mutation of MakeSCutFieldsWithCurrent: MakeSCutFields, which looks for a
\* name in the table only.
MutMakeSCutFields(scs, table) ==
    [i \in DOMAIN scs |-> GetNewNameWithCurrent(scs[i], UsedIn(table))]

MakeSCutFieldsWithCurrent(scs, table) ==
    LET name[i \in DOMAIN scs] ==
            GetNewNameWithCurrent(scs[i],
                UsedIn(table) \cup {name[j] : j \in 1 .. i - 1}) IN
    name

(***************************************************************************)
(* MainJob.                                                                *)
(***************************************************************************)
CheckTableId(d) == \E i \in DOMAIN nodes : nodes[i].id = d
ProfileOf(d) ==
    nodes[CHOOSE i \in DOMAIN nodes :
        nodes[i].id = d /\ \A j \in 1 .. i - 1 : nodes[j].id # d].profile

\* A device that is not in the table may be taught in.
NewIdComing(d) == mode = "Register" /\ job = NoModel /\ ~CheckTableId(d)

NewLine(d, name, f) ==
    [id |-> d, profile |-> name, sent |-> f,
     points |-> MakeSCutFieldsWithCurrent(PointsOf[f], nodes)]

\* EoSetEep with a profile it knows, and EoReadControl.
EepTeachIn(d, e) ==
    /\ NewIdComing(d)
    /\ PointsOf[e] # <<>>
    /\ control' = Append(control, NewLine(d, e, e))
    /\ UNCHANGED <<mode, models, hasModels, torn, job, command, spoiled, stale>>
    /\ ReadFiles(modelCache)
    /\ cleared' = FALSE

\* The models are gone from their file but still in ModelCache.
HalfCleared == command[1] = "models"

\* The same with a profile it does not know, or EoSetCm with data that is no
\* model or with a cache that is full: nothing is written.
TeachInRefused(d) ==
    /\ NewIdComing(d)
    /\ UNCHANGED <<mode, fileVars, job, command, spoiled, stale>>
    /\ ReadFiles(modelCache)
    /\ cleared' = FALSE

\* EoSetCm: the model is looked up, but it has no points or the control file
\* cannot be written.  Without a model file the cache is not emptied.
CmTeachInFails(d, f) ==
    /\ NewIdComing(d)
    /\ f \in ToSet(CmGetModel(modelCache, f))
    /\ UNCHANGED <<mode, fileVars, job, command, stale>>
    /\ ReadFiles(CmGetModel(modelCache, f))
    /\ cleared' = FALSE
    /\ spoiled' = (spoiled \/ ~hasModels)

\* EoSetCm up to the line in the control file.
CmTeachIn(d, f) ==
    LET found == CmGetModel(modelCache, f) IN
    /\ NewIdComing(d)
    /\ f \in ToSet(found)
    /\ PointsOf[f] # <<>>
    /\ Len(models) < MaxLines
    /\ modelCache' = found
    /\ LET name == CmStr(found, CmFpSearch(found, f)) IN
       /\ control' = Append(control, NewLine(d, name, f))
       /\ job' = [model |-> f, name |-> name]
    /\ spoiled' = (spoiled \/ HalfCleared)
    /\ UNCHANGED <<mode, models, hasModels, torn, nodes, profiles, command,
                   crashed, cleared, stale>>

\* Main has the model file, or the control file, open.  What becomes of
\* tables that MainJob's own reading fills at the same time is left out.
Reading == command[1] \in {"lines", "nodes"}

\* EoSetCm's second file, if it can be opened, and EoReadControl.  What is
\* written behind half a line is not read.
WriteModel(ok) ==
    /\ job # NoModel /\ ~Reading
    /\ job' = NoModel
    /\ models' = IF ok /\ ~torn THEN Append(models, job.model) ELSE models
    /\ hasModels' = (hasModels \/ ok)
    /\ UNCHANGED <<mode, control, torn, command, stale>>
    /\ ReadFiles(modelCache)
    /\ cleared' = FALSE
    /\ spoiled' = (spoiled \/ ~ok \/ HalfCleared)

\* GetTitle takes a name that begins with one of these letters for an EEP's.
LooksLikeEep(name) == name \in Eeps \/ name[1] \in EepLike

\* JsonCreate in Operation mode: GetTitle is given NULL for a device that is
\* not in the table, finds no EEP of a model's name, or no model.
JsonTelegram(d) ==
    /\ mode = "Operation"
    /\ job = NoModel
    /\ CheckTableId(d) =>
           /\ ProfileOf(d) \notin Eeps
           /\ \/ LooksLikeEep(ProfileOf(d))
              \/ CmGetCache(modelCache, ProfileOf(d)) = {}
    /\ crashed' = d
    /\ UNCHANGED <<mode, fileVars, tableVars, job, command, cleared, spoiled,
                   stale>>

(***************************************************************************)
(* The main thread's commands.                                             *)
(***************************************************************************)
\* CHANGE_MODE to Monitor or Register.
ChangeMode(m) ==
    /\ command[1] = "no"
    /\ mode' = m
    /\ UNCHANGED <<fileVars, tableVars, job, command, crashed, cleared,
                   spoiled, stale>>

\* CHANGE_MODE to Operation: the mode comes first.
ChangeToOperation ==
    /\ command[1] = "no"
    /\ mode' = "Operation"
    /\ command' = <<"operation", FALSE>>
    /\ UNCHANGED <<fileVars, tableVars, job, crashed, cleared, spoiled, stale>>

\* ReadModel empties the cache,
OpenModels ==
    /\ command[1] = "operation"
    /\ command' = <<IF hasModels THEN "lines" ELSE "nodes", FALSE>>
    /\ modelCache' = IF hasModels THEN <<>> ELSE modelCache
    /\ UNCHANGED <<mode, fileVars, nodes, profiles, job, crashed, cleared,
                   spoiled, stale>>

\* and takes line by line what it will have read in the end.
ReadModelLine ==
    LET read == ReadModel(hasModels, models, modelCache) IN
    /\ command[1] = "lines"
    /\ \/ /\ Len(modelCache) < Len(read)
          /\ modelCache' = Append(modelCache, read[Len(modelCache) + 1])
          /\ UNCHANGED command
       \/ /\ Len(modelCache) >= Len(read)
          /\ command' = <<"nodes", FALSE>>
          /\ UNCHANGED modelCache
    /\ UNCHANGED <<mode, fileVars, nodes, profiles, job, crashed, cleared,
                   spoiled, stale>>

\* ReadCsv and CacheProfiles with the models just read.  The table has these
\* lines already, or MainJob has one's model still to write: that name may
\* be cached before its model is.
ReadNodes ==
    /\ command[1] = "nodes"
    /\ command' = <<"no", FALSE>>
    /\ UNCHANGED <<mode, fileVars, job, spoiled>>
    /\ EoReadControl(FALSE, models, control, modelCache, profiles)
    /\ cleared' = FALSE
    /\ stale' = stale \cup
           (IF job = NoModel THEN {} ELSE {job.name} \ DOMAIN profiles)

\* EoClearControl, for FILTER_CLEAR or, all, for CHANGE_MODE to Clear and
\* Register: the control file, the model file, the models.
TruncateControl(all) ==
    /\ command[1] = "no"
    /\ control' = <<>>
    /\ command' = <<"control", all>>
    /\ UNCHANGED <<mode, models, hasModels, torn, tableVars, job, crashed,
                   cleared, spoiled, stale>>

\* Mutation of EmptyModelFile: the model file is left alone.
MutModelsKept == UNCHANGED <<models, hasModels, torn>>

\* truncate does not make a file that is not there.
EmptyModelFile ==
    /\ models' = <<>>
    /\ torn' = FALSE
    /\ UNCHANGED hasModels

\* A line written to the control file since it was truncated now lacks its
\* model.
TruncateModels ==
    /\ command[1] = "control"
    /\ EmptyModelFile
    /\ command' = <<"models", command[2]>>
    /\ spoiled' = (\E i \in DOMAIN control : control[i].profile \notin Eeps)
    /\ stale' = stale \cup (DOMAIN profiles \ Eeps)
    /\ cleared' = TRUE
    /\ UNCHANGED <<mode, control, tableVars, job, crashed>>

CmCleanUp ==
    /\ command[1] = "models"
    /\ modelCache' = <<>>
    /\ command' = <<IF command[2] THEN "table" ELSE "no", command[2]>>
    /\ cleared' = TRUE
    /\ UNCHANGED <<mode, fileVars, nodes, profiles, job, crashed, spoiled,
                   stale>>

\* ClearTableId, once the gateway has answered; a device registered since
\* then is forgotten, though its line is in the file.
ClearTable ==
    /\ command[1] = "table"
    /\ nodes' = <<>>
    /\ mode' = "Register"
    /\ command' = <<"no", FALSE>>
    /\ spoiled' = (spoiled \/ control # <<>>)
    /\ UNCHANGED <<fileVars, modelCache, profiles, job, crashed, cleared, stale>>

(***************************************************************************)
(* Start and end.                                                          *)
(***************************************************************************)
\* A start in mode m: the tables are empty, and made from the files.
Start(m) ==
    /\ mode' = m
    /\ job' = NoModel
    /\ command' = <<"no", FALSE>>
    /\ EoReadControl(hasModels', models', control', <<>>, <<>>)
    /\ cleared' = FALSE
    /\ stale' = {}

\* A signal, a crash or a loss of power, at any point between two steps, and
\* a start.
Restart(m) ==
    /\ UNCHANGED fileVars
    /\ spoiled' = (spoiled \/ job # NoModel)
    /\ Start(m)

\* Power is lost while EoSetCm writes the model's line.
TornRestart(m) ==
    /\ job # NoModel
    /\ hasModels' = TRUE
    /\ torn' = TRUE
    /\ spoiled' = TRUE
    /\ UNCHANGED <<control, models>>
    /\ Start(m)

\* A start in Register mode with -c.
RestartClear ==
    /\ control' = <<>>
    /\ EmptyModelFile
    /\ spoiled' = FALSE
    /\ Start("Register")

Init ==
    /\ mode = "Monitor"
    /\ control = <<>> /\ models = <<>> /\ hasModels = FALSE /\ torn = FALSE
    /\ modelCache = <<>> /\ nodes = <<>> /\ profiles = <<>>
    /\ job = NoModel
    /\ command = <<"no", FALSE>>
    /\ crashed = NoOne
    /\ cleared = FALSE /\ spoiled = FALSE /\ stale = {}

MainJob ==
    \/ \E d \in Ids :
           \/ \E e \in Eeps : EepTeachIn(d, e)
           \/ \E f \in Models : CmTeachIn(d, f) \/ CmTeachInFails(d, f)
           \/ TeachInRefused(d)
           \/ JsonTelegram(d)
    \/ \E ok \in BOOLEAN : WriteModel(ok)

Commands ==
    \/ \E m \in {"Monitor", "Register"} : ChangeMode(m)
    \/ ChangeToOperation \/ OpenModels \/ ReadModelLine \/ ReadNodes
    \/ \E all \in BOOLEAN : TruncateControl(all)
    \/ TruncateModels
    \/ CmCleanUp
    \/ ClearTable

Restarts ==
    \/ \E m \in {"Monitor", "Register", "Operation"} :
           Restart(m) \/ TornRestart(m)
    \/ RestartClear

Next == (crashed = NoOne /\ (MainJob \/ Commands)) \/ Restarts

Spec == Init /\ [][Next]_vars

(***************************************************************************)
(* Properties.                                                             *)
(***************************************************************************)
\* A model's name is not filed with the model, yet it keeps its meaning: in
\* every reading of the files a line's name is that of the model its device
\* sent, whatever is taught in twice, refused, cleared or cut off.  Only a
\* line whose model was never written, a model kept for want of a file, or
\* a teach-in in the middle of EoClearControl ends that, until the next
\* one.  Every variable keeps its type.
NamesKeepMeaning ==
    /\ TypeOK
    /\ ~spoiled =>
        LET file == IF job = NoModel THEN models ELSE Append(models, job.model)
            read == ReadModel(hasModels \/ job # NoModel, file, <<>>) IN
        \A i \in DOMAIN control :
            AddEepCache(control[i].profile, read) = control[i].sent

\* What a known device sends is decoded by the profile it was taught in
\* with, though CacheTable never drops or renews an entry: unless the files
\* are spoiled, the name was cached before the models were cleared, or it
\* was read between its line in the control file and its model.
DecodedAsTaught ==
    ~spoiled => \A i \in DOMAIN nodes :
        nodes[i].profile \notin stale =>
            profiles[nodes[i].profile] = nodes[i].sent

\* A new line's points have names, and thus bridge files, of their own: a
\* name that is in the control file or in this line already had all its
\* suffixes taken in the table.
NewPointsAreNew ==
    [][Len(control') = Len(control) + 1 /\ ~spoiled =>
           LET pts == Last(control').points IN
           \A p \in DOMAIN pts :
               pts[p] \in UsedIn(control) \cup {pts[q] : q \in DOMAIN pts \ {p}} =>
                   \A k \in 1 .. MAX_SUFFIX :
                       <<pts[p][1], Append(pts[p][2], k)>>
                           \in UsedIn(nodes) \cup ToSet(pts)]_vars

\* The JSON service ends the program with a telegram of a known device only
\* after the models were dropped and before the files are read again, while
\* ReadModel fills the cache for Operation, when the files are spoiled, or
\* with a model's name that looks like an EEP's; and CmGetCache leaves its
\* table only when they are spoiled.
CrashCases ==
    [][crashed' # crashed /\ crashed' # NoOne =>
           \/ spoiled'
           \/ /\ crashed' \in Ids
              /\ \/ ~CheckTableId(crashed') \/ cleared
                 \/ command[1] = "lines"
                 \/ ProfileOf(crashed')[1] \in EepLike]_vars
=============================================================================
