---------------------------- MODULE SecureTeachIn ---------------------------
(***************************************************************************)
(* How dpride learns devices and keeps their keys (dpride/dpride.c,        *)
(* dpride/node.c, eolib/secure.c): MainJob's teach-in in Register mode,    *)
(* the node table read from the control file, the register of secure       *)
(* teach-ins under way, the public key table and its file, the steps of    *)
(* the main thread's commands that clear or reload them, with MainJob      *)
(* running in between, the program's end, a loss of power, and the start   *)
(* that follows.  A telegram is handled in one step, and a table is read   *)
(* or cleared in one (GatewayControl takes these apart); keys and          *)
(* telegrams are told apart by the device they belong to.                  *)
(***************************************************************************)
EXTENDS Naturals, Sequences, FiniteSets

CONSTANTS
    Ids,                  \* device addresses
    NoId,                 \* address 0: the end of a table
    NODE_TABLE_SIZE,      \* entries of the node table
    SECURE_REGISTER_SIZE, \* slots for secure teach-ins under way
    PUBLICKEY_TABLE_SIZE  \* entries of the public key table

\* A key has two halves, which come in two telegrams.  KeyOf(d) is the key
\* of device d; a half is Bad when it was cut out of the wrong telegram or
\* the file's line was cut, and Blank until it comes: what a slot has of an
\* earlier device's key is written over before anything reads it, so that it
\* is not kept here.  An id read from a line that was cut is Bad, too.
Blank == "blank"
Bad == "bad"
Halves == Ids \cup {Blank, Bad}
Keys == Halves \X Halves
KeyOf(d) == <<d, d>>
NoKey == <<Blank, Blank>>
NoHandle == <<>>
Handles == Keys \cup {NoHandle}

ASSUME TeachInAssumption ==
    /\ IsFiniteSet(Ids)
    /\ NoId \notin Ids /\ Blank \notin Ids /\ Bad \notin Ids
    /\ NODE_TABLE_SIZE \in Nat \ {0}
    /\ SECURE_REGISTER_SIZE \in Nat \ {0}
    /\ PUBLICKEY_TABLE_SIZE \in Nat \ {0}

VARIABLES
    teaching,   \* EO_CONTROL.Mode is Register, not Monitor or Operation
    control,    \* the control file: ids in order, with the secure mark
    nodes,      \* NodeTable
    register,   \* SecureRegisterTable
    pubTable,   \* PublickeyTable up to its first free entry
    pubFile,    \* the public key file as a reading would find it
    unwritten,  \* what pubFile becomes when exit writes the stdio buffer
                \* of a file left open; empty if there is none
    command,    \* how far main is with a command that clears or reads:
                \* the stage, and whether the node table goes as well
    crashed,    \* MainJob has dereferenced a missing public key
    cleared,    \* history: control file or node table have been cleared
                \* without the other since the file was read
    hidden,     \* history: how many lines the control file had when
                \* ClearTableId hid them
    doubtful    \* history: devices registered without a complete teach-in
                \* of their own key or with no entry left for it, or whose
                \* key a loss of power, a clearing under way or a reading
                \* of the file left open took

vars == <<teaching, control, nodes, register, pubTable, pubFile, unwritten,
          command, crashed, cleared, hidden, doubtful>>

NodeIndex == 1 .. NODE_TABLE_SIZE
Slots == 1 .. SECURE_REGISTER_SIZE

Commands == {"no", "keys", "unlink", "table", "read"} \X BOOLEAN
Idle == <<"no", FALSE>>

Entry == [id : Ids \cup {NoId},
          status : {"NO_ENTRY", "FIRST_COME", "REGISTERED"},
          key : Keys,
          sec : Handles]
PublicKey == [id : Ids \cup {Bad}, key : Keys]

TypeOK ==
    /\ teaching \in BOOLEAN
    /\ control \in Seq([id : Ids, mark : BOOLEAN])
    /\ nodes \in [NodeIndex -> [id : Ids \cup {NoId}, secure : Handles]]
    /\ register \in [Slots -> Entry]
    /\ pubTable \in Seq(PublicKey)
    /\ Len(pubTable) <= PUBLICKEY_TABLE_SIZE
    /\ pubFile \in Seq(PublicKey)
    /\ unwritten \in Seq(PublicKey)
    /\ command \in Commands
    /\ crashed \in BOOLEAN
    /\ cleared \in BOOLEAN
    /\ hidden \in Nat
    /\ doubtful \subseteq Ids

(***************************************************************************)
(* The tables.                                                             *)
(***************************************************************************)
\* The entries of a node table before its first NoId.
Visible(t) == {i \in NodeIndex : \A j \in 1 .. i : t[j].id # NoId}
CheckTableId(t, d) == \E i \in Visible(t) : t[i].id = d

\* GetTableId(d), for a d in the table.
GetTableId(t, d) ==
    CHOOSE i \in Visible(t) :
        t[i].id = d /\ \A j \in 1 .. i - 1 : t[j].id # d

\* Mutation of ReadCsv: the end of the table is not marked.
MutNoEndMark(t, f) ==
    [i \in NodeIndex |->
        IF i <= Len(f) THEN [t[i] EXCEPT !.id = f[i].id] ELSE t[i]]

\* ReadCsv: an entry takes its id from the file and keeps the handle it
\* has; the entry after the last line becomes the table's end.
ReadCsv(t, f) ==
    [i \in NodeIndex |->
        IF i <= Len(f) THEN [t[i] EXCEPT !.id = f[i].id]
        ELSE IF i = Len(f) + 1 THEN [t[i] EXCEPT !.id = NoId]
        ELSE t[i]]

ClearTableId(t) ==
    [i \in NodeIndex |->
        IF i \in Visible(t) THEN [t[i] EXCEPT !.id = NoId] ELSE t[i]]

\* Mutation of ReloadHandles: a line's key goes to the node at its place.
MutByPosition(t, f) ==
    [i \in NodeIndex |->
        IF i \in DOMAIN f /\ i \in Visible(t)
        THEN [t[i] EXCEPT !.secure = f[i].key] ELSE t[i]]

\* ReloadPublickey: the file's lines fill the first entries of the public
\* key table, and their devices' nodes get new handles; a line with NoKey
\* gives none.
ReloadTable(pt, f) ==
    [i \in 1 .. (IF Len(f) > Len(pt) THEN Len(f) ELSE Len(pt)) |->
        IF i <= Len(f) THEN f[i] ELSE pt[i]]
ReloadHandles(t, f) ==
    [i \in NodeIndex |->
        IF \E j \in DOMAIN f :
               /\ f[j].key # NoKey
               /\ CheckTableId(t, f[j].id) /\ i = GetTableId(t, f[j].id)
        THEN [t[i] EXCEPT !.secure =
                 f[CHOOSE j \in DOMAIN f : f[j].id = t[i].id].key]
        ELSE t[i]]

\* GetSecureRegister(d) for a d that has a slot, and NewSecureRegister.
HasSlot(d) == \E s \in Slots : register[s].id = d
SlotOf(d) == CHOOSE s \in Slots :
    register[s].id = d /\ \A r \in 1 .. s - 1 : register[r].id # d
FreeSlot == CHOOSE s \in Slots :
    register[s].id = NoId /\ \A r \in 1 .. s - 1 : register[r].id # NoId
HasKey(d) == \E i \in DOMAIN pubTable : pubTable[i].id = d

\* ClearSecureRegister: the slot keeps its handle.
Cleared(s) == [register EXCEPT ![s] =
    [id |-> NoId, status |-> "NO_ENTRY", key |-> NoKey, sec |-> @.sec]]

(***************************************************************************)
(* MainJob: the secure teach-in telegrams (SEC_TI).                        *)
(***************************************************************************)
\* A new slot for d; with none free, "NewSecureRegister no space".
Begin(d, e) ==
    /\ ~HasSlot(d)
    /\ HasSlot(NoId)
    /\ register' = [register EXCEPT ![FreeSlot] =
           [id |-> d, status |-> e.status, key |-> e.key,
            sec |-> IF e.sec = NoHandle THEN @.sec ELSE e.sec]]

\* The first of two telegrams: half a key.
FirstTeachIn(d) ==
    /\ teaching
    /\ Begin(d, [status |-> "FIRST_COME",
                 key |-> <<d, Blank>>, sec |-> NoHandle])
    /\ UNCHANGED <<teaching, control, nodes, pubTable, pubFile, unwritten,
                   command, crashed, cleared, hidden, doubtful>>

\* The only telegram: the whole key.  SecCreate may fail; the slot is
\* REGISTERED all the same.
LongTeachIn(d, ok) ==
    /\ teaching
    /\ Begin(d, [status |-> "REGISTERED", key |-> KeyOf(d),
                 sec |-> IF ok THEN KeyOf(d) ELSE NoHandle])
    /\ UNCHANGED <<teaching, control, nodes, pubTable, pubFile, unwritten,
                   command, crashed, cleared, hidden, doubtful>>

\* The second telegram completes the key.  When the first was lost it is
\* taken for a first one.
SecondTeachIn(d, ok) ==
    /\ teaching
    /\ \/ /\ HasSlot(d)
          /\ register[SlotOf(d)].status = "FIRST_COME"
          /\ LET key == <<register[SlotOf(d)].key[1], d>> IN
             register' = [register EXCEPT ![SlotOf(d)] =
                 [id |-> d, status |-> "REGISTERED", key |-> key,
                  sec |-> IF ok THEN key ELSE @.sec]]
       \/ Begin(d, [status |-> "FIRST_COME",
                    key |-> <<Bad, Blank>>,
                    sec |-> NoHandle])
    /\ UNCHANGED <<teaching, control, nodes, pubTable, pubFile, unwritten,
                   command, crashed, cleared, hidden, doubtful>>

(***************************************************************************)
(* MainJob: the teach-in telegrams that register a device.                 *)
(***************************************************************************)
\* EoSetEep adds a line, unless it knows no such profile; EoReadControl
\* reads the file in any case.
EoSetEep(d, mark, ok) ==
    IF ok THEN Append(control, [id |-> d, mark |-> mark]) ELSE control

\* A new device; what becomes of one that the table has no room for, and of
\* the end mark behind it, is left out.
NewIdComming(d) ==
    /\ ~CheckTableId(nodes, d)
    /\ Len(control) < NODE_TABLE_SIZE - 1

\* A plain teach-in of a new device.
PlainTeachIn(d, ok) ==
    /\ teaching
    /\ NewIdComming(d)
    /\ control' = EoSetEep(d, FALSE, ok)
    /\ nodes' = ReadCsv(nodes, control')
    /\ cleared' = FALSE
    /\ UNCHANGED <<teaching, register, pubTable, pubFile, unwritten, command,
                   crashed, hidden, doubtful>>

\* Mutation of WithKey: the device's key is not taken.
MutKeyDropped(pt, d, key) == pt

\* The public key table with d's key: a full one takes no new device.
Room(pt, d) ==
    (\E i \in DOMAIN pt : pt[i].id = d) \/ Len(pt) < PUBLICKEY_TABLE_SIZE
WithKey(pt, d, key) ==
    LET old == {i \in DOMAIN pt : pt[i].id = d}
        line == [id |-> d, key |-> key] IN
    IF old # {} THEN [pt EXCEPT ![CHOOSE i \in old : TRUE] = line]
    ELSE IF Room(pt, d) THEN Append(pt, line)
    ELSE pt

\* How ScanLine reads the line of d cut short: cut in its key the line has
\* a wrong one; cut before, ScanLine reads on behind the line's end in what
\* the buffer held before, and may find no key, or a wrong one; cut in the
\* id it has a wrong id, too.
CutLine(d) ==
    {[id |-> d, key |-> <<Bad, Bad>>], [id |-> d, key |-> NoKey],
     [id |-> Bad, key |-> <<Bad, Bad>>]}

\* What there is to be read of the lines s when only some blocks of them
\* have been written.
CutOff(s) ==
    {SubSeq(s, 1, k) : k \in 0 .. Len(s)} \cup
    UNION {{Append(SubSeq(s, 1, k), line) : line \in CutLine(s[k + 1].id)} :
           k \in 0 .. Len(s) - 1}

\* AddPublickey with RewritePublickey, after ReloadPublickey has made the
\* table pt.  A table that is full now is written to a file nobody closes:
\* some of it has reached the disk, the rest gets there at exit.
AddPublickey(pt, d, key) ==
    /\ pubTable' = WithKey(pt, d, key)
    /\ IF ~Room(pt, d) THEN UNCHANGED <<pubFile, unwritten>>
       ELSE IF Len(pubTable') < PUBLICKEY_TABLE_SIZE
       THEN pubFile' = pubTable' /\ unwritten' = <<>>
       ELSE pubFile' \in CutOff(pubTable') /\ unwritten' = pubTable'

\* Devices whose entries the reading of a file left open replaces.
Displaced ==
    {d \in Ids : \E i \in DOMAIN pubTable :
        pubTable[i].id = d /\ i \in DOMAIN pubFile /\ pubFile[i] # pubTable[i]}

\* The handle with which MainJob decrypts d's teach-in telegram: the slot's.
\* A wrong handle yields something that is a teach-in telegram only by
\* chance.
TeachInHandle(d) == register[SlotOf(d)].sec

\* Mutation of TeachInReadable: newIdComming is not asked for.
MutKnownToo(d) ==
    /\ teaching
    /\ Len(control) < NODE_TABLE_SIZE - 1
    /\ HasSlot(d)
    /\ TeachInHandle(d) # NoHandle

\* Whether MainJob gets to the registration with it.
TeachInReadable(d) ==
    /\ teaching
    /\ NewIdComming(d)
    /\ HasSlot(d)
    /\ TeachInHandle(d) # NoHandle

\* d's slot holds d's key and the handle made from it.
Complete(d) ==
    LET slot == register[SlotOf(d)] IN
    /\ slot.status = "REGISTERED"
    /\ slot.key = KeyOf(d)
    /\ slot.sec = KeyOf(d)

\* An encrypted teach-in of a new device.  Whatever EoSetEep does, control
\* file and public keys are read again; a REGISTERED slot then gives the
\* new node its handle and the public key table its key, and is cleared.
EncryptedTeachIn(d, ok) ==
    /\ TeachInReadable(d)
    /\ control' = EoSetEep(d, TRUE, ok)
    /\ cleared' = FALSE
    /\ LET slot == register[SlotOf(d)]
           read == ReloadHandles(ReadCsv(nodes, control'), pubFile)
           keys == ReloadTable(pubTable, pubFile) IN
       IF ok /\ slot.status = "REGISTERED"
       THEN /\ nodes' = [read EXCEPT ![GetTableId(read, d)].secure = slot.sec]
            /\ AddPublickey(keys, d, slot.key)
            /\ register' = Cleared(SlotOf(d))
       ELSE /\ nodes' = read
            /\ pubTable' = keys
            /\ UNCHANGED <<register, pubFile, unwritten>>
    /\ doubtful' = doubtful \cup Displaced \cup
           IF ok /\ ~(Complete(d) /\ Room(ReloadTable(pubTable, pubFile), d))
           THEN {d} ELSE {}
    /\ UNCHANGED <<teaching, command, crashed, hidden>>

\* A secure telegram of a device without a slot: its node has a handle, and
\* SecCheck takes the RLC of a public key that is not there.
SecureTelegram(d) ==
    /\ ~HasSlot(d)
    /\ CheckTableId(nodes, d)
    /\ nodes[GetTableId(nodes, d)].secure # NoHandle
    /\ ~HasKey(d)
    /\ crashed' = TRUE
    /\ UNCHANGED <<teaching, control, nodes, register, pubTable, pubFile,
                   unwritten, command, cleared, hidden, doubtful>>

(***************************************************************************)
(* The main thread's commands.                                             *)
(***************************************************************************)
\* The devices with a marked line in control file c.
Marked(c) == {c[i].id : i \in {n \in DOMAIN c : c[n].mark}}

\* EoClearControl for FILTER_CLEAR, or for CHANGE_MODE to Clear and
\* Register: first the control file is truncated.
EoClearControl(all) ==
    /\ command = Idle
    /\ control' = <<>>
    /\ command' = <<"keys", all>>
    /\ cleared' = TRUE
    /\ hidden' = 0
    /\ doubtful' = {}
    /\ UNCHANGED <<teaching, nodes, register, pubTable, pubFile, unwritten,
                   crashed>>

\* DeletePublickey: the table's ids, and then the file.
DeletePublickey ==
    /\ command[1] = "keys"
    /\ pubTable' = <<>>
    /\ command' = <<"unlink", command[2]>>
    /\ doubtful' = doubtful \cup Marked(control)
    /\ UNCHANGED <<teaching, control, nodes, register, pubFile, unwritten,
                   crashed, cleared, hidden>>
UnlinkPublickey ==
    /\ command[1] = "unlink"
    /\ pubFile' = <<>>
    /\ unwritten' = <<>>
    /\ command' = IF command[2] THEN <<"table", TRUE>> ELSE Idle
    /\ doubtful' = doubtful \cup Marked(control)
    /\ UNCHANGED <<teaching, control, nodes, register, pubTable, crashed,
                   cleared, hidden>>

\* Clear and Register after the gateway's answer, or the time-out.
ClearAndRegister ==
    /\ command[1] = "table"
    /\ nodes' = ClearTableId(nodes)
    /\ teaching' = TRUE
    /\ command' = Idle
    /\ cleared' = (control # <<>>)
    /\ hidden' = Len(control)
    /\ UNCHANGED <<control, register, pubTable, pubFile, unwritten, crashed,
                   doubtful>>

\* CHANGE_MODE to Monitor or Register.
ChangeMode(toRegister) ==
    /\ command = Idle
    /\ teaching' = toRegister
    /\ UNCHANGED <<control, nodes, register, pubTable, pubFile, unwritten,
                   command, crashed, cleared, hidden, doubtful>>

\* CHANGE_MODE to Operation: the mode, then EoReadControl, and no
\* ReloadPublickey.
ChangeToOperation ==
    /\ command = Idle
    /\ teaching' = FALSE
    /\ command' = <<"read", FALSE>>
    /\ UNCHANGED <<control, nodes, register, pubTable, pubFile, unwritten,
                   crashed, cleared, hidden, doubtful>>
EoReadControl ==
    /\ command[1] = "read"
    /\ nodes' = ReadCsv(nodes, control)
    /\ command' = Idle
    /\ cleared' = FALSE
    /\ UNCHANGED <<teaching, control, register, pubTable, pubFile, unwritten,
                   crashed, hidden, doubtful>>

(***************************************************************************)
(* Start and end.                                                          *)
(***************************************************************************)
NoNodes == [i \in NodeIndex |-> [id |-> NoId, secure |-> NoHandle]]
InitSecureRegister ==
    [s \in Slots |-> [id |-> NoId, status |-> "NO_ENTRY",
                      key |-> NoKey, sec |-> NoHandle]]

\* A start, in Register mode or not, from control file c and public key
\* file f.
Start(m, c, f) ==
    /\ teaching' = m
    /\ control' = c
    /\ pubFile' = f
    /\ pubTable' = f
    /\ nodes' = ReloadHandles(ReadCsv(NoNodes, c), f)
    /\ register' = InitSecureRegister
    /\ unwritten' = <<>>
    /\ command' = Idle
    /\ crashed' = FALSE
    /\ cleared' = FALSE

\* The keys a start would find after exit.
Filed == IF unwritten = <<>> THEN pubFile ELSE unwritten

\* SIGINT or SIGTERM, and a start; exit writes what is buffered.
Restart(m) ==
    /\ ~crashed
    /\ Start(m, control, Filed)
    /\ UNCHANGED <<hidden, doubtful>>

\* The end, and a start in Register mode with -c.
RestartClear ==
    /\ Start(TRUE, <<>>, <<>>)
    /\ hidden' = 0
    /\ doubtful' = {}

\* The devices whose lines of s are not in file f.
Lost(s, f) ==
    {d \in Ids : \E i \in DOMAIN s :
        s[i].id = d /\ \A j \in DOMAIN f : f[j] # s[i]}

\* A crash or a loss of power, and a start: what is buffered is lost.
PowerLoss(m) ==
    /\ Start(m, control, pubFile)
    /\ doubtful' = doubtful \cup Lost(unwritten, pubFile)
    /\ UNCHANGED hidden

\* Power is lost in the middle of EncryptedTeachIn: after EoSetEep, or
\* while RewritePublickey writes the table.
PowerLossInTeachIn(m, d) ==
    /\ TeachInReadable(d)
    /\ \/ /\ Start(m, EoSetEep(d, TRUE, TRUE), pubFile)
          /\ doubtful' = doubtful \cup {d} \cup Lost(unwritten, pubFile)
       \/ LET slot == register[SlotOf(d)]
              keys == ReloadTable(pubTable, pubFile)
              new == WithKey(keys, d, slot.key) IN
          /\ slot.status = "REGISTERED" /\ Room(keys, d)
          /\ \E f \in CutOff(new) :
                 /\ Start(m, EoSetEep(d, TRUE, TRUE), f)
                 /\ doubtful' = doubtful \cup {d} \cup Displaced
                                        \cup Lost(new, f)
    /\ UNCHANGED hidden

Init ==
    /\ teaching = FALSE
    /\ control = <<>>
    /\ nodes = NoNodes
    /\ register = InitSecureRegister
    /\ pubTable = <<>>
    /\ pubFile = <<>>
    /\ unwritten = <<>>
    /\ command = Idle
    /\ crashed = FALSE
    /\ cleared = FALSE
    /\ hidden = 0
    /\ doubtful = {}

MainJob ==
    \E d \in Ids :
        \/ FirstTeachIn(d)
        \/ SecureTelegram(d)
        \/ \E ok \in BOOLEAN :
               \/ LongTeachIn(d, ok)
               \/ SecondTeachIn(d, ok)
               \/ PlainTeachIn(d, ok)
               \/ EncryptedTeachIn(d, ok)

Main ==
    \/ \E all \in BOOLEAN : EoClearControl(all)
    \/ DeletePublickey
    \/ UnlinkPublickey
    \/ ClearAndRegister
    \/ \E m \in BOOLEAN : ChangeMode(m)
    \/ ChangeToOperation
    \/ EoReadControl

Restarts ==
    \/ RestartClear
    \/ \E m \in BOOLEAN :
           \/ Restart(m)
           \/ PowerLoss(m)
           \/ \E d \in Ids : ~crashed /\ PowerLossInTeachIn(m, d)

Next == (~crashed /\ (MainJob \/ Main)) \/ Restarts

Spec == Init /\ [][Next]_vars

(***************************************************************************)
(* Properties.                                                             *)
(***************************************************************************)
\* The node table is the control file: what MainJob takes for a known
\* device is one the next start knows too.  Only a clearing parts them,
\* until the file is read again.  And a device has one line in that file,
\* however often it is taught in, and whatever is cleared or lost in
\* between, except one that was taught in while CHANGE_MODE cleared the
\* files: ClearTableId has hidden its line, and it may get a second.  (That
\* main's reading for Operation may cut off a teach-in that began before the
\* mode was set is LinesOnce's, of GatewayControl.)  Every variable keeps
\* its type.
TableIsFile ==
    /\ TypeOK
    /\ \A i, j \in DOMAIN control :
           control[i].id = control[j].id /\ i < j => i <= hidden /\ hidden < j
    /\ ~cleared =>
        /\ Visible(nodes) = DOMAIN control
        /\ \A i \in Visible(nodes) : nodes[i].id = control[i].id

\* A device registered with an encrypted teach-in is read with its own key,
\* now and after any number of restarts, for its key is in the file, unless
\* it is doubtful.
MarkedHasKey ==
    \A d \in Marked(control) \ doubtful :
        /\ \E j \in DOMAIN Filed : Filed[j] = [id |-> d, key |-> KeyOf(d)]
        /\ ~cleared => nodes[GetTableId(nodes, d)].secure = KeyOf(d)

\* MainJob meets a node with a handle and no public key only for a device
\* without a marked line, which has inherited its entry's handle or was
\* cleared from the file and not yet from the table, or for a doubtful one.
NullKeyCases ==
    \A i \in Visible(nodes) :
        nodes[i].secure # NoHandle /\ ~HasKey(nodes[i].id) =>
            \/ nodes[i].id \notin Marked(control)
            \/ nodes[i].id \in doubtful

\* Slots are given up by a completed registration of a new device only:
\* when known devices occupy all of them, no device can begin a secure
\* teach-in until the node table forgets one of them or dpride starts anew.
Blocked ==
    \A s \in Slots :
        register[s].id # NoId /\ CheckTableId(nodes, register[s].id)
NoRelief ==
    [][Blocked => \/ \A s \in Slots : register'[s].id = register[s].id
                  \/ register' = InitSecureRegister]_vars
=============================================================================
