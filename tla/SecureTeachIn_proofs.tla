------------------------ MODULE SecureTeachIn_proofs ------------------------
(***************************************************************************)
(* Proofs about SecureTeachIn: the node table is the control file, a       *)
(* device has one line, slots that are all taken by known devices stay so, *)
(* and a registered device keeps its key through restarts and losses of    *)
(* power.  For any devices and sizes of the tables.                        *)
(***************************************************************************)
EXTENDS SecureTeachIn, SequenceTheorems, FiniteSetTheorems,
        WellFoundedInduction, TLAPS

Line == [id : Ids, mark : BOOLEAN]
Node == [id : Ids \cup {NoId}, secure : Handles]
Lines == {f \in Seq(Line) : Len(f) < NODE_TABLE_SIZE}
Nodes == [NodeIndex -> Node]
KeyFiles == {f \in Seq(PublicKey) : Len(f) <= PUBLICKEY_TABLE_SIZE}

\* A device has one line in file f, or one of the first h and one more.
Single(f, h) ==
    \A i, j \in DOMAIN f : f[i].id = f[j].id /\ i < j => i <= h /\ h < j

\* Table t is file f.
Agrees(t, f) ==
    /\ Visible(t) = DOMAIN f
    /\ \A i \in DOMAIN f : t[i].id = f[i].id

(***************************************************************************)
(* The invariant.  From a clearing until the file is read again the table  *)
(* has hidden all the file's lines, if it has any; while the command that  *)
(* clears the files is under way it has hidden none.                       *)
(***************************************************************************)
IInv ==
    /\ TypeOK
    /\ control \in Lines /\ Single(control, hidden) /\ hidden <= Len(control)
    /\ cleared => hidden = Len(control)
    /\ ~cleared => Agrees(nodes, control)
    /\ command[1] \in {"keys", "unlink", "table"} => hidden = 0
    /\ pubFile \in KeyFiles /\ unwritten \in KeyFiles

LEMMA Inv_Implied == IInv => TableIsFile
  BY DEF IInv, TableIsFile, Single, Agrees

(***************************************************************************)
(* The tables.                                                             *)
(***************************************************************************)
LEMMA IdsCounted == NODE_TABLE_SIZE \in Nat
  BY TeachInAssumption

\* A set of numbers has a least one: the smallest of its parts up to a number
\* of the set, which are ordered by inclusion.
LEMMA LeastNumber ==
    ASSUME NEW S \in SUBSET Nat, S # {}
    PROVE  \E n \in S : \A m \in S : n <= m
<1> DEFINE upTo(n) == {k \in S : k <= n}
<1> DEFINE parts == {upTo(n) : n \in S}
<1>0. \A k \in S : k \in Nat
  OBVIOUS
<1>1. ASSUME NEW n \in S
      PROVE  IsFiniteSet(upTo(n)) /\ n \in upTo(n)
  <2>1. n \in Nat /\ n <= n
    BY <1>0
  <2>2. IsFiniteSet(0 .. n)
    BY <2>1, FS_Interval
  <2>3. \A k \in S : k <= n => k \in 0 .. n
    BY <1>0, <2>1
  <2>4. \A k \in upTo(n) : k \in S /\ k <= n
    OBVIOUS
  <2>5. upTo(n) \subseteq 0 .. n
    BY <2>3, <2>4
  <2> QED BY <2>1, <2>2, <2>5, FS_Subset
<1>2. parts \subseteq FiniteSubsetsOf(Nat) /\ parts # {}
  BY <1>1 DEF FiniteSubsetsOf
<1> DEFINE R == StrictSubsetOrdering(Nat)
<1>3. \E part \in parts : \A other \in parts : ~(<<other, part>> \in R)
  <2>1. IsWellFoundedOn(R, FiniteSubsetsOf(Nat))
    BY FS_StrictSubsetOrderingWellFounded
  <2> HIDE DEF R, parts
  <2> QED BY <1>2, <2>1, WFMin
<1>4. PICK n \in S : \A other \in parts : ~(<<other, upTo(n)>> \in R)
  BY <1>3
<1>5. ASSUME NEW m \in S, m < n
      PROVE  FALSE
  <2>1. n \in Nat /\ m \in Nat /\ ~(n <= m)
    BY <1>0, <1>5
  <2>2. \A k \in upTo(m) : k \in S /\ k \in Nat /\ k <= m
    BY <1>0
  <2>3. \A k \in upTo(m) : k <= n
    BY <1>5, <2>1, <2>2
  <2>4. upTo(m) \subseteq upTo(n) /\ n \notin upTo(m)
    BY <2>1, <2>2, <2>3
  <2>5. upTo(m) # upTo(n) /\ upTo(n) \subseteq Nat
    BY <1>0, <1>1, <2>4
  <2>6. <<upTo(m), upTo(n)>> \in R
    BY <2>4, <2>5 DEF StrictSubsetOrdering
  <2> QED BY <1>4, <2>6
<1> QED BY <1>0, <1>5

\* The first entry of d's is one.
LEMMA TableIdFound ==
    ASSUME NEW t \in Nodes, NEW d, CheckTableId(t, d)
    PROVE  /\ GetTableId(t, d) \in Visible(t) /\ t[GetTableId(t, d)].id = d
           /\ \A j \in 1 .. GetTableId(t, d) - 1 : t[j].id # d
<1> DEFINE found == {i \in Visible(t) : t[i].id = d}
<1>1. found # {} /\ found \in SUBSET Nat
  BY IdsCounted DEF CheckTableId, Visible, NodeIndex
<1>2. PICK n \in found : \A m \in found : n <= m
  <2> HIDE DEF found
  <2> QED BY <1>1, LeastNumber
<1>3. \A j \in 1 .. n - 1 : t[j].id # d
  <2> SUFFICES ASSUME NEW j \in 1 .. n - 1, t[j].id = d
               PROVE  FALSE
    OBVIOUS
  <2>1. n \in Visible(t) /\ n \in NodeIndex /\ n \in Nat /\ j \in Nat /\ j < n
    BY <1>1, <1>2 DEF Visible
  <2>2. j \in NodeIndex /\ \A i \in 1 .. j : i \in 1 .. n
    BY <2>1, IdsCounted DEF NodeIndex
  <2>3. j \in found
    BY <2>1, <2>2 DEF Visible
  <2> QED BY <1>2, <2>1, <2>3
<1> QED BY <1>2, <1>3 DEF GetTableId

\* So is the first slot of a device, or the first that is free.
LEMMA SlotFound ==
    ASSUME NEW d, HasSlot(d)
    PROVE  SlotOf(d) \in Slots /\ register[SlotOf(d)].id = d
<1> DEFINE found == {s \in Slots : register[s].id = d}
<1>1. found # {} /\ found \in SUBSET Nat
  BY TeachInAssumption DEF HasSlot, Slots
<1>2. PICK n \in found : \A m \in found : n <= m
  <2> HIDE DEF found
  <2> QED BY <1>1, LeastNumber
<1>3. \A r \in 1 .. n - 1 : register[r].id # d
  <2> SUFFICES ASSUME NEW r \in 1 .. n - 1, register[r].id = d
               PROVE  FALSE
    OBVIOUS
  <2>1. n \in Slots /\ n \in Nat /\ r \in Nat /\ r < n
    BY <1>1, <1>2
  <2>2. r \in Slots
    BY <2>1, TeachInAssumption DEF Slots
  <2> QED BY <1>2, <2>1, <2>2
<1> QED BY <1>2, <1>3 DEF SlotOf

\* ReadCsv makes the table the file, whatever it was.
LEMMA ReadCsvAgrees ==
    ASSUME NEW t \in Nodes, NEW f \in Lines
    PROVE  ReadCsv(t, f) \in Nodes /\ Agrees(ReadCsv(t, f), f)
<1> DEFINE u == ReadCsv(t, f)
<1>1. /\ f \in Seq(Line) /\ Len(f) \in Nat /\ DOMAIN f = 1 .. Len(f)
      /\ Len(f) < NODE_TABLE_SIZE /\ NODE_TABLE_SIZE \in Nat
  BY IdsCounted, LenProperties DEF Lines
<1>2. \A i \in 1 .. Len(f) : f[i].id \in Ids /\ f[i].id # NoId
  <2> TAKE i \in 1 .. Len(f)
  <2>1. f[i] \in Line
    BY <1>1, ElementOfSeq
  <2> QED BY <2>1, TeachInAssumption DEF Line
<1>3. \A i \in NodeIndex : t[i] \in Node /\ i \in Nat /\ 1 <= i
  BY <1>1 DEF Nodes, NodeIndex
<1>4. \A i \in NodeIndex :
          /\ u[i] \in Node
          /\ i <= Len(f) => u[i].id = f[i].id
          /\ i = Len(f) + 1 => u[i].id = NoId
  BY <1>1, <1>2, <1>3 DEF ReadCsv, Node
<1>5. u \in Nodes
  BY <1>4 DEF ReadCsv, Nodes
<1>6. 1 .. Len(f) \subseteq NodeIndex /\ Len(f) + 1 \in NodeIndex
  BY <1>1 DEF NodeIndex
<1> HIDE DEF u
<1>7. ASSUME NEW i \in 1 .. Len(f)
      PROVE  i \in Visible(u)
  <2>1. \A j \in 1 .. i : j \in 1 .. Len(f)
    BY <1>1
  <2> QED BY <1>2, <1>4, <1>6, <2>1 DEF Visible
<1>8. ASSUME NEW i \in Visible(u)
      PROVE  i \in 1 .. Len(f)
  <2>1. i \in NodeIndex /\ i \in Nat /\ 1 <= i
    BY <1>3 DEF Visible
  <2>2. CASE i > Len(f)
    <3>1. Len(f) + 1 \in 1 .. i
      BY <1>1, <2>1, <2>2
    <3>2. u[Len(f) + 1].id = NoId
      BY <1>4, <1>6
    <3> QED BY <3>1, <3>2 DEF Visible
  <2> QED BY <1>1, <2>1, <2>2
<1>9. Visible(u) = DOMAIN f
  BY <1>1, <1>7, <1>8
<1>10. \A i \in DOMAIN f : u[i].id = f[i].id
  BY <1>1, <1>4, <1>6
<1> QED BY <1>5, <1>9, <1>10 DEF Agrees, u

\* Tables with the same ids agree with the same files.
LEMMA SameIdsAgree ==
    ASSUME NEW t \in Nodes, NEW u \in Nodes, NEW f,
           \A i \in NodeIndex : u[i].id = t[i].id, Agrees(t, f)
    PROVE  Agrees(u, f)
<1>1. \A i \in NodeIndex : \A j \in 1 .. i : j \in NodeIndex
  BY IdsCounted DEF NodeIndex
<1>2. Visible(u) = Visible(t)
  BY <1>1 DEF Visible
<1>3. Visible(t) \subseteq NodeIndex
  BY DEF Visible
<1> QED BY <1>2, <1>3 DEF Agrees

\* ReloadHandles changes handles only.
LEMMA ReloadKeepsIds ==
    ASSUME NEW t \in Nodes, NEW k \in Seq(PublicKey)
    PROVE  /\ ReloadHandles(t, k) \in Nodes
           /\ \A i \in NodeIndex : ReloadHandles(t, k)[i].id = t[i].id
<1> DEFINE u == ReloadHandles(t, k)
<1> SUFFICES ASSUME NEW i \in NodeIndex
             PROVE  u[i] \in Node /\ u[i].id = t[i].id
  BY DEF ReloadHandles, Nodes
<1>1. t[i] \in Node
  BY DEF Nodes
<1>2. CASE \E j \in DOMAIN k : /\ k[j].key # NoKey
                                /\ CheckTableId(t, k[j].id)
                                /\ i = GetTableId(t, k[j].id)
  <2> DEFINE j == CHOOSE n \in DOMAIN k : k[n].id = t[i].id
  <2>1. u[i] = [t[i] EXCEPT !.secure = k[j].key]
    BY <1>2 DEF ReloadHandles
  <2>2. \E n \in DOMAIN k : k[n].id = t[i].id
    BY <1>2, TableIdFound
  <2>3. k[j] \in PublicKey
    BY <2>2, ElementOfSeq, LenProperties
  <2>4. k[j].key \in Handles
    BY <2>3 DEF PublicKey, Handles
  <2> QED BY <1>1, <2>1, <2>4 DEF Node
<1>3. CASE ~\E j \in DOMAIN k : /\ k[j].key # NoKey
                                 /\ CheckTableId(t, k[j].id)
                                 /\ i = GetTableId(t, k[j].id)
  BY <1>1, <1>3 DEF ReloadHandles
<1> QED BY <1>2, <1>3

LEMMA WithKeyFits ==
    ASSUME NEW pt \in KeyFiles, NEW d \in Ids, NEW key \in Keys
    PROVE  WithKey(pt, d, key) \in KeyFiles
<1> DEFINE line == [id |-> d, key |-> key]
<1> DEFINE old == {i \in DOMAIN pt : pt[i].id = d}
<1>1. line \in PublicKey /\ pt \in Seq(PublicKey) /\ Len(pt) \in Nat
  BY LenProperties DEF PublicKey, KeyFiles
<1>2. CASE old # {}
  <2>1. PICK i \in DOMAIN pt : WithKey(pt, d, key) = [pt EXCEPT ![i] = line]
    BY <1>2 DEF WithKey
  <2>2. [pt EXCEPT ![i] = line] \in Seq(PublicKey)
        /\ Len([pt EXCEPT ![i] = line]) = Len(pt)
    <3> HIDE DEF line
    <3> QED BY <1>1, <2>1, ExceptSeq, LenProperties
  <2> QED BY <2>1, <2>2 DEF KeyFiles
<1>3. CASE old = {} /\ Len(pt) < PUBLICKEY_TABLE_SIZE
  <2>1. WithKey(pt, d, key) = Append(pt, line)
    BY <1>3 DEF WithKey, Room
  <2>2. Append(pt, line) \in Seq(PublicKey) /\ Len(Append(pt, line)) = Len(pt) + 1
    <3> HIDE DEF line
    <3> QED BY <1>1, AppendProperties
  <2> QED BY <1>1, <1>3, <2>1, <2>2, TeachInAssumption DEF KeyFiles
<1>4. CASE old = {} /\ ~(Len(pt) < PUBLICKEY_TABLE_SIZE)
  BY <1>4 DEF WithKey, Room
<1> QED BY <1>2, <1>3, <1>4

LEMMA ReloadTableFits ==
    ASSUME NEW pt \in KeyFiles, NEW f \in KeyFiles
    PROVE  ReloadTable(pt, f) \in KeyFiles
<1> DEFINE n == IF Len(f) > Len(pt) THEN Len(f) ELSE Len(pt)
<1>1. /\ pt \in Seq(PublicKey) /\ Len(pt) \in Nat /\ DOMAIN pt = 1 .. Len(pt)
      /\ f \in Seq(PublicKey) /\ Len(f) \in Nat /\ DOMAIN f = 1 .. Len(f)
  BY LenProperties DEF KeyFiles
<1>2. n \in Nat /\ n <= PUBLICKEY_TABLE_SIZE
  BY <1>1 DEF KeyFiles
<1>3. \A i \in 1 .. n : (IF i <= Len(f) THEN f[i] ELSE pt[i]) \in PublicKey
  <2> TAKE i \in 1 .. n
  <2>1. CASE i <= Len(f)
    <3>1. i \in 1 .. Len(f)
      BY <1>1, <1>2, <2>1
    <3> QED BY <1>1, <2>1, <3>1, ElementOfSeq
  <2>2. CASE ~(i <= Len(f))
    <3>1. i \in 1 .. Len(pt)
      BY <1>1, <1>2, <2>2
    <3> QED BY <1>1, <2>2, <3>1, ElementOfSeq
  <2> QED BY <2>1, <2>2
<1>4. ReloadTable(pt, f) \in [1 .. n -> PublicKey]
  BY <1>3 DEF ReloadTable
<1> HIDE DEF n
<1>5. ReloadTable(pt, f) \in Seq(PublicKey) /\ Len(ReloadTable(pt, f)) = n
  BY <1>2, <1>4, SeqDef, LenProperties
<1> QED BY <1>2, <1>5 DEF KeyFiles

\* What is read of a file of which some blocks have been written: line by
\* line the ids that were to be written, or Bad ones.
LEMMA CutOffFits ==
    ASSUME NEW s \in KeyFiles, NEW f \in CutOff(s)
    PROVE  /\ f \in KeyFiles
           /\ \A j \in DOMAIN f :
                  j \in DOMAIN s /\ (f[j].id = s[j].id \/ f[j].id = Bad)
<1>1. /\ s \in Seq(PublicKey) /\ Len(s) \in Nat /\ DOMAIN s = 1 .. Len(s)
      /\ Len(s) <= PUBLICKEY_TABLE_SIZE
  BY LenProperties DEF KeyFiles
<1>2. ASSUME NEW k \in 0 .. Len(s)
      PROVE  /\ SubSeq(s, 1, k) \in Seq(PublicKey) /\ Len(SubSeq(s, 1, k)) = k
             /\ \A j \in 1 .. k : SubSeq(s, 1, k)[j] = s[j]
  BY <1>1, SubSeqProperties
<1>3. ASSUME NEW k \in 0 .. Len(s), f = SubSeq(s, 1, k)
      PROVE  /\ f \in KeyFiles
             /\ \A j \in DOMAIN f :
                    j \in DOMAIN s /\ (f[j].id = s[j].id \/ f[j].id = Bad)
  <2>1. /\ f \in Seq(PublicKey) /\ Len(f) = k /\ DOMAIN f = 1 .. k
        /\ \A j \in 1 .. k : f[j] = s[j]
    BY <1>2, <1>3, LenProperties
  <2>2. k <= PUBLICKEY_TABLE_SIZE /\ 1 .. k \subseteq 1 .. Len(s)
    BY <1>1, TeachInAssumption
  <2> QED BY <1>1, <2>1, <2>2 DEF KeyFiles
<1>4. ASSUME NEW k \in 0 .. Len(s) - 1, NEW line \in CutLine(s[k + 1].id),
             f = Append(SubSeq(s, 1, k), line)
      PROVE  /\ f \in KeyFiles
             /\ \A j \in DOMAIN f :
                    j \in DOMAIN s /\ (f[j].id = s[j].id \/ f[j].id = Bad)
  <2> DEFINE start == SubSeq(s, 1, k)
  <2>1. k \in 0 .. Len(s) /\ k \in Nat /\ k + 1 \in 1 .. Len(s)
    BY <1>1
  <2>2. /\ start \in Seq(PublicKey) /\ Len(start) = k
        /\ \A j \in 1 .. k : start[j] = s[j]
    BY <1>2, <2>1
  <2>3. s[k + 1] \in PublicKey
    BY <1>1, <2>1, ElementOfSeq
  <2>4. line \in PublicKey /\ (line.id = s[k + 1].id \/ line.id = Bad)
    <3>1. s[k + 1].id \in Ids \cup {Bad}
      BY <2>3 DEF PublicKey
    <3>2. <<Bad, Bad>> \in Keys /\ NoKey \in Keys
      BY DEF Keys, NoKey, Halves
    <3> QED BY <3>1, <3>2 DEF CutLine, PublicKey
  <2> HIDE DEF start
  <2>5. /\ Append(start, line) \in Seq(PublicKey)
        /\ Len(Append(start, line)) = k + 1
        /\ \A j \in 1 .. k : Append(start, line)[j] = start[j]
        /\ Append(start, line)[k + 1] = line
    BY <2>2, <2>4, AppendProperties
  <2>6. f \in Seq(PublicKey) /\ Len(f) = k + 1 /\ DOMAIN f = 1 .. k + 1
    BY <1>4, <2>5, LenProperties DEF start
  <2>7. k + 1 <= PUBLICKEY_TABLE_SIZE
    BY <1>1, <2>1, TeachInAssumption
  <2>8. ASSUME NEW j \in DOMAIN f
        PROVE  j \in DOMAIN s /\ (f[j].id = s[j].id \/ f[j].id = Bad)
    <3>1. j \in 1 .. Len(s) /\ (j \in 1 .. k \/ j = k + 1)
      BY <2>1, <2>6
    <3>2. CASE j \in 1 .. k
      BY <1>1, <1>4, <2>2, <2>5, <3>1, <3>2 DEF start
    <3>3. CASE j = k + 1
      BY <1>1, <1>4, <2>4, <2>5, <3>1, <3>3 DEF start
    <3> QED BY <3>1, <3>2, <3>3
  <2> QED BY <2>6, <2>7, <2>8 DEF KeyFiles
<1> QED BY <1>3, <1>4 DEF CutOff

\* A device the table does not know gets one line, which is its only one
\* unless the table has hidden all the others.
LEMMA NewLine ==
    ASSUME IInv, NEW d \in Ids, NEW mark \in BOOLEAN, NEW ok \in BOOLEAN,
           NewIdComming(d)
    PROVE  /\ EoSetEep(d, mark, ok) \in Lines
           /\ Single(EoSetEep(d, mark, ok), hidden)
           /\ hidden <= Len(EoSetEep(d, mark, ok))
<1> DEFINE line == [id |-> d, mark |-> mark]
<1>1. /\ control \in Lines /\ control \in Seq(Line) /\ Len(control) \in Nat
      /\ line \in Line /\ DOMAIN control = 1 .. Len(control)
      /\ hidden \in Nat /\ hidden <= Len(control) /\ Single(control, hidden)
  BY LenProperties DEF IInv, TypeOK, Lines, Line
<1>2. CASE ~ok
  BY <1>1, <1>2 DEF EoSetEep
<1>3. CASE ok
  <2> DEFINE new == Append(control, line)
  <2>1. /\ new \in Seq(Line) /\ Len(new) = Len(control) + 1
        /\ DOMAIN new = 1 .. Len(control) + 1
        /\ \A i \in 1 .. Len(control) : new[i] = control[i]
        /\ new[Len(control) + 1] = line
    <3> HIDE DEF line
    <3>1. /\ Append(control, line) \in Seq(Line)
          /\ Len(Append(control, line)) = Len(control) + 1
          /\ \A i \in 1 .. Len(control) : Append(control, line)[i] = control[i]
          /\ Append(control, line)[Len(control) + 1] = line
      BY <1>1, AppendProperties
    <3> QED BY <1>1, <3>1, LenProperties
  <2>2. \A i \in 1 .. Len(control) : control[i].id = d => i <= hidden
    <3>1. CASE cleared
      BY <1>1, <3>1 DEF IInv
    <3>2. CASE ~cleared
      BY <1>1, <3>2 DEF IInv, Agrees, CheckTableId, NewIdComming
    <3> QED BY <3>1, <3>2
  <2>3. EoSetEep(d, mark, ok) = new
    BY <1>3 DEF EoSetEep
  <2>4. Len(new) < NODE_TABLE_SIZE /\ hidden <= Len(new)
        /\ hidden < Len(control) + 1
    BY <1>1, <2>1, IdsCounted DEF NewIdComming
  <2> HIDE DEF new
  <2>5. Single(new, hidden)
    <3> SUFFICES ASSUME NEW i \in DOMAIN new, NEW j \in DOMAIN new,
                        new[i].id = new[j].id, i < j
                 PROVE  i <= hidden /\ hidden < j
      BY DEF Single
    <3>1. i \in 1 .. Len(control)
          /\ (j \in 1 .. Len(control) \/ j = Len(control) + 1)
      BY <1>1, <2>1
    <3>2. CASE j \in 1 .. Len(control)
      BY <1>1, <2>1, <3>1, <3>2 DEF Single
    <3>3. CASE j = Len(control) + 1
      <4>1. control[i].id = d
        BY <2>1, <3>1, <3>3
      <4> QED BY <2>2, <2>4, <3>1, <3>3, <4>1
    <3> QED BY <3>1, <3>2, <3>3
  <2> QED BY <2>1, <2>3, <2>4, <2>5 DEF Lines
<1> QED BY <1>2, <1>3

LEMMA NoHandleTyped == NoKey \in Keys /\ \A d \in Ids : KeyOf(d) \in Keys
  BY DEF NoKey, KeyOf, Keys, Halves, Blank

\* Any start from files that are in order.
LEMMA StartEstablishes ==
    ASSUME NEW m \in BOOLEAN, NEW c \in Lines, NEW f \in KeyFiles,
           Start(m, c, f), doubtful' \in SUBSET Ids,
           hidden' \in Nat, Single(c, hidden'), hidden' <= Len(c)
    PROVE  IInv'
<1>1. NoNodes \in Nodes
  BY DEF NoNodes, Nodes, Node, Handles
<1>2. ReadCsv(NoNodes, c) \in Nodes /\ Agrees(ReadCsv(NoNodes, c), c)
  BY <1>1, ReadCsvAgrees
<1>3. f \in Seq(PublicKey)
  BY DEF KeyFiles
<1>4. nodes' \in Nodes /\ Agrees(nodes', c)
  BY <1>2, <1>3, ReloadKeepsIds, SameIdsAgree DEF Start
<1>5. register' \in [Slots -> Entry]
  BY NoHandleTyped DEF Start, InitSecureRegister, Entry, Handles
<1>6. <<>> \in Seq(PublicKey) /\ <<>> \in KeyFiles
  BY TeachInAssumption, EmptySeq DEF KeyFiles
<1>7. command' \in Commands /\ command'[1] = "no"
  BY DEF Start, Idle, Commands
<1>8. TypeOK'
  BY <1>3, <1>4, <1>5, <1>6, <1>7
  DEF Start, TypeOK, Lines, Line, Nodes, Node, KeyFiles
<1>9. (control \in Lines /\ Single(control, hidden) /\ hidden <= Len(control))'
  BY DEF Start, Single
<1> QED BY <1>4, <1>6, <1>7, <1>8, <1>9 DEF Start, IInv, Agrees, Visible

(***************************************************************************)
(* The steps.                                                              *)
(***************************************************************************)
\* A step that touches neither the tables nor their files.
LEMMA RegisterOnly ==
    ASSUME IInv, register' \in [Slots -> Entry], crashed' \in BOOLEAN,
           UNCHANGED <<teaching, control, nodes, pubTable, pubFile, unwritten,
                       command, cleared, hidden, doubtful>>
    PROVE  IInv'
  BY DEF IInv, TypeOK, Single, Agrees, Visible

\* A slot that is begun has its type.
LEMMA BeginTyped ==
    ASSUME IInv, NEW d \in Ids, NEW e, Begin(d, e),
           e.status \in {"FIRST_COME", "REGISTERED"}, e.key \in Keys, e.sec \in Handles
    PROVE  register' \in [Slots -> Entry]
<1>1. register \in [Slots -> Entry]
  BY DEF IInv, TypeOK
<1>2. \A s \in Slots : register[s].sec \in Handles
  BY <1>1 DEF Entry
<1>3. \A h \in Handles :
          [id |-> d, status |-> e.status, key |-> e.key, sec |-> h] \in Entry
  BY DEF Entry
<1> QED BY <1>1, <1>2, <1>3 DEF Begin

LEMMA ClearedKeeps ==
    ASSUME IInv, NEW d
    PROVE  Cleared(SlotOf(d)) \in [Slots -> Entry]
<1>1. register \in [Slots -> Entry]
  BY DEF IInv, TypeOK
<1>2. \A s \in Slots : [id |-> NoId, status |-> "NO_ENTRY", key |-> NoKey,
                        sec |-> register[s].sec] \in Entry
  BY <1>1, NoHandleTyped DEF Entry
<1> QED BY <1>1, <1>2 DEF Cleared

LEMMA FirstTeachInKeeps ==
    ASSUME IInv, NEW d \in Ids, FirstTeachIn(d)
    PROVE  IInv'
<1> DEFINE e == [status |-> "FIRST_COME", key |-> <<d, Blank>>, sec |-> NoHandle]
<1>1. e.key \in Keys /\ e.sec \in Handles /\ e.status \in {"FIRST_COME", "REGISTERED"}
  BY DEF Keys, Halves, Handles, Blank
<1>2. Begin(d, e)
  BY DEF FirstTeachIn
<1> HIDE DEF e
<1>3. register' \in [Slots -> Entry]
  BY <1>1, <1>2, BeginTyped
<1>4. crashed' \in BOOLEAN
  BY DEF FirstTeachIn, IInv, TypeOK
<1> QED BY <1>3, <1>4, RegisterOnly DEF FirstTeachIn

LEMMA LongTeachInKeeps ==
    ASSUME IInv, NEW d \in Ids, NEW ok \in BOOLEAN, LongTeachIn(d, ok)
    PROVE  IInv'
<1> DEFINE e == [status |-> "REGISTERED", key |-> KeyOf(d),
                 sec |-> IF ok THEN KeyOf(d) ELSE NoHandle]
<1>1. e.key \in Keys /\ e.sec \in Handles /\ e.status \in {"FIRST_COME", "REGISTERED"}
  BY NoHandleTyped DEF Handles
<1>2. Begin(d, e)
  BY DEF LongTeachIn
<1> HIDE DEF e
<1>3. register' \in [Slots -> Entry]
  BY <1>1, <1>2, BeginTyped
<1>4. crashed' \in BOOLEAN
  BY DEF LongTeachIn, IInv, TypeOK
<1> QED BY <1>3, <1>4, RegisterOnly DEF LongTeachIn

LEMMA SecondTeachInKeeps ==
    ASSUME IInv, NEW d \in Ids, NEW ok \in BOOLEAN, SecondTeachIn(d, ok)
    PROVE  IInv'
<1>0. register \in [Slots -> Entry]
  BY DEF IInv, TypeOK
<1>1. CASE HasSlot(d) /\ register[SlotOf(d)].status = "FIRST_COME"
           /\ LET key == <<register[SlotOf(d)].key[1], d>> IN
              register' = [register EXCEPT ![SlotOf(d)] =
                 [id |-> d, status |-> "REGISTERED", key |-> key,
                  sec |-> IF ok THEN key ELSE @.sec]]
  <2> DEFINE slot == register[SlotOf(d)]
             key == <<slot.key[1], d>>
             new == [id |-> d, status |-> "REGISTERED", key |-> key,
                     sec |-> IF ok THEN key ELSE slot.sec]
  <2>1. SlotOf(d) \in Slots
    BY <1>1, SlotFound
  <2>2. slot.key \in Keys /\ slot.sec \in Handles
    BY <1>0, <2>1 DEF Entry
  <2>3. key \in Keys
    BY <2>2 DEF Keys, Halves
  <2>4. register' = [register EXCEPT ![SlotOf(d)] = new]
    BY <1>1
  <2> HIDE DEF key
  <2>5. new \in Entry
    BY <2>2, <2>3 DEF Entry, Handles
  <2> HIDE DEF new
  <2>6. register' \in [Slots -> Entry]
    BY <1>0, <2>4, <2>5
  <2>7. crashed' \in BOOLEAN
    BY DEF SecondTeachIn, IInv, TypeOK
  <2> QED BY <2>6, <2>7, RegisterOnly DEF SecondTeachIn
<1>2. CASE Begin(d, [status |-> "FIRST_COME", key |-> <<Bad, Blank>>, sec |-> NoHandle])
  <2> DEFINE e == [status |-> "FIRST_COME", key |-> <<Bad, Blank>>, sec |-> NoHandle]
  <2>1. e.key \in Keys /\ e.sec \in Handles /\ e.status \in {"FIRST_COME", "REGISTERED"}
    BY DEF Keys, Halves, Handles, Blank, Bad
  <2>2. Begin(d, e)
    BY <1>2
  <2> HIDE DEF e
  <2>3. register' \in [Slots -> Entry]
    BY <2>1, <2>2, BeginTyped
  <2>4. crashed' \in BOOLEAN
    BY DEF SecondTeachIn, IInv, TypeOK
  <2> QED BY <2>3, <2>4, RegisterOnly DEF SecondTeachIn
<1> QED BY <1>1, <1>2 DEF SecondTeachIn

LEMMA PlainTeachInKeeps ==
    ASSUME IInv, NEW d \in Ids, NEW ok \in BOOLEAN, PlainTeachIn(d, ok)
    PROVE  IInv'
<1>0. /\ control' = EoSetEep(d, FALSE, ok) /\ nodes' = ReadCsv(nodes, control')
      /\ cleared' = FALSE
      /\ UNCHANGED <<teaching, register, pubTable, pubFile, unwritten, command,
                     crashed, hidden, doubtful>>
  BY DEF PlainTeachIn
<1>1. control' \in Lines /\ Single(control', hidden) /\ hidden <= Len(control')
  BY <1>0, NewLine DEF PlainTeachIn
<1>2. nodes \in Nodes
  BY DEF IInv, TypeOK, Nodes, Node
<1>3. nodes' \in Nodes /\ Agrees(nodes', control')
  BY <1>0, <1>1, <1>2, ReadCsvAgrees
<1>4. TypeOK'
  BY <1>0, <1>1, <1>3 DEF IInv, TypeOK, Lines, Line, Nodes, Node
<1>5. (control \in Lines /\ Single(control, hidden) /\ hidden <= Len(control))'
  BY <1>0, <1>1 DEF Single
<1> QED BY <1>0, <1>3, <1>4, <1>5 DEF IInv, Agrees, Visible

\* What AddPublickey writes of the table is what was read, or a part of it.
LEMMA AddPublickeyFits ==
    ASSUME NEW pt \in KeyFiles, NEW d \in Ids, NEW key \in Keys, IInv,
           AddPublickey(pt, d, key)
    PROVE  pubTable' \in KeyFiles /\ pubFile' \in KeyFiles /\ unwritten' \in KeyFiles
<1>1. pubTable' \in KeyFiles
  BY WithKeyFits DEF AddPublickey
<1>2. <<>> \in KeyFiles
  BY TeachInAssumption, EmptySeq DEF KeyFiles
<1>3. pubFile \in KeyFiles /\ unwritten \in KeyFiles
  BY DEF IInv
<1>4. \A f \in CutOff(pubTable') : f \in KeyFiles
  <2> DEFINE pk == pubTable'
  <2>1. pk \in KeyFiles
    BY <1>1
  <2> HIDE DEF pk
  <2>2. \A f \in CutOff(pk) : f \in KeyFiles
    BY <2>1, CutOffFits
  <2> QED BY <2>2 DEF pk
<1> QED BY <1>1, <1>2, <1>3, <1>4 DEF AddPublickey

LEMMA TableFits ==
    ASSUME IInv
    PROVE  pubTable \in KeyFiles /\ pubFile \in Seq(PublicKey)
  BY DEF IInv, TypeOK, KeyFiles

LEMMA EncryptedTeachInKeeps ==
    ASSUME IInv, NEW d \in Ids, NEW ok \in BOOLEAN, EncryptedTeachIn(d, ok)
    PROVE  IInv'
<1> DEFINE slot == register[SlotOf(d)]
           table == ReadCsv(nodes, control')
           read == ReloadHandles(table, pubFile)
           keys == ReloadTable(pubTable, pubFile)
<1>0. /\ control' = EoSetEep(d, TRUE, ok) /\ cleared' = FALSE
      /\ UNCHANGED <<teaching, command, crashed, hidden>>
      /\ NewIdComming(d) /\ HasSlot(d)
  BY DEF EncryptedTeachIn, TeachInReadable
<1>1. control' \in Lines /\ Single(control', hidden) /\ hidden <= Len(control')
  BY <1>0, NewLine
<1>2. nodes \in Nodes
  BY DEF IInv, TypeOK, Nodes, Node
<1>3. pubFile \in KeyFiles /\ pubTable \in KeyFiles /\ pubFile \in Seq(PublicKey)
      /\ unwritten \in KeyFiles
  BY TableFits DEF IInv
<1>4. read \in Nodes /\ Agrees(read, control')
  <2>1. table \in Nodes /\ Agrees(table, control')
    BY <1>1, <1>2, ReadCsvAgrees
  <2> HIDE DEF table
  <2> QED BY <1>3, <2>1, ReloadKeepsIds, SameIdsAgree
<1>5. keys \in KeyFiles
  BY <1>3, ReloadTableFits
<1>6. slot.sec \in Handles /\ slot.key \in Keys
  <2>1. SlotOf(d) \in Slots
    BY <1>0, SlotFound
  <2> QED BY <2>1 DEF IInv, TypeOK, Entry
<1>7. doubtful' \subseteq Ids
  <2>1. doubtful \subseteq Ids /\ Displaced \subseteq Ids
    BY DEF IInv, TypeOK, Displaced
  <2> HIDE DEF keys
  <2> QED BY <2>1 DEF EncryptedTeachIn
<1>8. /\ nodes' \in Nodes /\ Agrees(nodes', control')
      /\ register' \in [Slots -> Entry]
      /\ pubTable' \in KeyFiles /\ pubFile' \in KeyFiles /\ unwritten' \in KeyFiles
  <2>1. CASE ok /\ slot.status = "REGISTERED"
    <3>1. nodes' = [read EXCEPT ![GetTableId(read, d)].secure = slot.sec]
          /\ AddPublickey(keys, d, slot.key) /\ register' = Cleared(SlotOf(d))
      BY <2>1 DEF EncryptedTeachIn
    <3>2. pubTable' \in KeyFiles /\ pubFile' \in KeyFiles /\ unwritten' \in KeyFiles
      <4> HIDE DEF slot, keys
      <4> QED BY <1>5, <1>6, <3>1, AddPublickeyFits
    <3>3. register' \in [Slots -> Entry]
      BY <3>1, ClearedKeeps
    <3>4. nodes' \in Nodes /\ \A i \in NodeIndex : nodes'[i].id = read[i].id
      <4> HIDE DEF read, slot
      <4> QED BY <1>4, <1>6, <3>1 DEF Nodes, Node
    <3>5. Agrees(nodes', control')
      <4> HIDE DEF read
      <4> QED BY <1>4, <3>4, SameIdsAgree
    <3> QED BY <3>2, <3>3, <3>4, <3>5
  <2>2. CASE ~(ok /\ slot.status = "REGISTERED")
    <3>1. nodes' = read /\ pubTable' = keys /\ UNCHANGED <<register, pubFile, unwritten>>
      BY <2>2 DEF EncryptedTeachIn
    <3> HIDE DEF read, keys
    <3> QED BY <1>3, <1>4, <1>5, <3>1 DEF IInv, TypeOK
  <2> QED BY <2>1, <2>2
<1> HIDE DEF slot, table, read, keys
<1>9. TypeOK'
  BY <1>0, <1>1, <1>7, <1>8
  DEF IInv, TypeOK, Lines, Line, Nodes, Node, KeyFiles
<1>10. (control \in Lines /\ Single(control, hidden) /\ hidden <= Len(control))'
  BY <1>0, <1>1 DEF Single
<1>11. (pubFile \in KeyFiles /\ unwritten \in KeyFiles)' /\ Agrees(nodes, control)'
  BY <1>8 DEF Agrees, Visible
<1> QED BY <1>0, <1>9, <1>10, <1>11 DEF IInv

\* ClearTableId leaves an empty table.
LEMMA TableCleared ==
    ASSUME NEW t \in Nodes
    PROVE  ClearTableId(t) \in Nodes /\ Visible(ClearTableId(t)) = {}
<1> DEFINE u == ClearTableId(t)
<1>1. \A i \in NodeIndex : t[i] \in Node
  BY DEF Nodes
<1>2. u \in Nodes
  BY <1>1 DEF ClearTableId, Nodes, Node
<1>3. ASSUME NEW i \in Visible(u)
      PROVE  FALSE
  <2>1. i \in NodeIndex /\ i \in Nat /\ 1 <= i /\ \A j \in 1 .. i : u[j].id # NoId
    BY <1>3, IdsCounted DEF Visible, NodeIndex
  <2>2. 1 \in NodeIndex /\ 1 \in 1 .. i
    BY <2>1, IdsCounted DEF NodeIndex
  <2>3. \A j \in 1 .. 1 : j = 1
    OBVIOUS
  <2>4. CASE t[1].id = NoId
    <3>1. u[1].id = NoId
      BY <2>2, <2>4 DEF ClearTableId, Visible
    <3> QED BY <2>1, <2>2, <3>1
  <2>5. CASE t[1].id # NoId
    <3>1. 1 \in Visible(t)
      BY <2>2, <2>3, <2>5 DEF Visible
    <3>2. u[1] = [t[1] EXCEPT !.id = NoId]
      BY <2>2, <3>1 DEF ClearTableId
    <3>3. u[1].id = NoId
      BY <1>1, <2>2, <3>2 DEF Node
    <3> QED BY <2>1, <2>2, <3>3
  <2> QED BY <2>4, <2>5
<1> QED BY <1>2, <1>3

\* Without a hidden line all the lines may be hidden.
LEMMA SingleAll ==
    ASSUME NEW c \in Lines, Single(c, 0)
    PROVE  Single(c, Len(c))
<1>1. DOMAIN c = 1 .. Len(c) /\ Len(c) \in Nat
  BY LenProperties DEF Lines
<1> QED BY <1>1 DEF Single

LEMMA MainKeeps ==
    ASSUME IInv, Main
    PROVE  IInv'
<1>1. /\ TypeOK /\ control \in Lines /\ nodes \in Nodes /\ Len(control) \in Nat
      /\ pubFile \in KeyFiles /\ unwritten \in KeyFiles
  BY LenProperties DEF IInv, TypeOK, Nodes, Node, Lines
<1>2. /\ <<>> \in Lines /\ <<>> \in KeyFiles /\ <<>> \in Seq(PublicKey)
      /\ <<>> \in Seq(Line) /\ Len(<<>>) = 0 /\ DOMAIN <<>> = {}
      /\ Single(<<>>, 0)
  BY TeachInAssumption DEF Lines, KeyFiles, Single
<1>3. Marked(control) \subseteq Ids
  <2>1. \A i \in DOMAIN control : control[i] \in Line
    BY <1>1, ElementOfSeq, LenProperties DEF Lines
  <2> QED BY <2>1 DEF Marked, Line
<1>4. ASSUME NEW all \in BOOLEAN, EoClearControl(all)
      PROVE  IInv'
  <2>1. /\ control' = <<>> /\ command' = <<"keys", all>> /\ cleared' = TRUE
        /\ hidden' = 0 /\ doubtful' = {}
        /\ UNCHANGED <<teaching, nodes, register, pubTable, pubFile, unwritten,
                       crashed>>
    BY <1>4 DEF EoClearControl
  <2>2. command' \in Commands
    BY <2>1 DEF Commands
  <2>3. TypeOK'
    BY <1>1, <1>2, <2>1, <2>2 DEF TypeOK, Line
  <2> QED BY <1>1, <1>2, <2>1, <2>3 DEF IInv, Single
<1>5. CASE DeletePublickey
  <2>1. /\ pubTable' = <<>> /\ command' = <<"unlink", command[2]>>
        /\ command[1] = "keys"
        /\ doubtful' = doubtful \cup Marked(control)
        /\ UNCHANGED <<teaching, control, nodes, register, pubFile, unwritten,
                       crashed, cleared, hidden>>
    BY <1>5 DEF DeletePublickey
  <2>2. command' \in Commands
    BY <1>1, <2>1 DEF Commands, TypeOK
  <2>3. TypeOK'
    BY <1>1, <1>2, <1>3, <2>1, <2>2, TeachInAssumption DEF TypeOK
  <2> QED BY <1>1, <2>1, <2>3 DEF IInv, Single, Agrees, Visible
<1>6. CASE UnlinkPublickey
  <2>1. /\ pubFile' = <<>> /\ unwritten' = <<>> /\ command[1] = "unlink"
        /\ command' = IF command[2] THEN <<"table", TRUE>> ELSE Idle
        /\ doubtful' = doubtful \cup Marked(control)
        /\ UNCHANGED <<teaching, control, nodes, register, pubTable, crashed,
                       cleared, hidden>>
    BY <1>6 DEF UnlinkPublickey
  <2>2. command' \in Commands
    BY <2>1 DEF Commands, Idle
  <2>3. TypeOK'
    BY <1>1, <1>2, <1>3, <2>1, <2>2 DEF TypeOK
  <2> QED BY <1>1, <1>2, <2>1, <2>3 DEF IInv, Single, Agrees, Visible
<1>7. CASE ClearAndRegister
  <2>1. /\ nodes' = ClearTableId(nodes) /\ teaching' = TRUE /\ command' = Idle
        /\ cleared' = (control # <<>>) /\ hidden' = Len(control)
        /\ command[1] = "table"
        /\ UNCHANGED <<control, register, pubTable, pubFile, unwritten, crashed,
                       doubtful>>
    BY <1>7 DEF ClearAndRegister
  <2>2. nodes' \in Nodes /\ Visible(nodes') = {}
    <3>1. ClearTableId(nodes) \in Nodes /\ Visible(ClearTableId(nodes)) = {}
      BY <1>1, TableCleared
    <3> QED BY <2>1, <3>1 DEF Visible
  <2>3. Single(control, Len(control))
    BY <1>1, <2>1, SingleAll DEF IInv
  <2>4. command' \in Commands /\ command'[1] = "no"
    BY <2>1 DEF Commands, Idle
  <2>5. TypeOK'
    BY <1>1, <2>1, <2>2, <2>4 DEF TypeOK, Nodes, Node
  <2>6. control = <<>> => Agrees(nodes', control')
    BY <1>2, <2>1, <2>2 DEF Agrees
  <2>7. (control \in Lines /\ Single(control, hidden) /\ hidden <= Len(control))'
    BY <1>1, <2>1, <2>3 DEF Single
  <2> QED BY <1>1, <2>1, <2>4, <2>5, <2>6, <2>7 DEF IInv, Agrees, Visible
<1>8. ASSUME NEW m \in BOOLEAN, ChangeMode(m)
      PROVE  IInv'
  BY <1>8 DEF ChangeMode, IInv, TypeOK, Single, Agrees, Visible
<1>9. CASE ChangeToOperation
  <2>1. command' \in Commands /\ command'[1] = "read"
    BY <1>9 DEF ChangeToOperation, Commands
  <2> QED BY <1>9, <2>1
          DEF ChangeToOperation, IInv, TypeOK, Single, Agrees, Visible
<1>10. CASE EoReadControl
  <2>1. /\ nodes' = ReadCsv(nodes, control) /\ command' = Idle /\ cleared' = FALSE
        /\ UNCHANGED <<teaching, control, register, pubTable, pubFile, unwritten,
                       crashed, hidden, doubtful>>
    BY <1>10 DEF EoReadControl
  <2>2. nodes' \in Nodes /\ Agrees(nodes', control)
    BY <1>1, <2>1, ReadCsvAgrees
  <2>3. command' \in Commands /\ command'[1] = "no"
    BY <2>1 DEF Commands, Idle
  <2>4. TypeOK'
    BY <1>1, <2>1, <2>2, <2>3 DEF TypeOK, Nodes, Node
  <2> QED BY <1>1, <2>1, <2>2, <2>3, <2>4 DEF IInv, Single, Agrees, Visible
<1> QED BY <1>4, <1>5, <1>6, <1>7, <1>8, <1>9, <1>10 DEF Main

LEMMA LostDevices ==
    ASSUME NEW s, NEW f
    PROVE  Lost(s, f) \in SUBSET Ids /\ Displaced \in SUBSET Ids
  BY DEF Lost, Displaced

LEMMA RestartsKeep ==
    ASSUME IInv, Restarts
    PROVE  IInv'
<1>1. /\ <<>> \in Lines /\ <<>> \in KeyFiles /\ Single(<<>>, 0) /\ 0 <= Len(<<>>)
  BY TeachInAssumption DEF Lines, KeyFiles, Single
<1>2. /\ control \in Lines /\ pubFile \in KeyFiles /\ Filed \in KeyFiles
      /\ unwritten \in KeyFiles /\ doubtful \in SUBSET Ids
      /\ hidden \in Nat /\ Single(control, hidden) /\ hidden <= Len(control)
  BY DEF IInv, TypeOK, Filed
<1>3. CASE RestartClear
  <2>1. Start(TRUE, <<>>, <<>>) /\ doubtful' \in SUBSET Ids /\ hidden' = 0
    BY <1>3 DEF RestartClear
  <2>2. hidden' \in Nat /\ Single(<<>>, hidden') /\ hidden' <= Len(<<>>)
    BY <1>1, <2>1
  <2> QED BY <1>1, <2>1, <2>2, StartEstablishes
<1>4. ASSUME NEW m \in BOOLEAN, Restart(m)
      PROVE  IInv'
  <2>1. Start(m, control, Filed) /\ doubtful' \in SUBSET Ids /\ hidden' = hidden
    BY <1>2, <1>4 DEF Restart
  <2>2. hidden' \in Nat /\ Single(control, hidden') /\ hidden' <= Len(control)
    BY <1>2, <2>1
  <2> QED BY <1>2, <2>1, <2>2, StartEstablishes
<1>5. ASSUME NEW m \in BOOLEAN, PowerLoss(m)
      PROVE  IInv'
  <2>1. Start(m, control, pubFile) /\ doubtful' \in SUBSET Ids /\ hidden' = hidden
    BY <1>2, <1>5, LostDevices DEF PowerLoss
  <2>2. hidden' \in Nat /\ Single(control, hidden') /\ hidden' <= Len(control)
    BY <1>2, <2>1
  <2> QED BY <1>2, <2>1, <2>2, StartEstablishes
<1>6. ASSUME NEW m \in BOOLEAN, NEW d \in Ids, PowerLossInTeachIn(m, d)
      PROVE  IInv'
  <2> DEFINE c == EoSetEep(d, TRUE, TRUE)
             slot == register[SlotOf(d)]
             keys == ReloadTable(pubTable, pubFile)
             new == WithKey(keys, d, slot.key)
  <2>1. NewIdComming(d) /\ HasSlot(d) /\ hidden' = hidden
    BY <1>6 DEF PowerLossInTeachIn, TeachInReadable
  <2>2. c \in Lines /\ Single(c, hidden) /\ hidden <= Len(c)
    BY <2>1, NewLine
  <2>3. new \in KeyFiles
    <3>1. slot.key \in Keys
      BY <2>1, SlotFound DEF IInv, TypeOK, Entry
    <3>2. keys \in KeyFiles
      BY TableFits, ReloadTableFits DEF IInv
    <3> HIDE DEF keys, slot
    <3> QED BY <3>1, <3>2, WithKeyFits
  <2>4. PICK f \in {pubFile} \cup CutOff(new) :
            /\ Start(m, c, f)
            /\ doubtful' \in {doubtful \cup {d} \cup Lost(unwritten, pubFile),
                              doubtful \cup {d} \cup Displaced \cup Lost(new, f)}
    BY <1>6 DEF PowerLossInTeachIn
  <2> HIDE DEF new, c
  <2>5. f \in KeyFiles
    BY <1>2, <2>3, <2>4, CutOffFits
  <2>6. doubtful' \in SUBSET Ids
    BY <1>2, <2>4, LostDevices
  <2>7. hidden' \in Nat /\ Single(c, hidden') /\ hidden' <= Len(c)
    BY <1>2, <2>1, <2>2
  <2> QED BY <2>2, <2>4, <2>5, <2>6, <2>7, StartEstablishes
<1> QED BY <1>3, <1>4, <1>5, <1>6 DEF Restarts

LEMMA Inv_Init == Init => IInv
<1> SUFFICES ASSUME Init
             PROVE  IInv
  OBVIOUS
<1>1. /\ <<>> \in Lines /\ <<>> \in KeyFiles /\ <<>> \in Seq(PublicKey)
      /\ <<>> \in Seq(Line) /\ Len(<<>>) = 0 /\ DOMAIN <<>> = {}
      /\ Single(<<>>, 0)
  BY TeachInAssumption DEF Lines, KeyFiles, Single
<1>2. NoNodes \in Nodes
  BY DEF NoNodes, Nodes, Node, Handles
<1>3. Visible(NoNodes) = {}
  <2> SUFFICES ASSUME NEW i \in NodeIndex, \A j \in 1 .. i : NoNodes[j].id # NoId
               PROVE  FALSE
    BY DEF Visible
  <2>1. i \in 1 .. i
    BY IdsCounted DEF NodeIndex
  <2> QED BY <2>1 DEF NoNodes
<1>4. Agrees(nodes, control)
  BY <1>1, <1>3 DEF Init, Agrees
<1>5. register \in [Slots -> Entry]
  BY NoHandleTyped DEF Init, InitSecureRegister, Entry, Handles
<1>6. command \in Commands /\ command[1] = "no"
  BY DEF Init, Commands, Idle
<1>7. TypeOK
  <2>1. teaching \in BOOLEAN /\ crashed \in BOOLEAN /\ cleared \in BOOLEAN
    BY DEF Init
  <2> QED BY <1>1, <1>2, <1>5, <1>6, <2>1, TeachInAssumption
          DEF Init, TypeOK, Nodes, Node, Line
<1> QED BY <1>1, <1>4, <1>6, <1>7 DEF Init, IInv

LEMMA Inv_Next == IInv /\ [Next]_vars => IInv'
<1> SUFFICES ASSUME IInv, [Next]_vars
             PROVE  IInv'
  OBVIOUS
<1>1. ASSUME NEW d \in Ids, SecureTelegram(d)
      PROVE  IInv'
  <2>1. register' \in [Slots -> Entry] /\ crashed' \in BOOLEAN
    BY <1>1 DEF SecureTelegram, IInv, TypeOK
  <2> QED BY <1>1, <2>1, RegisterOnly DEF SecureTelegram
<1>2. CASE MainJob
  BY <1>1, <1>2, FirstTeachInKeeps, LongTeachInKeeps, SecondTeachInKeeps,
     PlainTeachInKeeps, EncryptedTeachInKeeps
  DEF MainJob
<1>3. CASE UNCHANGED vars
  BY <1>3 DEF vars, IInv, TypeOK, Single, Agrees, Visible
<1> QED BY <1>2, <1>3, MainKeeps, RestartsKeep DEF Next

THEOREM Invariance == Spec => []IInv
<1> QED BY Inv_Init, Inv_Next, PTL DEF Spec

\* The node table is the control file but between a clearing and the next
\* reading, and a device has one line in it, or one more behind those that
\* ClearTableId has hidden, through any teach-ins, commands, restarts and
\* losses of power.
THEOREM OneLinePerDevice == Spec => []TableIsFile
<1> QED BY Invariance, Inv_Implied, PTL

\* When known devices have all the slots, no telegram and no command frees
\* one, except a new start.
THEOREM SlotsStayTaken == Spec => NoRelief
<1>1. ASSUME IInv, [Next]_vars, Blocked
      PROVE  (\A s \in Slots : register'[s].id = register[s].id)
             \/ register' = InitSecureRegister
  <2>0. register \in [Slots -> Entry]
    BY <1>1 DEF IInv, TypeOK
  <2>1. ~HasSlot(NoId)
    BY <1>1 DEF Blocked, HasSlot
  <2>2. \A d, e : ~Begin(d, e)
    BY <2>1 DEF Begin
  <2>3. \A d \in Ids : HasSlot(d) => CheckTableId(nodes, d)
    BY <1>1 DEF Blocked, HasSlot
  <2>4. ASSUME NEW d \in Ids, NEW ok \in BOOLEAN, SecondTeachIn(d, ok)
        PROVE  \A s \in Slots : register'[s].id = register[s].id
    <3>1. HasSlot(d)
      BY <2>2, <2>4 DEF SecondTeachIn
    <3>2. register[SlotOf(d)].id = d
      BY <3>1, SlotFound
    <3>3. PICK h, k : register' = [register EXCEPT ![SlotOf(d)] =
              [id |-> d, status |-> "REGISTERED", key |-> k, sec |-> h]]
      BY <2>2, <2>4 DEF SecondTeachIn
    <3> QED BY <2>0, <3>2, <3>3
  <2>5. CASE MainJob
    <3>1. PICK d \in Ids :
              \/ SecureTelegram(d)
              \/ \E ok \in BOOLEAN : SecondTeachIn(d, ok) \/ PlainTeachIn(d, ok)
      BY <2>2, <2>3, <2>5
      DEF MainJob, FirstTeachIn, LongTeachIn, EncryptedTeachIn, TeachInReadable,
          NewIdComming
    <3> QED BY <2>4, <3>1 DEF SecureTelegram, PlainTeachIn
  <2>6. CASE Main
    BY <2>6 DEF Main, EoClearControl, DeletePublickey, UnlinkPublickey,
                ClearAndRegister, ChangeMode, ChangeToOperation, EoReadControl
  <2>7. CASE Restarts
    BY <2>7 DEF Restarts, RestartClear, Restart, PowerLoss, PowerLossInTeachIn,
                Start
  <2>8. CASE UNCHANGED vars
    BY <2>8 DEF vars
  <2> QED BY <1>1, <2>5, <2>6, <2>7, <2>8 DEF Next
<1>2. [][Next]_vars /\ []IInv => NoRelief
  BY <1>1, PTL DEF NoRelief
<1> QED BY <1>2, Invariance, PTL DEF Spec
(***************************************************************************)
(* MarkedHasKey.  A device that is marked and not doubtful has its own key *)
(* in the public key table, in the file that exit leaves and at its node.  *)
(* No device has two lines of keys, and what is to be read of the file is  *)
(* line by line the table's devices, once main has not emptied that.       *)
(***************************************************************************)
HasOwn(f, d) == \E j \in DOMAIN f : f[j] = [id |-> d, key |-> KeyOf(d)]
UniqueKeys(f) ==
    \A i, j \in DOMAIN f : f[i].id = f[j].id /\ f[i].id \in Ids => i = j
Aligned(f, t) ==
    \A j \in DOMAIN f :
        j \in DOMAIN t /\ (f[j].id \in Ids => f[j].id = t[j].id)

\* The marked devices of control file c outside D have their keys in f.
Kept(c, f, D) == \A d \in Marked(c) \ D : HasOwn(f, d)

\* The nodes at their first lines have the handles made from these.
FirstLine(c, i) == \A j \in 1 .. i - 1 : c[j].id # c[i].id
Handled(c, t, D) ==
    \A i \in DOMAIN c :
        FirstLine(c, i) /\ c[i].id \in Marked(c) \ D =>
            t[i].secure = KeyOf(c[i].id)

KInv ==
    /\ IInv
    /\ UniqueKeys(pubTable) /\ UniqueKeys(pubFile) /\ UniqueKeys(unwritten)
    /\ pubTable # <<>> => Aligned(pubFile, pubTable)
    /\ Kept(control, pubTable, doubtful)
    /\ Kept(control, Filed, doubtful)
    /\ Handled(control, nodes, doubtful)

LEMMA MarkedLine ==
    ASSUME NEW c, NEW d \in Marked(c)
    PROVE  \E i \in DOMAIN c : c[i].id = d /\ c[i].mark
  BY DEF Marked

LEMMA MarkedTyped ==
    ASSUME NEW c \in Lines
    PROVE  Marked(c) \subseteq Ids
<1>1. \A i \in DOMAIN c : c[i] \in Line
  BY ElementOfSeq, LenProperties DEF Lines
<1> QED BY <1>1 DEF Marked, Line

LEMMA KInv_Implied == KInv => MarkedHasKey /\ NullKeyCases
<1> SUFFICES ASSUME KInv
             PROVE  MarkedHasKey /\ NullKeyCases
  OBVIOUS
<1>1. MarkedHasKey
  <2> SUFFICES ASSUME NEW d \in Marked(control) \ doubtful
               PROVE  /\ HasOwn(Filed, d)
                      /\ ~cleared => nodes[GetTableId(nodes, d)].secure = KeyOf(d)
    BY DEF MarkedHasKey, HasOwn
  <2>1. HasOwn(Filed, d)
    BY DEF KInv, Kept
  <2>2. ASSUME ~cleared
        PROVE  nodes[GetTableId(nodes, d)].secure = KeyOf(d)
    <3> DEFINE g == GetTableId(nodes, d)
    <3>1. Agrees(nodes, control) /\ nodes \in Nodes
      BY <2>2 DEF KInv, IInv, TypeOK, Nodes, Node
    <3>2. CheckTableId(nodes, d)
      BY <3>1, MarkedLine DEF Agrees, CheckTableId
    <3>3. g \in Visible(nodes) /\ nodes[g].id = d
          /\ \A j \in 1 .. g - 1 : nodes[j].id # d
      BY <3>1, <3>2, TableIdFound
    <3> HIDE DEF g
    <3>4. g \in DOMAIN control /\ control[g].id = d
      BY <3>1, <3>3 DEF Agrees
    <3>5. \A j \in 1 .. g - 1 : j \in DOMAIN control
      <4>1. DOMAIN control = 1 .. Len(control) /\ Len(control) \in Nat
        BY LenProperties DEF KInv, IInv, Lines
      <4> QED BY <3>4, <4>1
    <3>6. FirstLine(control, g)
      BY <3>1, <3>3, <3>4, <3>5 DEF FirstLine, Agrees
    <3>7. nodes[g].secure = KeyOf(d)
      BY <3>4, <3>6 DEF KInv, Handled
    <3> QED BY <3>7 DEF g
  <2> QED BY <2>1, <2>2
<1>2. NullKeyCases
  <2> SUFFICES ASSUME NEW i \in Visible(nodes), ~HasKey(nodes[i].id),
                      nodes[i].id \in Marked(control) \ doubtful
               PROVE  FALSE
    BY DEF NullKeyCases
  <2>1. HasOwn(pubTable, nodes[i].id)
    BY DEF KInv, Kept
  <2> QED BY <2>1 DEF HasOwn, HasKey
<1> QED BY <1>1, <1>2

\* What a half-written file has is no two lines of a device either.
LEMMA CutOffKeys ==
    ASSUME NEW s \in KeyFiles, UniqueKeys(s), NEW f \in CutOff(s)
    PROVE  UniqueKeys(f) /\ Aligned(f, s)
<1>1. \A j \in DOMAIN f : j \in DOMAIN s /\ (f[j].id \in Ids => f[j].id = s[j].id)
  BY CutOffFits, TeachInAssumption
<1> QED BY <1>1 DEF UniqueKeys, Aligned

\* A line that is not lost is there.
LEMMA NotLost ==
    ASSUME NEW s, NEW f, NEW d \in Ids, HasOwn(s, d), d \notin Lost(s, f)
    PROVE  HasOwn(f, d)
<1>1. PICK i \in DOMAIN s : s[i] = [id |-> d, key |-> KeyOf(d)]
  BY DEF HasOwn
<1>2. \E j \in DOMAIN f : f[j] = s[i]
  BY <1>1 DEF Lost
<1> QED BY <1>1, <1>2 DEF HasOwn

\* The public key table after the file has been read again.
LEMMA ReloadLines ==
    ASSUME NEW pt \in KeyFiles, NEW f \in KeyFiles
    PROVE  LET keys == ReloadTable(pt, f) IN
           /\ \A i \in DOMAIN f : i \in DOMAIN keys /\ keys[i] = f[i]
           /\ \A i \in DOMAIN keys :
                  IF i \in DOMAIN f THEN keys[i] = f[i]
                  ELSE i \in DOMAIN pt /\ keys[i] = pt[i]
           /\ DOMAIN pt \subseteq DOMAIN keys
<1> DEFINE n == IF Len(f) > Len(pt) THEN Len(f) ELSE Len(pt)
           keys == ReloadTable(pt, f)
<1>1. /\ Len(pt) \in Nat /\ DOMAIN pt = 1 .. Len(pt)
      /\ Len(f) \in Nat /\ DOMAIN f = 1 .. Len(f)
  BY LenProperties DEF KeyFiles
<1>2. n \in Nat /\ Len(f) <= n /\ Len(pt) <= n /\ (n = Len(f) \/ n = Len(pt))
  BY <1>1
<1>3. /\ DOMAIN keys = 1 .. n
      /\ \A i \in 1 .. n : keys[i] = IF i <= Len(f) THEN f[i] ELSE pt[i]
  BY DEF ReloadTable
<1> HIDE DEF n, keys
<1>n. \A p, q, m \in Nat : p <= m /\ q <= m /\ (m = p \/ m = q) =>
         /\ \A i \in 1 .. m : (i <= p <=> i \in 1 .. p) /\ (i <= p \/ i \in 1 .. q)
         /\ 1 .. p \subseteq 1 .. m /\ 1 .. q \subseteq 1 .. m
  OBVIOUS
<1>m. /\ \A i \in 1 .. n : (i <= Len(f) <=> i \in 1 .. Len(f))
                             /\ (i <= Len(f) \/ i \in 1 .. Len(pt))
      /\ 1 .. Len(f) \subseteq 1 .. n /\ 1 .. Len(pt) \subseteq 1 .. n
  BY ONLY <1>1, <1>2, <1>n
<1>4. \A i \in 1 .. n : i <= Len(f) <=> i \in DOMAIN f
  BY <1>1, <1>m
<1>5. \A i \in 1 .. n : ~(i <= Len(f)) => i \in DOMAIN pt
  BY <1>1, <1>m
<1>6. DOMAIN f \subseteq 1 .. n /\ DOMAIN pt \subseteq 1 .. n
  BY <1>1, <1>m
<1> QED BY <1>3, <1>4, <1>5, <1>6 DEF keys

LEMMA ReloadKeys ==
    ASSUME KInv
    PROVE  LET keys == ReloadTable(pubTable, pubFile) IN
           /\ keys \in KeyFiles /\ UniqueKeys(keys) /\ Aligned(pubFile, keys)
           /\ \A d \in Ids : HasOwn(pubTable, d) /\ d \notin Displaced =>
                  HasOwn(keys, d)
<1> DEFINE keys == ReloadTable(pubTable, pubFile)
<1>0. pubTable \in KeyFiles /\ pubFile \in KeyFiles
  BY TableFits DEF KInv, IInv
<1>1. keys \in KeyFiles
  BY <1>0, ReloadTableFits
<1>2. /\ \A i \in DOMAIN pubFile : i \in DOMAIN keys /\ keys[i] = pubFile[i]
      /\ \A i \in DOMAIN keys :
             IF i \in DOMAIN pubFile THEN keys[i] = pubFile[i]
             ELSE i \in DOMAIN pubTable /\ keys[i] = pubTable[i]
      /\ DOMAIN pubTable \subseteq DOMAIN keys
  BY <1>0, ReloadLines
<1> HIDE DEF keys
<1>3. Aligned(pubFile, keys)
  BY <1>2 DEF Aligned
<1>4. ASSUME NEW i \in DOMAIN keys, NEW j \in DOMAIN keys, keys[i].id = keys[j].id,
             keys[i].id \in Ids, i \in DOMAIN pubFile, j \notin DOMAIN pubFile
      PROVE  FALSE
  <2>1. j \in DOMAIN pubTable /\ keys[j] = pubTable[j] /\ keys[i] = pubFile[i]
    BY <1>2, <1>4
  <2>2. pubTable # <<>>
    BY <2>1
  <2>3. i \in DOMAIN pubTable /\ pubFile[i].id = pubTable[i].id
    BY <1>4, <2>1, <2>2 DEF KInv, Aligned
  <2>4. i = j
    BY <1>4, <2>1, <2>3 DEF KInv, UniqueKeys
  <2> QED BY <1>4, <2>4
<1>5. UniqueKeys(keys)
  <2> SUFFICES ASSUME NEW i \in DOMAIN keys, NEW j \in DOMAIN keys,
                      keys[i].id = keys[j].id, keys[i].id \in Ids
               PROVE  i = j
    BY DEF UniqueKeys
  <2>1. CASE i \in DOMAIN pubFile /\ j \in DOMAIN pubFile
    BY <1>2, <2>1 DEF KInv, UniqueKeys
  <2>2. CASE i \notin DOMAIN pubFile /\ j \notin DOMAIN pubFile
    BY <1>2, <2>2 DEF KInv, UniqueKeys
  <2> QED BY <1>4, <2>1, <2>2
<1>6. ASSUME NEW d \in Ids, HasOwn(pubTable, d), d \notin Displaced
      PROVE  HasOwn(keys, d)
  <2>1. PICK k \in DOMAIN pubTable : pubTable[k] = [id |-> d, key |-> KeyOf(d)]
    BY <1>6 DEF HasOwn
  <2>2. k \in DOMAIN pubFile => pubFile[k] = pubTable[k]
    BY <1>6, <2>1 DEF Displaced
  <2>3. k \in DOMAIN keys /\ keys[k] = pubTable[k]
    BY <1>2, <2>2
  <2> QED BY <2>1, <2>3 DEF HasOwn
<1> QED BY <1>1, <1>3, <1>5, <1>6 DEF keys

\* A node's handle after the file was read is the one it had, or made from
\* its line.
LEMMA ReloadCases ==
    ASSUME NEW t \in Nodes, NEW f \in Seq(PublicKey), NEW i \in NodeIndex
    PROVE  \/ ReloadHandles(t, f)[i].secure = t[i].secure
           \/ \E j \in DOMAIN f : f[j].id = t[i].id
                                  /\ ReloadHandles(t, f)[i].secure = f[j].key
<1>0. t[i] \in Node
  BY DEF Nodes
<1>1. CASE \E j \in DOMAIN f : /\ f[j].key # NoKey
                               /\ CheckTableId(t, f[j].id)
                               /\ i = GetTableId(t, f[j].id)
  <2> DEFINE j == CHOOSE n \in DOMAIN f : f[n].id = t[i].id
  <2>1. ReloadHandles(t, f)[i] = [t[i] EXCEPT !.secure = f[j].key]
    BY <1>1 DEF ReloadHandles
  <2>2. \E n \in DOMAIN f : f[n].id = t[i].id
    BY <1>1, TableIdFound
  <2>3. j \in DOMAIN f /\ f[j].id = t[i].id
    BY <2>2
  <2> QED BY <1>0, <2>1, <2>3 DEF Node
<1>2. CASE ~\E j \in DOMAIN f : /\ f[j].key # NoKey
                                /\ CheckTableId(t, f[j].id)
                                /\ i = GetTableId(t, f[j].id)
  BY <1>2 DEF ReloadHandles
<1> QED BY <1>1, <1>2

\* In a table that is file c a device is found at its first line.
LEMMA FirstFound ==
    ASSUME NEW t \in Nodes, NEW c \in Lines, Agrees(t, c), NEW i \in DOMAIN c
    PROVE  /\ CheckTableId(t, c[i].id)
           /\ LET g == GetTableId(t, c[i].id) IN
              /\ g \in DOMAIN c /\ c[g].id = c[i].id /\ g \in NodeIndex
              /\ FirstLine(c, g)
              /\ FirstLine(c, i) => g = i
<1> DEFINE d == c[i].id
           g == GetTableId(t, d)
<1>1. DOMAIN c = 1 .. Len(c) /\ Len(c) \in Nat
  BY LenProperties DEF Lines
<1>2. i \in Visible(t) /\ t[i].id = d
  BY DEF Agrees
<1>3. CheckTableId(t, d)
  BY <1>2 DEF CheckTableId
<1>4. g \in Visible(t) /\ t[g].id = d /\ \A j \in 1 .. g - 1 : t[j].id # d
  BY <1>3, TableIdFound
<1> HIDE DEF g
<1>5. g \in DOMAIN c /\ g \in NodeIndex /\ c[g].id = d
  BY <1>4 DEF Agrees, Visible
<1>6. FirstLine(c, g)
  <2>1. \A j \in 1 .. g - 1 : j \in DOMAIN c
    BY <1>1, <1>5
  <2> QED BY <1>4, <1>5, <2>1 DEF FirstLine, Agrees
<1>7. ASSUME FirstLine(c, i)
      PROVE  g = i
  <2>1. g \in Nat /\ i \in Nat /\ 1 <= g /\ 1 <= i
    BY <1>1, <1>5
  <2>2. CASE g < i
    <3>1. g \in 1 .. i - 1
      BY <2>1, <2>2
    <3> QED BY <1>5, <1>7, <3>1 DEF FirstLine
  <2>3. CASE i < g
    <3>1. i \in 1 .. g - 1
      BY <2>1, <2>3
    <3> QED BY <1>5, <1>6, <3>1 DEF FirstLine
  <2> QED BY <2>1, <2>2, <2>3
<1> QED BY <1>3, <1>5, <1>6, <1>7 DEF g

LEMMA ReloadOwn ==
    ASSUME NEW t \in Nodes, NEW f \in Seq(PublicKey), NEW c \in Lines, Agrees(t, c),
           NEW i \in DOMAIN c, FirstLine(c, i), UniqueKeys(f), HasOwn(f, c[i].id)
    PROVE  ReloadHandles(t, f)[i].secure = KeyOf(c[i].id)
<1> DEFINE d == c[i].id
<1>1. i \in Visible(t) /\ i \in NodeIndex /\ t[i].id = d
  BY DEF Agrees, Visible
<1>2. PICK j \in DOMAIN f : f[j] = [id |-> d, key |-> KeyOf(d)]
  BY DEF HasOwn
<1>3. CheckTableId(t, d) /\ GetTableId(t, d) = i
  BY FirstFound
<1>4. d \in Ids
  <2>1. c[i] \in Line
    BY ElementOfSeq, LenProperties DEF Lines
  <2> QED BY <2>1 DEF Line
<1>5. f[j].id = d /\ f[j].key = KeyOf(d) /\ f[j].key # NoKey
  BY <1>2, <1>4, TeachInAssumption DEF KeyOf, NoKey
<1>6. ReloadHandles(t, f)[i] =
          [t[i] EXCEPT !.secure = f[CHOOSE n \in DOMAIN f : f[n].id = t[i].id].key]
  <2>1. \E n \in DOMAIN f : /\ f[n].key # NoKey
                            /\ CheckTableId(t, f[n].id)
                            /\ i = GetTableId(t, f[n].id)
    BY <1>3, <1>5
  <2> QED BY <1>1, <2>1 DEF ReloadHandles
<1>7. (CHOOSE n \in DOMAIN f : f[n].id = t[i].id) = j
  BY <1>1, <1>4, <1>5 DEF UniqueKeys
<1>8. t[i] \in Node
  BY <1>1 DEF Nodes
<1>9. ReloadHandles(t, f)[i].secure = f[j].key
  BY <1>6, <1>7, <1>8 DEF Node
<1> QED BY <1>5, <1>9

\* AddPublickey's table: d has the new line, unless there is no room, and
\* the other devices what they had.
LEMMA WithKeyCases ==
    ASSUME NEW pt \in KeyFiles, NEW d \in Ids, NEW key \in Keys, UniqueKeys(pt)
    PROVE  LET new == WithKey(pt, d, key) IN
           /\ UniqueKeys(new)
           /\ Len(new) >= Len(pt)
           /\ \A j \in DOMAIN pt : pt[j].id # d => j \in DOMAIN new /\ new[j] = pt[j]
           /\ \A j \in DOMAIN new : new[j].id # d => j \in DOMAIN pt /\ new[j] = pt[j]
           /\ Room(pt, d) => \E j \in DOMAIN new : new[j] = [id |-> d, key |-> key]
<1> DEFINE line == [id |-> d, key |-> key]
           old == {i \in DOMAIN pt : pt[i].id = d}
           new == WithKey(pt, d, key)
<1>1. /\ line \in PublicKey /\ pt \in Seq(PublicKey) /\ Len(pt) \in Nat
      /\ DOMAIN pt = 1 .. Len(pt) /\ Len(pt) <= PUBLICKEY_TABLE_SIZE
      /\ line.id = d
  BY LenProperties DEF PublicKey, KeyFiles
<1>2. CASE old # {}
  <2>1. PICK i \in DOMAIN pt : pt[i].id = d /\ new = [pt EXCEPT ![i] = line]
    BY <1>2 DEF WithKey
  <2> HIDE DEF line, new
  <2>2. /\ DOMAIN new = DOMAIN pt /\ new[i] = line
        /\ \A j \in DOMAIN pt : j # i => new[j] = pt[j]
    BY <2>1
  <2>3. Len(new) = Len(pt)
    BY <1>1, <2>1, ExceptSeq
  <2>4. \A j \in DOMAIN pt : new[j].id = pt[j].id
    BY <1>1, <2>1, <2>2
  <2>5. UniqueKeys(new)
    BY <2>2, <2>4 DEF UniqueKeys
  <2> QED BY <1>1, <2>1, <2>2, <2>3, <2>4, <2>5 DEF line, new
<1>3. CASE old = {} /\ Len(pt) < PUBLICKEY_TABLE_SIZE
  <2>1. new = Append(pt, line)
    BY <1>3 DEF WithKey, Room
  <2>2. \A j \in DOMAIN pt : pt[j].id # d
    BY <1>3
  <2> HIDE DEF line, new
  <2>3. /\ Len(new) = Len(pt) + 1 /\ new \in Seq(PublicKey)
        /\ \A j \in 1 .. Len(pt) : new[j] = pt[j]
        /\ new[Len(pt) + 1] = line
    BY <1>1, <2>1, AppendProperties
  <2>4. DOMAIN new = 1 .. Len(pt) + 1
    BY <2>3, LenProperties
  <2>5. \A j \in DOMAIN new : j \in DOMAIN pt \/ j = Len(pt) + 1
    BY <1>1, <2>4
  <2>6. Len(pt) + 1 \in DOMAIN new /\ DOMAIN pt \subseteq DOMAIN new
    BY <1>1, <2>4
  <2>7. ASSUME NEW j \in DOMAIN new, NEW k \in DOMAIN new, new[j].id = new[k].id,
               new[j].id \in Ids
        PROVE  j = k
    <3>1. CASE j \in DOMAIN pt /\ k \in DOMAIN pt
      BY <1>1, <2>3, <2>7, <3>1 DEF UniqueKeys
    <3>2. CASE j = Len(pt) + 1 \/ k = Len(pt) + 1
      BY <1>1, <2>2, <2>3, <2>5, <2>7, <3>2
    <3> QED BY <2>5, <3>1, <3>2
  <2>8. Len(new) >= Len(pt)
    BY <1>1, <2>3
  <2> QED BY <1>1, <2>2, <2>3, <2>5, <2>6, <2>7, <2>8 DEF UniqueKeys, line, new
<1>4. CASE old = {} /\ ~(Len(pt) < PUBLICKEY_TABLE_SIZE)
  <2>1. new = pt /\ ~Room(pt, d)
    BY <1>4 DEF WithKey, Room
  <2>2. Len(pt) >= Len(pt)
    BY <1>1
  <2> QED BY <2>1, <2>2
<1> QED BY <1>2, <1>3, <1>4

\* Another device's key is in the new table if it was in the old one.
LEMMA WithKeyKeeps ==
    ASSUME NEW pt \in KeyFiles, NEW d \in Ids, NEW key \in Keys, UniqueKeys(pt),
           NEW e, e # d, HasOwn(pt, e)
    PROVE  HasOwn(WithKey(pt, d, key), e)
<1> DEFINE new == WithKey(pt, d, key)
<1>1. \A j \in DOMAIN pt : pt[j].id # d => j \in DOMAIN new /\ new[j] = pt[j]
  BY WithKeyCases
<1> HIDE DEF new
<1>2. PICK j \in DOMAIN pt : pt[j] = [id |-> e, key |-> KeyOf(e)]
  BY DEF HasOwn
<1>3. pt[j].id # d
  BY <1>2
<1> QED BY <1>1, <1>2, <1>3 DEF HasOwn, new

(***************************************************************************)
(* KInv is inductive.                                                      *)
(***************************************************************************)
\* Reading the control file, and hiding the nodes, keeps the handles.
LEMMA TableHandles ==
    ASSUME NEW t \in Nodes, NEW f, NEW i \in NodeIndex
    PROVE  /\ ReadCsv(t, f)[i].secure = t[i].secure
           /\ ClearTableId(t)[i].secure = t[i].secure
<1>1. t[i] \in Node
  BY DEF Nodes
<1> QED BY <1>1 DEF ReadCsv, ClearTableId, Node

LEMMA LinesIndexed ==
    ASSUME NEW c \in Lines
    PROVE  DOMAIN c \subseteq NodeIndex
<1>1. DOMAIN c = 1 .. Len(c) /\ Len(c) \in Nat /\ Len(c) < NODE_TABLE_SIZE
  BY LenProperties DEF Lines
<1> QED BY <1>1, IdsCounted DEF NodeIndex

\* Of a device whose key the table has and the reading keeps, the file has
\* no other key.
LEMMA OwnInFile ==
    ASSUME KInv, NEW d \in Ids, HasOwn(pubTable, d), d \notin Displaced,
           NEW j \in DOMAIN pubFile, pubFile[j].id = d
    PROVE  pubFile[j].key = KeyOf(d)
<1>1. PICK k \in DOMAIN pubTable : pubTable[k] = [id |-> d, key |-> KeyOf(d)]
  BY DEF HasOwn
<1>2. pubTable # <<>>
  BY <1>1
<1>3. j \in DOMAIN pubTable /\ pubTable[j].id = d
  BY <1>2 DEF KInv, Aligned
<1>4. pubTable[k].id = d
  BY <1>1
<1>5. j = k
  BY <1>3, <1>4 DEF KInv, UniqueKeys
<1>6. pubFile[j] = pubTable[j]
  BY <1>3 DEF Displaced
<1> QED BY <1>1, <1>5, <1>6

\* A start gives every marked device with a key of its own its handle.
LEMMA StartKeepsKeys ==
    ASSUME NEW m \in BOOLEAN, NEW c \in Lines, NEW f \in KeyFiles,
           Start(m, c, f), IInv', UniqueKeys(f), Kept(c, f, doubtful')
    PROVE  KInv'
<1>2. /\ control' = c /\ pubFile' = f /\ pubTable' = f /\ unwritten' = <<>>
      /\ nodes' = ReloadHandles(ReadCsv(NoNodes, c), f)
  BY DEF Start
<1>3. f \in Seq(PublicKey)
  BY DEF KeyFiles
<1>4. NoNodes \in Nodes
  BY DEF NoNodes, Nodes, Node, Handles
<1>5. ReadCsv(NoNodes, c) \in Nodes /\ Agrees(ReadCsv(NoNodes, c), c)
  BY <1>4, ReadCsvAgrees
<1>6. ASSUME NEW i \in DOMAIN c, FirstLine(c, i), c[i].id \in Marked(c) \ doubtful'
      PROVE  nodes'[i].secure = KeyOf(c[i].id)
  <2>1. HasOwn(f, c[i].id)
    BY <1>6 DEF Kept
  <2> QED BY <1>2, <1>3, <1>5, <1>6, <2>1, ReloadOwn
<1>7. Handled(c, nodes', doubtful')
  BY <1>6 DEF Handled
<1>8. Filed' = f /\ UniqueKeys(<<>>) /\ Aligned(f, f)
  BY <1>2 DEF Filed, UniqueKeys, Aligned
<1> QED BY <1>2, <1>7, <1>8
        DEF KInv, Kept, Handled, FirstLine, UniqueKeys, Aligned, HasOwn, Marked

\* A step that leaves keys, files and handles alone.
LEMMA KeysUntouched ==
    ASSUME KInv, IInv', UNCHANGED <<control, pubTable, pubFile, unwritten, doubtful>>,
           \A i \in NodeIndex : nodes'[i].secure = nodes[i].secure
    PROVE  KInv'
<1>1. DOMAIN control \subseteq NodeIndex
  BY LinesIndexed DEF KInv, IInv
<1>2. Handled(control, nodes', doubtful)
  BY <1>1 DEF KInv, Handled
<1> QED BY <1>2 DEF KInv, Filed, Kept, Handled, FirstLine, UniqueKeys, Aligned,
                    HasOwn, Marked

\* The lines of the file after EoSetEep.
LEMMA LinesAfter ==
    ASSUME IInv, NEW d \in Ids, NEW mark \in BOOLEAN, NEW ok \in BOOLEAN
    PROVE  LET c == EoSetEep(d, mark, ok)
               line == [id |-> d, mark |-> mark] IN
           /\ \A i \in DOMAIN control : i \in DOMAIN c /\ c[i] = control[i]
           /\ \A i \in DOMAIN c :
                  \/ i \in DOMAIN control
                  \/ ok /\ c[i] = line /\ DOMAIN control \subseteq 1 .. i - 1
           /\ ok => \E i \in DOMAIN c : c[i] = line
<1> DEFINE line == [id |-> d, mark |-> mark]
           c == EoSetEep(d, mark, ok)
<1>1. control \in Seq(Line) /\ line \in Line /\ Len(control) \in Nat
      /\ DOMAIN control = 1 .. Len(control)
  BY LenProperties DEF IInv, Lines, Line
<1>2. CASE ~ok
  BY <1>2 DEF EoSetEep
<1>3. CASE ok
  <2>1. c = Append(control, line)
    BY <1>3 DEF EoSetEep
  <2> HIDE DEF line, c
  <2>2. /\ c \in Seq(Line)
        /\ Len(c) = Len(control) + 1
        /\ \A j \in 1 .. Len(control) : c[j] = control[j]
        /\ c[Len(control) + 1] = line
    BY <1>1, <2>1, AppendProperties
  <2>3. DOMAIN c = 1 .. Len(control) + 1
    BY <2>2, LenProperties
  <2>4. \A n \in Nat : /\ n + 1 \in 1 .. n + 1 /\ 1 .. n \subseteq 1 .. n + 1
                       /\ 1 .. n \subseteq 1 .. (n + 1) - 1
                       /\ \A i \in 1 .. n + 1 : i \in 1 .. n \/ i = n + 1
    OBVIOUS
  <2>5. /\ Len(control) + 1 \in DOMAIN c /\ DOMAIN control \subseteq DOMAIN c
        /\ DOMAIN control \subseteq 1 .. (Len(control) + 1) - 1
        /\ \A i \in DOMAIN c : i \in DOMAIN control \/ i = Len(control) + 1
    BY <1>1, <2>3, <2>4
  <2> QED BY <1>1, <1>3, <2>2, <2>5 DEF line, c
<1> QED BY <1>2, <1>3

LEMMA MarkedAfter ==
    ASSUME IInv, NEW d \in Ids, NEW mark \in BOOLEAN, NEW ok \in BOOLEAN
    PROVE  Marked(EoSetEep(d, mark, ok)) =
               Marked(control) \cup (IF ok /\ mark THEN {d} ELSE {})
<1> DEFINE line == [id |-> d, mark |-> mark]
           c == EoSetEep(d, mark, ok)
<1>1. /\ \A i \in DOMAIN control : i \in DOMAIN c /\ c[i] = control[i]
      /\ \A i \in DOMAIN c : i \in DOMAIN control \/ (ok /\ c[i] = line)
      /\ ok => \E i \in DOMAIN c : c[i] = line
  BY LinesAfter
<1>2. line.id = d /\ line.mark = mark
  OBVIOUS
<1> HIDE DEF line, c
<1>3. Marked(c) = Marked(control) \cup (IF ok /\ mark THEN {d} ELSE {})
  <2>1. ASSUME NEW e \in Marked(c)
        PROVE  e \in Marked(control) \/ (ok /\ mark /\ e = d)
    <3>1. PICK i \in DOMAIN c : c[i].id = e /\ c[i].mark
      BY <2>1, MarkedLine
    <3> QED BY <1>1, <1>2, <3>1 DEF Marked
  <2>2. ASSUME NEW e \in Marked(control)
        PROVE  e \in Marked(c)
    <3>1. PICK i \in DOMAIN control : control[i].id = e /\ control[i].mark
      BY <2>2, MarkedLine
    <3> QED BY <1>1, <3>1 DEF Marked
  <2>3. ASSUME ok, mark
        PROVE  d \in Marked(c)
    BY <1>1, <1>2, <2>3 DEF Marked
  <2> QED BY <2>1, <2>2, <2>3
<1> QED BY <1>3 DEF c

\* A device that had a line has its first where it was.
LEMMA FirstAfter ==
    ASSUME IInv, NEW d \in Ids, NEW mark \in BOOLEAN, NEW ok \in BOOLEAN,
           NEW i \in DOMAIN EoSetEep(d, mark, ok),
           FirstLine(EoSetEep(d, mark, ok), i),
           EoSetEep(d, mark, ok)[i].id \in Marked(control)
    PROVE  /\ i \in DOMAIN control /\ FirstLine(control, i)
           /\ control[i] = EoSetEep(d, mark, ok)[i]
<1> DEFINE c == EoSetEep(d, mark, ok)
<1>1. /\ \A k \in DOMAIN control : k \in DOMAIN c /\ c[k] = control[k]
      /\ i \in DOMAIN control \/ DOMAIN control \subseteq 1 .. i - 1
  BY LinesAfter
<1> HIDE DEF c
<1>2. PICK k \in DOMAIN control : control[k].id = c[i].id
  BY MarkedLine DEF c
<1>3. FirstLine(c, i)
  BY DEF c
<1>4. i \in DOMAIN control
  <2> SUFFICES ASSUME i \notin DOMAIN control
               PROVE  FALSE
    OBVIOUS
  <2>1. k \in 1 .. i - 1 /\ c[k].id = c[i].id
    BY <1>1, <1>2
  <2> QED BY <1>3, <2>1 DEF FirstLine
<1>5. \A j \in 1 .. i - 1 : j \in DOMAIN control
  <2>1. DOMAIN control = 1 .. Len(control) /\ Len(control) \in Nat
    BY LenProperties DEF IInv, Lines
  <2> QED BY <1>4, <2>1
<1>6. FirstLine(control, i)
  BY <1>1, <1>3, <1>4, <1>5 DEF FirstLine
<1> QED BY <1>1, <1>4, <1>6 DEF c

LEMMA PlainTeachInKeepsKeys ==
    ASSUME KInv, NEW d \in Ids, NEW ok \in BOOLEAN, PlainTeachIn(d, ok)
    PROVE  KInv'
<1>1. IInv /\ IInv' /\ nodes \in Nodes /\ control' \in Lines
  BY PlainTeachInKeeps DEF KInv, IInv, TypeOK, Nodes, Node
<1>2. /\ control' = EoSetEep(d, FALSE, ok) /\ nodes' = ReadCsv(nodes, control')
      /\ UNCHANGED <<pubTable, pubFile, unwritten, doubtful>>
  BY DEF PlainTeachIn
<1>3. Marked(control') = Marked(control)
  <2>1. Marked(EoSetEep(d, FALSE, ok)) = Marked(control)
    BY <1>1, MarkedAfter
  <2> QED BY <1>2, <2>1
<1>4. ASSUME NEW i \in DOMAIN control', FirstLine(control', i),
             control'[i].id \in Marked(control') \ doubtful
      PROVE  nodes'[i].secure = KeyOf(control'[i].id)
  <2>1. /\ i \in DOMAIN control /\ FirstLine(control, i)
        /\ control[i] = control'[i]
    BY <1>1, <1>2, <1>3, <1>4, FirstAfter
  <2>2. nodes[i].secure = KeyOf(control[i].id)
    BY <1>3, <1>4, <2>1 DEF KInv, Handled
  <2>3. i \in NodeIndex
    BY <1>1, LinesIndexed
  <2> QED BY <1>1, <1>2, <2>1, <2>2, <2>3, TableHandles
<1>5. Handled(control', nodes', doubtful)
  BY <1>4 DEF Handled
<1>6. Kept(control', pubTable, doubtful) /\ Kept(control', Filed, doubtful)
  BY <1>3 DEF KInv, Kept
<1> QED BY <1>1, <1>2, <1>5, <1>6
        DEF KInv, Filed, Kept, Handled, FirstLine, UniqueKeys, Aligned, HasOwn,
            Marked

\* After control and key file are read again, nodes that were in order are.
LEMMA ReadAgain ==
    ASSUME KInv, NEW c \in Lines, NEW i \in DOMAIN control, i \in DOMAIN c,
           c[i] = control[i], FirstLine(control, i),
           control[i].id \in Marked(control) \ (doubtful \cup Displaced)
    PROVE  ReloadHandles(ReadCsv(nodes, c), pubFile)[i].secure = KeyOf(control[i].id)
<1> DEFINE d == control[i].id
           table == ReadCsv(nodes, c)
<1>1. nodes \in Nodes /\ pubFile \in Seq(PublicKey) /\ control \in Lines
  BY DEF KInv, IInv, TypeOK, Nodes, Node
<1>2. table \in Nodes /\ Agrees(table, c)
  BY <1>1, ReadCsvAgrees
<1>3. i \in NodeIndex /\ table[i].id = d
  BY <1>2 DEF Agrees, Visible
<1>4. table[i].secure = KeyOf(d)
  BY <1>1, <1>3, TableHandles DEF KInv, Handled
<1>5. HasOwn(pubTable, d) /\ d \in Ids
  BY <1>1, MarkedTyped DEF KInv, Kept
<1> HIDE DEF d, table
<1>6. CASE ReloadHandles(table, pubFile)[i].secure = table[i].secure
  BY <1>4, <1>6 DEF d, table
<1>7. CASE \E j \in DOMAIN pubFile : pubFile[j].id = table[i].id
               /\ ReloadHandles(table, pubFile)[i].secure = pubFile[j].key
  <2>1. PICK j \in DOMAIN pubFile : pubFile[j].id = table[i].id
               /\ ReloadHandles(table, pubFile)[i].secure = pubFile[j].key
    BY <1>7
  <2>2. d \notin Displaced
    BY DEF d
  <2>3. pubFile[j].key = KeyOf(d)
    BY <1>3, <1>5, <2>1, <2>2, OwnInFile
  <2> QED BY <2>1, <2>3 DEF d, table
<1> QED BY <1>1, <1>2, <1>3, <1>6, <1>7, ReloadCases

\* AddPublickey: the other devices keep what they had, in the table and in
\* the file that exit leaves; d has its line if there is room.
LEMMA AddPublickeyKeys ==
    ASSUME KInv, NEW d \in Ids, NEW key \in Keys,
           AddPublickey(ReloadTable(pubTable, pubFile), d, key)
    PROVE  /\ UniqueKeys(pubTable') /\ UniqueKeys(pubFile') /\ UniqueKeys(unwritten')
           /\ Aligned(pubFile', pubTable')
           /\ \A e \in Ids : e # d /\ HasOwn(pubTable, e) /\ HasOwn(Filed, e)
                             /\ e \notin Displaced =>
                  HasOwn(pubTable', e) /\ HasOwn(Filed', e)
           /\ Room(ReloadTable(pubTable, pubFile), d) /\ key = KeyOf(d) =>
                  HasOwn(pubTable', d) /\ HasOwn(Filed', d)
<1> DEFINE keys == ReloadTable(pubTable, pubFile)
           new == WithKey(keys, d, key)
<1>1. /\ keys \in KeyFiles /\ UniqueKeys(keys) /\ Aligned(pubFile, keys)
      /\ \A e \in Ids : HasOwn(pubTable, e) /\ e \notin Displaced => HasOwn(keys, e)
  BY ReloadKeys
<1>2. /\ pubTable' = new
      /\ \/ ~Room(keys, d) /\ UNCHANGED <<pubFile, unwritten>>
         \/ Room(keys, d) /\ pubFile' = new /\ unwritten' = <<>>
         \/ Room(keys, d) /\ ~(Len(new) < PUBLICKEY_TABLE_SIZE)
            /\ pubFile' \in CutOff(new) /\ unwritten' = new
  BY DEF AddPublickey
<1> HIDE DEF keys
<1>3. /\ UniqueKeys(new)
      /\ Room(keys, d) => \E j \in DOMAIN new : new[j] = [id |-> d, key |-> key]
  BY <1>1, WithKeyCases
<1>4. new \in KeyFiles
  BY <1>1, WithKeyFits
<1>5. \A e \in Ids : e # d /\ HasOwn(pubTable, e) /\ e \notin Displaced =>
          HasOwn(new, e)
  BY <1>1, WithKeyKeeps
<1>6. ~Room(keys, d) => new = keys
  BY DEF WithKey, Room
<1> HIDE DEF new
<1>7. Room(keys, d) /\ key = KeyOf(d) => HasOwn(new, d)
  BY <1>3 DEF HasOwn
<1>8. UniqueKeys(<<>>) /\ Aligned(new, new)
  BY DEF UniqueKeys, Aligned
<1>9. ASSUME ~(Len(new) < PUBLICKEY_TABLE_SIZE)
      PROVE  new # <<>>
  BY <1>9, TeachInAssumption
<1>10. CASE ~Room(keys, d) /\ UNCHANGED <<pubFile, unwritten>>
  <2>1. Filed' = Filed
    BY <1>10 DEF Filed
  <2>2. UniqueKeys(pubFile') /\ UniqueKeys(unwritten') /\ Aligned(pubFile', new)
    BY <1>1, <1>6, <1>10 DEF KInv, UniqueKeys, Aligned
  <2> QED BY <1>2, <1>3, <1>5, <1>10, <2>1, <2>2
          DEF UniqueKeys, Aligned, HasOwn, keys
<1>11. CASE Room(keys, d) /\ pubFile' = new /\ unwritten' = <<>>
  <2>1. Filed' = new
    BY <1>11 DEF Filed
  <2> QED BY <1>2, <1>3, <1>5, <1>7, <1>8, <1>11, <2>1
          DEF UniqueKeys, Aligned, HasOwn
<1>12. CASE Room(keys, d) /\ ~(Len(new) < PUBLICKEY_TABLE_SIZE)
            /\ pubFile' \in CutOff(new) /\ unwritten' = new
  <2>1. Filed' = new
    BY <1>9, <1>12 DEF Filed
  <2>2. UniqueKeys(pubFile') /\ Aligned(pubFile', new)
    BY <1>3, <1>4, <1>12, CutOffKeys
  <2> QED BY <1>2, <1>3, <1>5, <1>7, <1>12, <2>1, <2>2
          DEF UniqueKeys, Aligned, HasOwn
<1> QED BY <1>2, <1>10, <1>11, <1>12

\* An encrypted teach-in gives the new device its own key, or makes it
\* doubtful, and leaves the others theirs.
LEMMA EncryptedTeachInKeepsKeys ==
    ASSUME KInv, NEW d \in Ids, NEW ok \in BOOLEAN, EncryptedTeachIn(d, ok)
    PROVE  KInv'
<1> DEFINE slot == register[SlotOf(d)]
           read == ReloadHandles(ReadCsv(nodes, control'), pubFile)
           keys == ReloadTable(pubTable, pubFile)
<1>1. IInv /\ IInv' /\ nodes \in Nodes /\ control \in Lines /\ control' \in Lines
  BY EncryptedTeachInKeeps DEF KInv, IInv, TypeOK, Nodes, Node
<1>2. /\ control' = EoSetEep(d, TRUE, ok) /\ HasSlot(d)
      /\ doubtful' = doubtful \cup Displaced \cup
             IF ok /\ ~(Complete(d) /\ Room(keys, d)) THEN {d} ELSE {}
  BY DEF EncryptedTeachIn, TeachInReadable
<1>3. slot.key \in Keys
  <2>1. SlotOf(d) \in Slots
    BY <1>2, SlotFound
  <2> QED BY <1>1, <2>1 DEF IInv, TypeOK, Entry
<1>4. read \in Nodes /\ Agrees(read, control')
  <2> DEFINE table == ReadCsv(nodes, control')
  <2>1. table \in Nodes /\ Agrees(table, control')
    BY <1>1, ReadCsvAgrees
  <2>2. pubFile \in Seq(PublicKey)
    BY <1>1 DEF IInv, TypeOK
  <2> HIDE DEF table
  <2>3. ReloadHandles(table, pubFile) \in Nodes
        /\ Agrees(ReloadHandles(table, pubFile), control')
    BY <2>1, <2>2, ReloadKeepsIds, SameIdsAgree
  <2> QED BY <2>3 DEF table
<1>5. Marked(control') = Marked(control) \cup (IF ok THEN {d} ELSE {})
  <2>1. Marked(EoSetEep(d, TRUE, ok)) = Marked(control) \cup (IF ok THEN {d} ELSE {})
    BY <1>1, MarkedAfter
  <2> QED BY <1>2, <2>1
<1>6. ASSUME NEW i \in DOMAIN control', FirstLine(control', i),
             control'[i].id \in Marked(control) \ doubtful'
      PROVE  read[i].secure = KeyOf(control'[i].id)
  <2>1. /\ i \in DOMAIN control /\ FirstLine(control, i)
        /\ control[i] = control'[i]
    BY <1>1, <1>2, <1>6, FirstAfter
  <2>2. control[i].id \in Marked(control) \ (doubtful \cup Displaced)
    BY <1>2, <1>6, <2>1
  <2> QED BY <1>1, <2>1, <2>2, ReadAgain
<1>7. ASSUME NEW e \in Marked(control) \ doubtful'
      PROVE  /\ HasOwn(pubTable, e) /\ HasOwn(Filed, e) /\ e \in Ids
             /\ e \notin Displaced
  BY <1>1, <1>2, <1>7, MarkedTyped DEF KInv, Kept
<1> HIDE DEF read, keys
<1>8. CASE ok /\ slot.status = "REGISTERED"
  <2>1. nodes' = [read EXCEPT ![GetTableId(read, d)].secure = slot.sec]
        /\ AddPublickey(keys, d, slot.key)
    BY <1>8 DEF EncryptedTeachIn, read, keys
  <2>2. d \notin doubtful' =>
            slot.key = KeyOf(d) /\ slot.sec = KeyOf(d) /\ Room(keys, d)
    BY <1>2, <1>8 DEF Complete
  <2> HIDE DEF slot
  <2>3. /\ UniqueKeys(pubTable') /\ UniqueKeys(pubFile') /\ UniqueKeys(unwritten')
        /\ Aligned(pubFile', pubTable')
        /\ \A e \in Ids : e # d /\ HasOwn(pubTable, e) /\ HasOwn(Filed, e)
                          /\ e \notin Displaced =>
               HasOwn(pubTable', e) /\ HasOwn(Filed', e)
        /\ Room(keys, d) /\ slot.key = KeyOf(d) =>
               HasOwn(pubTable', d) /\ HasOwn(Filed', d)
    <3> DEFINE key == slot.key
    <3>1. key \in Keys /\ AddPublickey(ReloadTable(pubTable, pubFile), d, key)
      BY <1>3, <2>1 DEF keys
    <3> HIDE DEF key
    <3>2. /\ UniqueKeys(pubTable') /\ UniqueKeys(pubFile') /\ UniqueKeys(unwritten')
          /\ Aligned(pubFile', pubTable')
          /\ \A e \in Ids : e # d /\ HasOwn(pubTable, e) /\ HasOwn(Filed, e)
                            /\ e \notin Displaced =>
                 HasOwn(pubTable', e) /\ HasOwn(Filed', e)
          /\ Room(ReloadTable(pubTable, pubFile), d) /\ key = KeyOf(d) =>
                 HasOwn(pubTable', d) /\ HasOwn(Filed', d)
      BY <3>1, AddPublickeyKeys
    <3> QED BY <3>2 DEF key, keys
  <2>4. ASSUME NEW e \in Marked(control') \ doubtful'
        PROVE  HasOwn(pubTable', e) /\ HasOwn(Filed', e)
    <3>1. CASE e = d
      BY <2>2, <2>3, <2>4, <3>1
    <3>2. CASE e # d
      BY <1>5, <1>7, <2>3, <2>4, <3>2
    <3> QED BY <3>1, <3>2
  <2>5. CheckTableId(read, d) /\ read[GetTableId(read, d)].id = d
    <3>1. PICK i \in DOMAIN control' : control'[i] = [id |-> d, mark |-> TRUE]
      <4>1. \E i \in DOMAIN EoSetEep(d, TRUE, ok) :
                EoSetEep(d, TRUE, ok)[i] = [id |-> d, mark |-> TRUE]
        BY <1>1, <1>8, LinesAfter
      <4> QED BY <1>2, <4>1
    <3>2. control'[i].id = d
      BY <3>1
    <3>3. CheckTableId(read, d)
      BY <1>1, <1>4, <3>2, FirstFound
    <3> QED BY <1>4, <3>3, TableIdFound
  <2>6. ASSUME NEW i \in DOMAIN control', FirstLine(control', i),
               control'[i].id \in Marked(control') \ doubtful'
        PROVE  nodes'[i].secure = KeyOf(control'[i].id)
    <3>1. i \in NodeIndex /\ read[i].id = control'[i].id /\ read[i] \in Node
      BY <1>1, <1>4, LinesIndexed DEF Agrees, Nodes
    <3>2. CASE control'[i].id = d
      <4>1. GetTableId(read, d) = i
        BY <1>1, <1>4, <2>6, <3>2, FirstFound
      <4>2. nodes'[i].secure = slot.sec
        BY <1>4, <2>1, <3>1, <4>1 DEF Nodes, Node
      <4> QED BY <2>2, <2>6, <3>2, <4>2
    <3>3. CASE control'[i].id # d
      <4>1. GetTableId(read, d) # i
        BY <2>5, <3>1, <3>3
      <4>2. nodes'[i] = read[i]
        BY <1>4, <2>1, <3>1, <4>1 DEF Nodes
      <4>3. control'[i].id \in Marked(control) \ doubtful'
        BY <1>5, <2>6, <3>3
      <4> QED BY <1>6, <2>6, <4>2, <4>3
    <3> QED BY <3>2, <3>3
  <2>7. /\ Kept(control', pubTable', doubtful') /\ Kept(control', Filed', doubtful')
        /\ Handled(control', nodes', doubtful')
    BY <2>4, <2>6 DEF Kept, Handled
  <2> QED BY <1>1, <2>3, <2>7
          DEF KInv, Kept, Handled, FirstLine, UniqueKeys, Aligned, HasOwn, Marked
<1>9. CASE ~(ok /\ slot.status = "REGISTERED")
  <2>1. nodes' = read /\ pubTable' = keys /\ UNCHANGED <<pubFile, unwritten>>
    BY <1>9 DEF EncryptedTeachIn, read, keys
  <2>2. ok => d \in doubtful'
    BY <1>2, <1>9 DEF Complete
  <2>3. Marked(control') \ doubtful' \subseteq Marked(control) \ doubtful'
    BY <1>5, <2>2
  <2>4. /\ UniqueKeys(keys) /\ Aligned(pubFile, keys)
        /\ \A e \in Ids : HasOwn(pubTable, e) /\ e \notin Displaced => HasOwn(keys, e)
    BY ReloadKeys DEF keys
  <2>5. Filed' = Filed
    BY <2>1 DEF Filed
  <2>6. /\ Kept(control', keys, doubtful') /\ Kept(control', Filed, doubtful')
        /\ Handled(control', read, doubtful')
    BY <1>6, <1>7, <2>3, <2>4 DEF Kept, Handled
  <2> HIDE DEF slot
  <2> QED BY <1>1, <2>1, <2>4, <2>5, <2>6
          DEF KInv, Kept, Handled, FirstLine, UniqueKeys, Aligned, HasOwn, Marked
<1> QED BY <1>8, <1>9

\* The main thread's commands: a device whose line is marked while the keys
\* are being deleted is doubtful.
LEMMA MainKeepsKeys ==
    ASSUME KInv, Main
    PROVE  KInv'
<1>1. IInv /\ IInv' /\ nodes \in Nodes
  BY MainKeeps DEF KInv, IInv, TypeOK, Nodes, Node
<1>2. /\ Marked(<<>>) = {} /\ UniqueKeys(<<>>)
      /\ \A t : Aligned(<<>>, t)
  BY DEF Marked, UniqueKeys, Aligned
<1>3. ASSUME NEW all \in BOOLEAN, EoClearControl(all)
      PROVE  KInv'
  <2>1. control' = <<>> /\ UNCHANGED <<pubTable, pubFile, unwritten>>
    BY <1>3 DEF EoClearControl
  <2>2. /\ Kept(control', pubTable, doubtful') /\ Kept(control', Filed, doubtful')
        /\ Handled(control', nodes', doubtful')
    BY <1>2, <2>1 DEF Kept, Handled
  <2> QED BY <1>1, <2>1, <2>2
          DEF KInv, Filed, Kept, Handled, FirstLine, UniqueKeys, Aligned, HasOwn,
              Marked
<1>4. ASSUME Marked(control) \subseteq doubtful', UNCHANGED control
      PROVE  /\ Kept(control', pubTable', doubtful') /\ Kept(control', Filed', doubtful')
             /\ Handled(control', nodes', doubtful')
  BY <1>4 DEF Kept, Handled
<1>5. CASE DeletePublickey
  <2>1. /\ pubTable' = <<>> /\ UNCHANGED <<control, pubFile, unwritten>>
        /\ Marked(control) \subseteq doubtful'
    BY <1>5 DEF DeletePublickey
  <2> QED BY <1>1, <1>2, <1>4, <2>1
          DEF KInv, Kept, Handled, FirstLine, UniqueKeys, HasOwn, Marked
<1>6. CASE UnlinkPublickey
  <2>1. /\ pubFile' = <<>> /\ unwritten' = <<>> /\ UNCHANGED <<control, pubTable>>
        /\ Marked(control) \subseteq doubtful'
    BY <1>6 DEF UnlinkPublickey
  <2> QED BY <1>1, <1>2, <1>4, <2>1
          DEF KInv, Kept, Handled, FirstLine, UniqueKeys, Aligned, HasOwn, Marked
<1>7. CASE ClearAndRegister
  BY <1>1, <1>7, TableHandles, KeysUntouched DEF ClearAndRegister
<1>8. ASSUME NEW m \in BOOLEAN, ChangeMode(m)
      PROVE  KInv'
  BY <1>1, <1>8, KeysUntouched DEF ChangeMode
<1>9. CASE ChangeToOperation
  BY <1>1, <1>9, KeysUntouched DEF ChangeToOperation
<1>10. CASE EoReadControl
  BY <1>1, <1>10, TableHandles, KeysUntouched DEF EoReadControl
<1> QED BY <1>3, <1>5, <1>6, <1>7, <1>8, <1>9, <1>10 DEF Main

\* Every start finds the keys of the marked devices that are not doubtful.
LEMMA RestartsKeepKeys ==
    ASSUME KInv, Restarts
    PROVE  KInv'
<1>1. /\ IInv /\ IInv' /\ control \in Lines /\ pubFile \in KeyFiles
      /\ Filed \in KeyFiles /\ UniqueKeys(pubFile) /\ UniqueKeys(Filed)
  BY RestartsKeep DEF KInv, IInv, Filed
<1>2. /\ <<>> \in Lines /\ <<>> \in KeyFiles /\ UniqueKeys(<<>>)
      /\ \A f, D : Kept(<<>>, f, D)
  BY TeachInAssumption DEF Lines, KeyFiles, UniqueKeys, Kept, Marked
<1>3. ASSUME NEW e \in Marked(control) \ (doubtful \cup Lost(unwritten, pubFile))
      PROVE  HasOwn(pubFile, e)
  <2>1. HasOwn(Filed, e) /\ e \in Ids
    BY <1>1, <1>3, MarkedTyped DEF KInv, Kept
  <2>2. CASE unwritten = <<>>
    BY <2>1, <2>2 DEF Filed
  <2>3. CASE unwritten # <<>>
    <3>1. HasOwn(unwritten, e)
      BY <2>1, <2>3 DEF Filed
    <3> QED BY <1>3, <2>1, <3>1, NotLost
  <2> QED BY <2>2, <2>3
<1>4. CASE RestartClear
  <2>1. Start(TRUE, <<>>, <<>>)
    BY <1>4 DEF RestartClear
  <2> QED BY <1>1, <1>2, <2>1, StartKeepsKeys
<1>5. ASSUME NEW m \in BOOLEAN, Restart(m)
      PROVE  KInv'
  <2>1. Start(m, control, Filed) /\ doubtful' = doubtful
    BY <1>5 DEF Restart
  <2>2. Kept(control, Filed, doubtful')
    BY <2>1 DEF KInv
  <2> QED BY <1>1, <2>1, <2>2, StartKeepsKeys
<1>6. ASSUME NEW m \in BOOLEAN, PowerLoss(m)
      PROVE  KInv'
  <2>1. /\ Start(m, control, pubFile)
        /\ doubtful' = doubtful \cup Lost(unwritten, pubFile)
    BY <1>6 DEF PowerLoss
  <2>2. Kept(control, pubFile, doubtful')
    BY <1>3, <2>1 DEF Kept
  <2> QED BY <1>1, <2>1, <2>2, StartKeepsKeys
<1>7. ASSUME NEW m \in BOOLEAN, NEW d \in Ids, PowerLossInTeachIn(m, d)
      PROVE  KInv'
  <2> DEFINE c == EoSetEep(d, TRUE, TRUE)
             slot == register[SlotOf(d)]
             keys == ReloadTable(pubTable, pubFile)
             key == slot.key
             new == WithKey(keys, d, key)
  <2>1. NewIdComming(d) /\ HasSlot(d)
    BY <1>7 DEF PowerLossInTeachIn, TeachInReadable
  <2>2. c \in Lines
    BY <1>1, <2>1, NewLine
  <2>3. Marked(c) = Marked(control) \cup {d}
    BY <1>1, MarkedAfter
  <2>4. key \in Keys
    BY <1>1, <2>1, SlotFound DEF IInv, TypeOK, Entry
  <2>5. /\ keys \in KeyFiles /\ UniqueKeys(keys)
        /\ \A e \in Ids : HasOwn(pubTable, e) /\ e \notin Displaced => HasOwn(keys, e)
    BY ReloadKeys
  <2>6. \/ /\ Start(m, c, pubFile)
           /\ doubtful' = doubtful \cup {d} \cup Lost(unwritten, pubFile)
        \/ \E f \in CutOff(new) :
               /\ Start(m, c, f)
               /\ doubtful' = doubtful \cup {d} \cup Displaced \cup Lost(new, f)
    BY <1>7 DEF PowerLossInTeachIn
  <2> HIDE DEF key, keys, c
  <2>7. new \in KeyFiles /\ UniqueKeys(new)
    BY <2>4, <2>5, WithKeyFits, WithKeyCases
  <2>8. \A e \in Ids : e # d /\ HasOwn(keys, e) => HasOwn(new, e)
    BY <2>4, <2>5, WithKeyKeeps
  <2> HIDE DEF new
  <2>9. CASE /\ Start(m, c, pubFile)
             /\ doubtful' = doubtful \cup {d} \cup Lost(unwritten, pubFile)
    <3>1. Kept(c, pubFile, doubtful')
      BY <1>3, <2>3, <2>9 DEF Kept
    <3> QED BY <1>1, <2>2, <2>9, <3>1, StartKeepsKeys
  <2>10. ASSUME NEW f \in CutOff(new), Start(m, c, f),
                doubtful' = doubtful \cup {d} \cup Displaced \cup Lost(new, f)
         PROVE  KInv'
    <3>1. f \in KeyFiles /\ UniqueKeys(f)
      BY <2>7, CutOffFits, CutOffKeys
    <3>2. ASSUME NEW e \in Marked(c) \ doubtful'
          PROVE  HasOwn(f, e)
      <4>1. e \in Marked(control) /\ e \notin doubtful /\ e # d
            /\ e \notin Displaced /\ e \notin Lost(new, f)
        BY <2>3, <2>10, <3>2
      <4>2. HasOwn(pubTable, e) /\ e \in Ids
        BY <1>1, <4>1, MarkedTyped DEF KInv, Kept
      <4>3. HasOwn(new, e)
        BY <2>5, <2>8, <4>1, <4>2
      <4> QED BY <4>1, <4>2, <4>3, NotLost
    <3>3. Kept(c, f, doubtful')
      BY <3>2 DEF Kept
    <3> QED BY <1>1, <2>2, <2>10, <3>1, <3>3, StartKeepsKeys
  <2> QED BY <2>6, <2>9, <2>10
<1> QED BY <1>4, <1>5, <1>6, <1>7 DEF Restarts

LEMMA KInv_Init == Init => KInv
<1> SUFFICES ASSUME Init
             PROVE  KInv
  OBVIOUS
<1>1. /\ control = <<>> /\ pubTable = <<>> /\ pubFile = <<>> /\ unwritten = <<>>
      /\ Filed = <<>>
  BY DEF Init, Filed
<1>2. Marked(<<>>) = {} /\ UniqueKeys(<<>>)
  BY DEF Marked, UniqueKeys
<1> QED BY <1>1, <1>2, Inv_Init DEF KInv, Kept, Handled

LEMMA KInv_Next == KInv /\ [Next]_vars => KInv'
<1> SUFFICES ASSUME KInv, [Next]_vars
             PROVE  KInv'
  OBVIOUS
<1>1. IInv'
  BY Inv_Next DEF KInv
<1>2. CASE MainJob
  <2>1. PICK d \in Ids :
            \/ FirstTeachIn(d) \/ SecureTelegram(d)
            \/ \E ok \in BOOLEAN : LongTeachIn(d, ok) \/ SecondTeachIn(d, ok)
            \/ \E ok \in BOOLEAN : PlainTeachIn(d, ok)
            \/ \E ok \in BOOLEAN : EncryptedTeachIn(d, ok)
    BY <1>2 DEF MainJob
  <2>2. CASE FirstTeachIn(d) \/ SecureTelegram(d)
             \/ \E ok \in BOOLEAN : LongTeachIn(d, ok) \/ SecondTeachIn(d, ok)
    BY <1>1, <2>2, KeysUntouched
    DEF FirstTeachIn, SecureTelegram, LongTeachIn, SecondTeachIn
  <2> QED BY <2>1, <2>2, PlainTeachInKeepsKeys, EncryptedTeachInKeepsKeys
<1>3. CASE UNCHANGED vars
  BY <1>1, <1>3, KeysUntouched DEF vars
<1> QED BY <1>2, <1>3, MainKeepsKeys, RestartsKeepKeys DEF Next

LEMMA KeysInvariance == Spec => []KInv
<1> QED BY KInv_Init, KInv_Next, PTL DEF Spec

\* A device that is marked in the control file, and not doubtful, has its own
\* key in the file, and in its node while table and file agree, through any
\* teach-ins, steps of the commands, restarts and losses of power.
THEOREM KeysSurvive == Spec => []MarkedHasKey
<1> QED BY KeysInvariance, KInv_Implied, PTL

\* A node with a handle and without a public key belongs to a device without
\* a marked line or to a doubtful one, so that no other makes MainJob
\* dereference a missing key, whatever is taught in between two steps of a
\* clearing.
THEOREM NullKeysNamed == Spec => []NullKeyCases
<1> QED BY KeysInvariance, KInv_Implied, PTL
=============================================================================
