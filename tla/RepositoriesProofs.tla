--------------------------- MODULE RepositoriesProofs --------------------------
(***************************************************************************)
(* Theorems of Repositories, for any rows, ids and bounds, and any order   *)
(* of calls.                                                               *)
(***************************************************************************)
EXTENDS Repositories, TLAPS

\* The script's ids are below the ones AUTOINCREMENT gives out.
SeedsBelowSequence == \A t \in ReferenceTables : Len(Seeds[t]) <= sequence[t]

\* ux_Connection_peer.
OneRowPerPeer ==
    \A i, j \in Ids("Connection") :
        PeerKey(table["Connection"][i]) = PeerKey(table["Connection"][j]) => i = j

IInv ==
    /\ TypeOK
    /\ SeedsBelowSequence
    /\ ForeignKeysHold
    /\ OneRowPerPeer

--------------------------------------------------------------------------------
LEMMA SeedsDomain ==
    \A t \in ReferenceTables : Len(Seeds[t]) \in Nat /\ DOMAIN Seeds[t] = 1 .. Len(Seeds[t])
<1>1. Len(Seeds["MessageType"]) = 2 /\ DOMAIN Seeds["MessageType"] = 1 .. 2
  <2>1. Seeds["MessageType"] = <<"RAW_DATA", "FILE">>
    BY DEF Seeds
  <2> QED
    BY <2>1
<1>2. Len(Seeds["MessageStatus"]) = 2 /\ DOMAIN Seeds["MessageStatus"] = 1 .. 2
  <2>1. Seeds["MessageStatus"] = <<"SUCCESS", "FAILED">>
    BY DEF Seeds
  <2> QED
    BY <2>1
<1>3. Len(Seeds["MessageDirection"]) = 2 /\ DOMAIN Seeds["MessageDirection"] = 1 .. 2
  <2>1. Seeds["MessageDirection"] = <<"OUTBOUND", "INBOUND">>
    BY DEF Seeds
  <2> QED
    BY <2>1
<1>4. Len(Seeds["ConnectionRole"]) = 4 /\ DOMAIN Seeds["ConnectionRole"] = 1 .. 4
  <2>1. Seeds["ConnectionRole"] = <<"SERVER", "CLIENT", "MASTER", "SLAVE">>
    BY DEF Seeds
  <2> QED
    BY <2>1
<1> QED
  BY <1>1, <1>2, <1>3, <1>4 DEF ReferenceTables

\* Reference tables refer to nothing; a foreign key refers to a table.
LEMMA ReferencesType ==
    /\ \A t \in ReferenceTables : References(t) = {}
    /\ \A t \in Tables : \A ref \in References(t) : ref[2] \in Tables
BY DEF References, Tables, ReferenceTables

--------------------------------------------------------------------------------
(***************************************************************************)
(* What a statement does to the rows.                                      *)
(***************************************************************************)
\* A row put into t is there afterwards, and every other row as before.
LEMMA PutRow ==
    ASSUME TypeOK, NEW t \in Tables, NEW id, NEW row, Put(t, id, row)
    PROVE  /\ DOMAIN table' = Tables
           /\ Ids(t)' = Ids(t) \cup {id}
           /\ table'[t][id] = row
           /\ \A i \in Ids(t) \ {id} : table'[t][i] = table[t][i]
           /\ \A s \in Tables \ {t} : table'[s] = table[s]
BY DEF TypeOK, Put, Ids

LEMMA PutKeepsReferences ==
    ASSUME TypeOK, ForeignKeysHold, NEW t \in Tables, NEW id, NEW row,
           Valid(t, id, row), Put(t, id, row)
    PROVE  ForeignKeysHold'
<1>1. \A s \in Tables : Ids(s) \subseteq Ids(s)'
  BY PutRow DEF Ids
<1>2. \A ref \in References(t) : row[ref[1]] \in Ids(ref[2])'
  BY <1>1, ReferencesType DEF Valid
<1>3. \A s \in Tables : \A i \in Ids(s) : \A ref \in References(s) :
        table[s][i][ref[1]] \in Ids(ref[2])'
  BY <1>1, ReferencesType DEF ForeignKeysHold
<1> SUFFICES ASSUME NEW s \in Tables, NEW i \in Ids(s)', NEW ref \in References(s)
             PROVE  table'[s][i][ref[1]] \in Ids(ref[2])'
  BY DEF ForeignKeysHold, References
<1>4. CASE s = t /\ i = id
  BY <1>2, <1>4, PutRow
<1>5. CASE s = t /\ i # id
  BY <1>3, <1>5, PutRow
<1>6. CASE s # t
  BY <1>3, <1>6, PutRow DEF Ids
<1> QED
  BY <1>4, <1>5, <1>6

LEMMA PutKeepsPeers ==
    ASSUME TypeOK, OneRowPerPeer, NEW t \in Tables, NEW id, NEW row,
           Valid(t, id, row), Put(t, id, row)
    PROVE  OneRowPerPeer'
<1>1. CASE t = "Connection"
  <2> DEFINE key == [i \in Ids(t)' |-> PeerKey(table'[t][i])]
  <2>1. \A i \in Ids(t) \ {id} : key[i] = PeerKey(table[t][i]) /\ i \in Ids(t)'
    BY PutRow
  <2>2. key[id] = PeerKey(row) /\ id \in Ids(t)'
    BY PutRow
  <2>3. \A i \in Ids(t) \ {id} : key[i] # key[id]
    BY <1>1, <2>1, <2>2 DEF Valid
  <2>4. \A i, j \in Ids(t) \ {id} : key[i] = key[j] => i = j
    BY <1>1, <2>1 DEF OneRowPerPeer
  <2>5. Ids(t)' = (Ids(t) \ {id}) \cup {id}
    BY PutRow
  <2>6. \A i, j \in Ids(t)' : key[i] = key[j] => i = j
    <3> HIDE DEF key
    <3> QED
      BY <2>3, <2>4, <2>5
  <2> QED
    BY <1>1, <2>6 DEF OneRowPerPeer, PeerKey
<1>2. CASE t # "Connection"
  <2>1. table'["Connection"] = table["Connection"]
    BY <1>2, PutRow DEF Tables
  <2> QED
    BY <2>1 DEF OneRowPerPeer, Ids, PeerKey
<1> QED
  BY <1>1, <1>2

LEMMA PutKeepsType ==
    ASSUME TypeOK, SeedsBelowSequence, NEW t \in Tables, NEW id, NEW row \in Arguments[t],
           Put(t, id, row),
           sequence' \in [Tables -> Nat], id \in 1 .. sequence'[t],
           \A s \in Tables : sequence[s] <= sequence'[s],
           DOMAIN result' = {"call", "table", "argument", "ret"}
    PROVE  TypeOK' /\ SeedsBelowSequence'
<1>1. \A s \in Tables : sequence[s] \in Nat /\ sequence'[s] \in Nat
  BY DEF TypeOK
<1>2. ASSUME NEW s \in Tables
      PROVE  Ids(s)' \subseteq 1 .. sequence'[s]
  <2>1. Ids(s) \subseteq 1 .. sequence[s]
    BY DEF TypeOK
  <2>2. 1 .. sequence[s] \subseteq 1 .. sequence'[s]
    BY <1>1
  <2>3. Ids(s)' \subseteq Ids(s) \cup (IF s = t THEN {id} ELSE {})
    BY PutRow DEF Ids
  <2> QED
    BY <2>1, <2>2, <2>3
<1>3. ASSUME NEW s \in Tables, NEW i \in Ids(s)'
      PROVE  \/ table'[s][i] \in Arguments[s]
             \/ s \in ReferenceTables /\ table'[s][i].name = Seeds[s][i]
  <2>1. CASE s = t /\ i = id
    BY <2>1, PutRow
  <2>2. CASE ~ (s = t /\ i = id)
    <3>1. i \in Ids(s) /\ table'[s][i] = table[s][i]
      BY <2>2, PutRow DEF Ids
    <3> QED
      BY <3>1 DEF TypeOK
  <2> QED
    BY <2>1, <2>2
<1>4. SeedsBelowSequence'
  BY <1>1, SeedsDomain DEF SeedsBelowSequence, Tables
<1> QED
  BY <1>2, <1>3, <1>4, PutRow DEF TypeOK

LEMMA ReturnsRecord ==
    ASSUME NEW call, NEW t, NEW arg, NEW ret, Returns(call, t, arg, ret)
    PROVE  /\ DOMAIN result' = {"call", "table", "argument", "ret"}
           /\ result'.call = call /\ result'.argument = arg /\ result'.ret = ret
BY DEF Returns

\* A call that changes no row.
LEMMA UnchangedRows ==
    ASSUME IInv, UNCHANGED <<table, sequence>>,
           DOMAIN result' = {"call", "table", "argument", "ret"}
    PROVE  IInv'
BY DEF IInv, TypeOK, SeedsBelowSequence, ForeignKeysHold, OneRowPerPeer, Ids, PeerKey

LEMMA InsertStep ==
    ASSUME IInv, NEW call, NEW t \in Tables, NEW row \in Arguments[t], InsertRow(call, t, row)
    PROVE  IInv'
<1> DEFINE id == sequence[t] + 1
<1>1. CASE /\ Valid(t, id, row) /\ Put(t, id, row)
           /\ sequence' = [sequence EXCEPT ![t] = id]
           /\ Returns(call, t, row, id)
  <2>1. /\ sequence' \in [Tables -> Nat] /\ id \in 1 .. sequence'[t]
        /\ \A s \in Tables : sequence[s] <= sequence'[s]
    BY <1>1 DEF IInv, TypeOK
  <2>2. DOMAIN result' = {"call", "table", "argument", "ret"}
    BY <1>1, ReturnsRecord
  <2>3. Valid(t, id, row) /\ Put(t, id, row)
    BY <1>1
  <2> HIDE DEF id
  <2>4. TypeOK' /\ SeedsBelowSequence'
    BY <2>1, <2>2, <2>3, PutKeepsType DEF IInv
  <2> QED
    BY <2>3, <2>4, PutKeepsReferences, PutKeepsPeers DEF IInv
<1>2. CASE Returns(call, t, row, -1) /\ UNCHANGED <<table, sequence>>
  BY <1>2, ReturnsRecord, UnchangedRows
<1> QED
  BY <1>1, <1>2 DEF InsertRow

LEMMA UpdateStep ==
    ASSUME IInv, NEW t \in Tables, NEW id, NEW row \in Arguments[t], UpdateRow(t, id, row)
    PROVE  IInv'
<1>1. DOMAIN result' = {"call", "table", "argument", "ret"}
  BY ReturnsRecord DEF UpdateRow
<1>2. CASE id \in Ids(t) /\ Valid(t, id, row) /\ Put(t, id, row)
  <2>1. sequence' = sequence
    BY DEF UpdateRow
  <2>2. /\ sequence' \in [Tables -> Nat] /\ id \in 1 .. sequence'[t]
        /\ \A s \in Tables : sequence[s] <= sequence'[s]
    BY <1>2, <2>1 DEF IInv, TypeOK
  <2>3. TypeOK' /\ SeedsBelowSequence'
    BY <1>1, <1>2, <2>2, PutKeepsType DEF IInv
  <2> QED
    BY <1>2, <2>3, PutKeepsReferences, PutKeepsPeers DEF IInv
<1>3. CASE UNCHANGED <<table, sequence>>
  BY <1>1, <1>3, UnchangedRows
<1> QED
  BY <1>2, <1>3 DEF UpdateRow

\* Only a row that nothing refers to is deleted.
LEMMA DeleteStep ==
    ASSUME IInv, NEW t \in Tables, NEW id, DeleteRow(t, id)
    PROVE  IInv'
<1>1. DOMAIN result' = {"call", "table", "argument", "ret"}
  BY ReturnsRecord DEF DeleteRow
<1>2. CASE /\ ~ Referenced(t, id)
           /\ table' = [table EXCEPT ![t] = [i \in Ids(t) \ {id} |-> table[t][i]]]
  <2>1. DOMAIN table = Tables /\ sequence' = sequence
    BY DEF IInv, TypeOK, DeleteRow
  <2>2. /\ DOMAIN table' = Tables
        /\ \A s \in Tables : \A i : i \in Ids(s)' <=> i \in Ids(s) /\ ~ (s = t /\ i = id)
        /\ \A s \in Tables : \A i \in Ids(s)' : table'[s][i] = table[s][i]
    BY <1>2, <2>1 DEF Ids
  <2>3. TypeOK'
    BY <1>1, <2>1, <2>2 DEF IInv, TypeOK
  <2>4. SeedsBelowSequence'
    BY <2>1 DEF IInv, SeedsBelowSequence
  <2>5. ForeignKeysHold'
    <3> SUFFICES ASSUME NEW s \in Tables, NEW i \in Ids(s)', NEW ref \in References(s)
                 PROVE  table'[s][i][ref[1]] \in Ids(ref[2])'
      BY DEF ForeignKeysHold, References
    <3>1. i \in Ids(s) /\ table'[s][i] = table[s][i]
      BY <2>2
    <3>2. table[s][i][ref[1]] \in Ids(ref[2]) /\ ref[2] \in Tables
      BY <3>1, ReferencesType DEF IInv, ForeignKeysHold
    <3>3. ~ (ref[2] = t /\ table[s][i][ref[1]] = id)
      BY <1>2, <3>1 DEF Referenced
    <3> QED
      BY <2>2, <3>1, <3>2, <3>3
  <2>6. OneRowPerPeer'
    <3>1. \A i \in Ids("Connection")' :
            i \in Ids("Connection") /\ table'["Connection"][i] = table["Connection"][i]
      BY <2>2 DEF Tables
    <3> QED
      BY <3>1 DEF IInv, OneRowPerPeer, PeerKey
  <2> QED
    BY <2>3, <2>4, <2>5, <2>6 DEF IInv
<1>3. CASE UNCHANGED <<table, sequence>>
  BY <1>1, <1>3, UnchangedRows
<1> QED
  BY <1>2, <1>3 DEF DeleteRow

\* The script adds seed rows that are missing and touches nothing else.
LEMMA SeededRows ==
    ASSUME NEW rows, NEW seeded, seeded = Seeded(rows)
    PROVE  /\ DOMAIN seeded = Tables
           /\ \A t \in Tables \ ReferenceTables : seeded[t] = rows[t]
           /\ \A t \in ReferenceTables :
                /\ DOMAIN seeded[t] = DOMAIN rows[t] \cup DOMAIN Seeds[t]
                /\ \A i \in DOMAIN rows[t] : seeded[t][i] = rows[t][i]
                /\ \A i \in DOMAIN Seeds[t] \ DOMAIN rows[t] : seeded[t][i].name = Seeds[t][i]
<1>1. seeded = [t \in Tables |->
        IF t \in ReferenceTables
        THEN [i \in DOMAIN rows[t] \cup DOMAIN Seeds[t] |->
                IF i \in DOMAIN rows[t] THEN rows[t][i] ELSE [name |-> Seeds[t][i]]]
        ELSE rows[t]]
  BY DEF Seeded
<1>2. ReferenceTables \subseteq Tables
  BY DEF Tables
<1> QED
  BY <1>1, <1>2

LEMMA OpenStep ==
    ASSUME IInv, DatabaseOpen
    PROVE  IInv'
<1>1. DOMAIN result' = {"call", "table", "argument", "ret"} /\ sequence' = sequence
  BY ReturnsRecord DEF DatabaseOpen
<1>2. table' = Seeded(table)
  BY DEF DatabaseOpen
<1>3. \A s \in Tables : Ids(s) \subseteq Ids(s)' /\ \A i \in Ids(s) : table'[s][i] = table[s][i]
  BY <1>2, SeededRows DEF Ids
<1>4. ASSUME NEW s \in Tables, NEW i \in Ids(s)', i \notin Ids(s)
      PROVE  s \in ReferenceTables /\ i \in DOMAIN Seeds[s] /\ table'[s][i].name = Seeds[s][i]
  BY <1>2, <1>4, SeededRows DEF Ids
<1>5. ASSUME NEW s \in ReferenceTables
      PROVE  DOMAIN Seeds[s] \subseteq 1 .. sequence[s]
  <2>1. Len(Seeds[s]) <= sequence[s] /\ sequence[s] \in Nat
    BY DEF IInv, SeedsBelowSequence, TypeOK, Tables
  <2> QED
    BY <2>1, SeedsDomain
<1>6. TypeOK'
  <2>1. DOMAIN table' = Tables
    BY <1>2, SeededRows
  <2>2. ASSUME NEW s \in Tables, NEW i \in Ids(s)'
        PROVE  /\ i \in 1 .. sequence[s]
               /\ \/ table'[s][i] \in Arguments[s]
                  \/ s \in ReferenceTables /\ table'[s][i].name = Seeds[s][i]
    <3>1. CASE i \in Ids(s)
      BY <1>3, <3>1 DEF IInv, TypeOK
    <3>2. CASE i \notin Ids(s)
      BY <1>4, <1>5, <3>2
    <3> QED
      BY <3>1, <3>2
  <2> QED
    BY <1>1, <2>1, <2>2 DEF IInv, TypeOK
<1>7. SeedsBelowSequence'
  BY <1>1 DEF IInv, SeedsBelowSequence
<1>8. ForeignKeysHold'
  <2> SUFFICES ASSUME NEW s \in Tables, NEW i \in Ids(s)', NEW ref \in References(s)
               PROVE  table'[s][i][ref[1]] \in Ids(ref[2])'
    BY DEF ForeignKeysHold, References
  <2>1. i \in Ids(s)
    BY <1>4, ReferencesType
  <2> QED
    BY <1>3, <2>1, ReferencesType DEF IInv, ForeignKeysHold
<1>9. OneRowPerPeer'
  <2>1. table'["Connection"] = table["Connection"]
    BY <1>2, SeededRows DEF Tables, ReferenceTables
  <2> QED
    BY <2>1 DEF IInv, OneRowPerPeer, Ids, PeerKey
<1> QED
  BY <1>6, <1>7, <1>8, <1>9 DEF IInv

LEMMA RepositoryStep ==
    ASSUME IInv, NEW t \in Tables, Repository(t)
    PROVE  IInv'
<1>1. CASE \E row \in Arguments[t] : InsertRow("insert", t, row)
  BY <1>1, InsertStep
<1>2. CASE \E row \in Arguments[t] : \E id \in AskedIds[t] : UpdateRow(t, id, row)
  BY <1>2, UpdateStep
<1>3. CASE \E id \in AskedIds[t] : DeleteRow(t, id)
  BY <1>3, DeleteStep
<1>4. CASE \E id \in AskedIds[t] : GetRow(t, id)
  BY <1>4, ReturnsRecord, UnchangedRows DEF GetRow
<1>5. CASE GetAllRows(t)
  BY <1>5, ReturnsRecord, UnchangedRows DEF GetAllRows
<1> QED
  BY <1>1, <1>2, <1>3, <1>4, <1>5 DEF Repository

\* Every call is one on a table, or one of the three that are not Repository's.
LEMMA Calls ==
    ASSUME Next
    PROVE  \/ DatabaseOpen
           \/ \E t \in Tables : Repository(t)
           \/ \E key \in Arguments["Connection"] : ConnectionGetOrCreate(key)
           \/ MessageGetLastSuccessful
BY DEF Next, MessageTypeRepository, MessageStatusRepository, MessageDirectionRepository,
       ConnectionRoleRepository, NamedConnectionRepository, ConnectionRepository,
       MessageRepository, Tables, ReferenceTables

\* Only get_or_create says so.
LEMMA GetOrCreateCalled ==
    ASSUME Next, result'.call = "get_or_create"
    PROVE  \E key \in Arguments["Connection"] : ConnectionGetOrCreate(key)
<1>1. ~ DatabaseOpen /\ ~ MessageGetLastSuccessful
  BY ReturnsRecord DEF DatabaseOpen, MessageGetLastSuccessful
<1>2. ASSUME NEW t \in Tables, Repository(t)
      PROVE  FALSE
  <2>1. \A row : ~ InsertRow("insert", t, row)
    BY ReturnsRecord DEF InsertRow
  <2>2. \A id, row : ~ UpdateRow(t, id, row)
    BY ReturnsRecord DEF UpdateRow
  <2>3. \A id : ~ DeleteRow(t, id)
    BY ReturnsRecord DEF DeleteRow
  <2>4. \A id : ~ GetRow(t, id)
    BY ReturnsRecord DEF GetRow
  <2>5. ~ GetAllRows(t)
    <3>1. \A ret : ~ Returns("get_all", t, NULL, ret)
      BY ReturnsRecord
    <3> QED
      BY <3>1 DEF GetAllRows
  <2> QED
    BY <1>2, <2>1, <2>2, <2>3, <2>4, <2>5 DEF Repository
<1> QED
  BY <1>1, <1>2, Calls

LEMMA InitInvariant == Init => IInv
<1> SUFFICES ASSUME Init
             PROVE  IInv
  OBVIOUS
<1> DEFINE none == [t \in Tables |-> <<>>]
<1>1. table = Seeded(none) /\ \A t \in Tables : none[t] = <<>> /\ DOMAIN none[t] = {}
  BY DEF Init
<1> HIDE DEF none
<1>2. /\ DOMAIN table = Tables
      /\ \A t \in Tables \ ReferenceTables : Ids(t) = {}
      /\ \A t \in ReferenceTables :
            Ids(t) = DOMAIN Seeds[t] /\ \A i \in Ids(t) : table[t][i].name = Seeds[t][i]
  <2>1. ReferenceTables \subseteq Tables
    BY DEF Tables
  <2>2. DOMAIN table = Tables /\ \A t \in Tables \ ReferenceTables : table[t] = none[t]
    BY <1>1, SeededRows
  <2>3. ASSUME NEW t \in ReferenceTables
        PROVE  DOMAIN table[t] = DOMAIN Seeds[t]
               /\ \A i \in DOMAIN Seeds[t] : table[t][i].name = Seeds[t][i]
    <3>1. DOMAIN none[t] = {}
      BY <1>1, <2>1
    <3>2. /\ DOMAIN table[t] = DOMAIN none[t] \cup DOMAIN Seeds[t]
          /\ \A i \in DOMAIN Seeds[t] \ DOMAIN none[t] : table[t][i].name = Seeds[t][i]
      BY <1>1, SeededRows
    <3> QED
      BY <3>1, <3>2
  <2> QED
    BY <1>1, <2>2, <2>3 DEF Ids
<1>3. /\ sequence \in [Tables -> Nat]
      /\ \A t \in ReferenceTables : sequence[t] = Len(Seeds[t])
  BY SeedsDomain DEF Init, Tables
<1>4. TypeOK
  <2>1. DOMAIN result = {"call", "table", "argument", "ret"}
    BY DEF Init
  <2>2. ASSUME NEW t \in Tables
        PROVE  /\ Ids(t) \subseteq 1 .. sequence[t]
               /\ \A i \in Ids(t) : \/ table[t][i] \in Arguments[t]
                                    \/ t \in ReferenceTables /\ table[t][i].name = Seeds[t][i]
    BY <1>2, <1>3, SeedsDomain
  <2> QED
    BY <1>2, <1>3, <2>1, <2>2 DEF TypeOK
<1>5. SeedsBelowSequence
  BY <1>3, SeedsDomain DEF SeedsBelowSequence
<1>6. ForeignKeysHold
  BY <1>2, ReferencesType DEF ForeignKeysHold
<1>7. OneRowPerPeer
  BY <1>2 DEF OneRowPerPeer, Tables, ReferenceTables
<1> QED
  BY <1>4, <1>5, <1>6, <1>7 DEF IInv

--------------------------------------------------------------------------------
(***************************************************************************)
(* The theorems.                                                           *)
(***************************************************************************)
LEMMA Invariance == Spec => []IInv
<1>1. IInv /\ [Next]_vars => IInv'
  <2> SUFFICES ASSUME IInv, [Next]_vars
               PROVE  IInv'
    OBVIOUS
  <2>1. CASE DatabaseOpen
    BY <2>1, OpenStep
  <2>2. CASE \E t \in Tables : Repository(t)
    BY <2>2, RepositoryStep
  <2>3. ASSUME NEW key \in Arguments["Connection"], ConnectionGetOrCreate(key)
        PROVE  IInv'
    <3>1. CASE InsertRow("get_or_create", "Connection", key)
      BY <3>1, InsertStep DEF Tables
    <3>2. CASE ~ InsertRow("get_or_create", "Connection", key)
      BY <2>3, <3>2, ReturnsRecord, UnchangedRows DEF ConnectionGetOrCreate
    <3> QED
      BY <3>1, <3>2
  <2>4. CASE MessageGetLastSuccessful
    BY <2>4, ReturnsRecord, UnchangedRows DEF MessageGetLastSuccessful
  <2>5. CASE UNCHANGED vars
    <3>1. DOMAIN result' = {"call", "table", "argument", "ret"}
      BY <2>5 DEF vars, IInv, TypeOK
    <3> QED
      BY <2>5, <3>1, UnchangedRows DEF vars
  <2> QED
    BY <2>1, <2>2, <2>3, <2>4, <2>5, Calls
<1> QED
  BY <1>1, InitInvariant, PTL DEF Spec

\* The tables stay tables of the rows that were given to them, under ids that were given out.
THEOREM TypeInvariant == Spec => []TypeOK
<1>1. IInv => TypeOK
  BY DEF IInv
<1> QED
  BY <1>1, Invariance, PTL

\* However long the history and its editing go on, no row points at one that is gone.
THEOREM ForeignKeysInvariant == Spec => []ForeignKeysHold
<1>1. IInv => ForeignKeysHold
  BY DEF IInv
<1> QED
  BY <1>1, Invariance, PTL

\* An id keeps meaning the row it was given out for.
THEOREM IdsStayUnique == Spec => IdsNeverReused
<1>1. IInv /\ [Next]_vars =>
        [\A t \in Tables : \A i \in DOMAIN table'[t] \ Ids(t) :
            i > sequence[t] \/ (t \in ReferenceTables /\ i \in DOMAIN Seeds[t])]_vars
  <2> SUFFICES ASSUME IInv, Next, NEW t \in Tables, NEW i \in DOMAIN table'[t] \ Ids(t)
               PROVE  i > sequence[t] \/ (t \in ReferenceTables /\ i \in DOMAIN Seeds[t])
    OBVIOUS
  <2>1. TypeOK /\ table' # table
    BY DEF IInv, Ids
  <2>2. CASE DatabaseOpen
    <3>1. table' = Seeded(table)
      BY <2>2 DEF DatabaseOpen
    <3> QED
      BY <3>1, SeededRows DEF Ids
  <2>3. ASSUME NEW call, NEW s \in Tables, NEW row, InsertRow(call, s, row)
        PROVE  i > sequence[t]
    <3>1. Put(s, sequence[s] + 1, row)
      BY <2>1, <2>3 DEF InsertRow
    <3>2. t = s /\ i = sequence[t] + 1 /\ sequence[t] \in Nat
      BY <2>1, <3>1, PutRow DEF Ids, TypeOK
    <3> QED
      BY <3>2
  <2>4. ASSUME NEW s \in Tables, NEW id, NEW row, UpdateRow(s, id, row)
        PROVE  FALSE
    <3>1. id \in Ids(s) /\ Put(s, id, row)
      BY <2>1, <2>4 DEF UpdateRow
    <3> QED
      BY <2>1, <3>1, PutRow DEF Ids
  <2>5. ASSUME NEW s \in Tables, NEW id, DeleteRow(s, id)
        PROVE  FALSE
    <3>1. table' = [table EXCEPT ![s] = [k \in Ids(s) \ {id} |-> table[s][k]]]
      BY <2>1, <2>5 DEF DeleteRow
    <3> QED
      BY <2>1, <3>1 DEF TypeOK, Ids
  <2>6. CASE \E s \in Tables : Repository(s)
    BY <2>1, <2>3, <2>4, <2>5, <2>6 DEF Repository, GetRow, GetAllRows
  <2>7. CASE \E key \in Arguments["Connection"] : ConnectionGetOrCreate(key)
    BY <2>1, <2>3, <2>7 DEF ConnectionGetOrCreate, Tables
  <2>8. CASE MessageGetLastSuccessful
    BY <2>1, <2>8 DEF MessageGetLastSuccessful
  <2> QED
    BY <2>2, <2>6, <2>7, <2>8, Calls
<1> QED
  BY <1>1, Invariance, PTL DEF Spec, IdsNeverReused

\* Whoever asks for a peer that is known is given its row.
THEOREM KnownPeerFound == Spec => FoundIsReturned
<1>1. IInv /\ [Next]_vars =>
        [\A i \in Ids("Connection") :
            LET row == table["Connection"][i]
            IN  /\ result' # result
                /\ result'.call = "get_or_create"
                /\ result'.argument = row
                /\ row.ip # NULL
                => result'.ret = i /\ UNCHANGED table]_vars
  <2> SUFFICES ASSUME IInv, Next, NEW i \in Ids("Connection"),
                      result'.call = "get_or_create",
                      result'.argument = table["Connection"][i],
                      table["Connection"][i].ip # NULL
               PROVE  result'.ret = i /\ UNCHANGED table
    OBVIOUS
  <2>1. PICK key \in Arguments["Connection"] : ConnectionGetOrCreate(key)
    BY GetOrCreateCalled
  <2> DEFINE found == {k \in Ids("Connection") : Matches(table["Connection"][k], key)}
  <2>2. key = table["Connection"][i]
    BY <2>1, ReturnsRecord DEF ConnectionGetOrCreate, InsertRow
  <2>3. found = {i}
    BY <2>2 DEF Matches, IInv, OneRowPerPeer
  <2>4. Min(found) = i
    <3>1. i \in Nat
      BY DEF IInv, TypeOK, Tables
    <3> HIDE DEF found
    <3> QED
      BY <2>3, <3>1 DEF Min
  <2>5. Returns("get_or_create", "Connection", key, Min(found)) /\ UNCHANGED table
    BY <2>1, <2>3 DEF ConnectionGetOrCreate
  <2> QED
    BY <2>4, <2>5, ReturnsRecord
<1> QED
  BY <1>1, Invariance, PTL DEF Spec, FoundIsReturned

\* Whatever peers there are, only one without an ip is refused although its role is there:
\* the SELECT misses no row that the unique index would hold against another peer.
THEOREM OnlyNoIpRefused == Spec => RefusedHasNoIp
<1>1. IInv /\ [Next]_vars =>
        [/\ result'.call = "get_or_create"
         /\ result'.ret = -1
         => LET key == result'.argument
            IN  \/ key.roleId \notin Ids("ConnectionRole")
                \/ /\ key.ip \in {NULL, EmptyIp}
                   /\ \E i \in Ids("Connection") :
                          PeerKey(table["Connection"][i]) = PeerKey(key)]_vars
  <2> SUFFICES ASSUME IInv, Next, result'.call = "get_or_create", result'.ret = -1,
                      result'.argument.roleId \in Ids("ConnectionRole")
               PROVE  /\ result'.argument.ip \in {NULL, EmptyIp}
                      /\ \E i \in Ids("Connection") :
                            PeerKey(table["Connection"][i]) = PeerKey(result'.argument)
    OBVIOUS
  <2>1. PICK key \in Arguments["Connection"] : ConnectionGetOrCreate(key)
    BY GetOrCreateCalled
  <2> DEFINE id == sequence["Connection"] + 1
             found == {k \in Ids("Connection") : Matches(table["Connection"][k], key)}
  <2>2. result'.argument = key
    BY <2>1, ReturnsRecord DEF ConnectionGetOrCreate, InsertRow
  <2>3. /\ sequence["Connection"] \in Nat
        /\ Ids("Connection") \subseteq 1 .. sequence["Connection"]
        /\ \A i \in Ids("Connection") : table["Connection"][i] \in Arguments["Connection"]
    BY DEF IInv, TypeOK, Tables, ReferenceTables
  <2>4. found = {}
    <3> SUFFICES ASSUME NEW i \in found
                 PROVE  FALSE
      OBVIOUS
    <3>1. i \in Ids("Connection") /\ i \in Nat /\ key = table["Connection"][i] /\ key.ip # NULL
      BY <2>3 DEF Matches
    <3>2. found = {i}
      BY <3>1 DEF Matches, IInv, OneRowPerPeer
    <3>3. Min(found) = i
      <4> HIDE DEF found
      <4> QED
        BY <3>1, <3>2 DEF Min
    <3>4. result'.ret = i
      BY <2>1, <3>2, <3>3, ReturnsRecord DEF ConnectionGetOrCreate
    <3> QED
      BY <3>1, <3>4
  <2>5. ~ Valid("Connection", id, key)
    <3>1. InsertRow("get_or_create", "Connection", key)
      BY <2>1, <2>4 DEF ConnectionGetOrCreate
    <3>2. id # -1
      BY <2>3
    <3> QED
      BY <3>1, <3>2, ReturnsRecord DEF InsertRow
  <2>6. PICK i \in Ids("Connection") : PeerKey(table["Connection"][i]) = PeerKey(key)
    <3>1. References("Connection") = {<<"roleId", "ConnectionRole">>}
      BY DEF References
    <3>2. key["roleId"] = key.roleId
      OBVIOUS
    <3>3. \A ref \in References("Connection") : key[ref[1]] \in Ids(ref[2])
      BY <2>2, <3>1, <3>2
    <3> QED
      BY <2>5, <3>3 DEF Valid, ReferenceTables
  <2>7. key.ip \in {NULL, EmptyIp}
    <3> SUFFICES ASSUME key.ip # NULL, key.ip # EmptyIp
                 PROVE  FALSE
      OBVIOUS
    <3>1. /\ table["Connection"][i].roleId = key.roleId
          /\ table["Connection"][i].ip = key.ip
      BY <2>6 DEF PeerKey
    <3>2. table["Connection"][i] = key
      BY <2>3, <3>1, RepositoriesAssumption
    <3>3. i \in found
      BY <3>2 DEF Matches
    <3> QED
      BY <2>4, <3>3
  <2> QED
    BY <2>2, <2>6, <2>7
<1> QED
  BY <1>1, Invariance, PTL DEF Spec, RefusedHasNoIp
================================================================================
