------------------------------ MODULE HelpersProofs -----------------------------
(***************************************************************************)
(* Theorems of OwnedMemory, AddressLog and Filenames as MCHelpers composes *)
(* them: what is borrowed is returned, one address of every subnet is      *)
(* printed, names are safe; for any number of rows, any first capacity,    *)
(* any lists of interfaces, and any allocation or call that fails.         *)
(***************************************************************************)
EXTENDS MCHelpers, FilenamesProofs, FiniteSetTheorems

--------------------------------------------------------------------------------
(***************************************************************************)
(* The repositories and database_open.                                     *)
(***************************************************************************)
\* What can be owned for the first n rows.
Owned(n) == {Text(i, s) : i \in 1 .. n, s \in Strings[table]}
Array == IF capacity = 0 THEN {} ELSE {Block("array")}

\* The heap is these blocks, and strings of the first n rows.
Holds(blocks, n) == blocks \subseteq heap /\ heap \subseteq blocks \cup Owned(n)

\* What a call holds at each of its places.
HeapByPlace ==
    \/ fetch = "idle" /\ Holds({}, 0) /\ count = 0 /\ capacity = 0
    \/ fetch = "row" /\ Holds({Block("statement")}, 0)
    \/ fetch = "struct" /\ Holds({Block("struct")}, 1)
    \/ fetch = "released" /\ Holds({Block("struct")}, 0)
    \/ fetch = "rows" /\ Holds({Block("statement")} \cup Array, count)
    \/ fetch = "store" /\ Holds({Block("statement")} \cup Array, count) /\ count < capacity
    \/ /\ fetch = "move" /\ count < capacity
       /\ Holds({Block("statement"), Block("struct")} \cup Array, count + 1)
    \/ fetch = "array" /\ Holds(Array, count)
    \/ fetch = "done" /\ Holds({}, 0)
    \/ fetch = "schema" /\ Holds({Block("handle")}, 0)
    \/ fetch = "size" /\ Holds({Block("handle"), Block("file")}, 0)
    \/ fetch = "read" /\ Holds({Block("handle"), Block("file"), Block("sql")}, 0)
    \/ fetch = "exec" /\ Holds({Block("handle"), Block("sql")}, 0)
    \/ fetch = "error" /\ Holds({Block("handle"), Block("err")}, 0)
    \/ fetch = "close" /\ Holds({Block("handle")}, 0)

MemoryOK ==
    /\ table \in Table /\ count \in Nat /\ capacity \in Nat
    /\ count <= capacity
    /\ ~ doubleFree
    /\ HeapByPlace

--------------------------------------------------------------------------------
\* The free functions free what the structs own.
LEMMA FreedStrings == \A t \in Table : Freed[t] = Strings[t]
BY DEF Table, Strings, Freed, MessageTypeFree, MessageStatusFree, MessageDirectionFree,
       ConnectionRoleFree, ConnectionFree, MessageFree, NamedConnectionFree

\* No string is a block.
LEMMA TextsAndBlocks ==
    /\ \A i, s, what : i # 0 => Text(i, s) # Block(what)
    /\ \A w1, w2 : Block(w1) = Block(w2) => w1 = w2
BY DEF Text, Block

LEMMA NoRowsNoStrings == Owned(0) = {}
BY DEF Owned

\* free_all takes every string of the rows.
LEMMA AllTexts ==
    ASSUME table \in Table, NEW n
    PROVE  RowTexts(n) = heap \cap Owned(n)
BY FreedStrings DEF RowTexts, Owned

LEMMA BlocksNotOwned ==
    ASSUME NEW n \in Nat, NEW what
    PROVE  Block(what) \notin Owned(n)
BY TextsAndBlocks DEF Owned

\* Everything is freed.
LEMMA EverythingFreed ==
    ASSUME MemoryOK, NEW blocks, NEW n \in Nat, Holds(blocks, n),
           Exchange(blocks \cup RowTexts(n), {})
    PROVE  ~ doubleFree' /\ Holds({}, 0)'
<1>1. RowTexts(n) = heap \cap Owned(n)
  BY AllTexts DEF MemoryOK
<1> QED
  BY <1>1 DEF MemoryOK, Holds, Exchange

--------------------------------------------------------------------------------
LEMMA MemoryStart == MemoryInit => MemoryOK
BY DEF MemoryInit, MemoryOK, Table, Strings, HeapByPlace, Holds

LEMMA GetCalls ==
    ASSUME MemoryOK, Prepare \/ GetStruct \/ FreeStruct
    PROVE  MemoryOK'
<1> USE DEF Fetches, Keeps
<1>1. CASE Prepare
  <2>1. Holds({}, 0) /\ heap = {}
    BY <1>1, NoRowsNoStrings DEF Prepare, MemoryOK, HeapByPlace, Holds
  <2>2. /\ ~ doubleFree'
        /\ \/ fetch' = "done" /\ heap' = {}
           \/ fetch' \in {"row", "rows"} /\ heap' = {Block("statement")}
    BY <1>1, <2>1 DEF Prepare, Exchange, MemoryOK
  <2>3. table' \in Table /\ count' = 0 /\ capacity' = 0
    BY <1>1 DEF Prepare, MemoryOK, HeapByPlace
  <2> QED
    BY <2>2, <2>3 DEF MemoryOK, HeapByPlace, Holds, Array
<1>2. CASE GetStruct
  <2>1. heap = {Block("statement")}
    BY <1>2, NoRowsNoStrings DEF GetStruct, MemoryOK, HeapByPlace, Holds
  <2>2. UNCHANGED <<table, count, capacity>>
    BY <1>2 DEF GetStruct
  <2>3. CASE fetch' = "done" /\ Exchange({Block("statement")}, {})
    BY <2>1, <2>2, <2>3 DEF Exchange, MemoryOK, HeapByPlace, Holds
  <2>4. CASE /\ fetch' = "struct"
             /\ \E strings \in SUBSET Strings[table] :
                   Exchange({Block("statement")},
                            {Block("struct")} \cup {Text(1, s) : s \in strings})
    <3>1. PICK strings \in SUBSET Strings[table] :
            Exchange({Block("statement")}, {Block("struct")} \cup {Text(1, s) : s \in strings})
      BY <2>4
    <3>2. heap' = {Block("struct")} \cup {Text(1, s) : s \in strings} /\ ~ doubleFree'
      BY <2>1, <3>1 DEF Exchange, MemoryOK
    <3>3. Holds({Block("struct")}, 1)'
      BY <2>2, <3>2 DEF Holds, Owned
    <3> QED
      BY <2>2, <2>4, <3>2, <3>3 DEF MemoryOK, HeapByPlace
  <2> QED
    BY <1>2, <2>3, <2>4 DEF GetStruct
<1>3. CASE FreeStruct
  <2>1. Holds({Block("struct")}, 1)
    BY <1>3 DEF FreeStruct, MemoryOK, HeapByPlace
  <2>2. RowTexts(1) = heap \cap Owned(1)
    BY AllTexts DEF MemoryOK
  <2>3. Block("struct") \notin Owned(1)
    BY BlocksNotOwned
  <2>4. Exchange(RowTexts(1), {})
    BY <1>3 DEF FreeStruct
  <2>5. heap' = {Block("struct")} /\ ~ doubleFree'
    BY <2>1, <2>2, <2>3, <2>4 DEF Exchange, Holds, MemoryOK
  <2>6. Holds({Block("struct")}, 0)'
    BY <2>5 DEF Holds
  <2> QED
    BY <1>3, <2>5, <2>6 DEF FreeStruct, MemoryOK, HeapByPlace
<1> QED
  BY <1>1, <1>2, <1>3

\* A get_all that gives up has freed its rows, its array and its statement.
LEMMA AbandonStep ==
    ASSUME MemoryOK, fetch \in {"rows", "store"}, Abandon
    PROVE  MemoryOK'
<1> USE DEF Fetches, Keeps
<1>1. Holds({Block("statement")} \cup Array, count) /\ count \in Nat
  BY DEF MemoryOK, HeapByPlace
<1>2. ~ doubleFree' /\ Holds({}, 0)'
  <2>1. CASE capacity = 0
    <3>1. count = 0 /\ heap = {Block("statement")}
      BY <1>1, <2>1, NoRowsNoStrings DEF MemoryOK, Holds, Array
    <3> QED
      BY <2>1, <3>1 DEF Abandon, ArrayAndTexts, Exchange, Holds, MemoryOK
  <2>2. CASE capacity # 0
    <3>1. {Block("statement")} \cup ArrayAndTexts
            = ({Block("statement")} \cup Array) \cup RowTexts(count)
      BY <2>2 DEF ArrayAndTexts, Array
    <3> QED
      BY <1>1, <3>1, EverythingFreed DEF Abandon
  <2> QED
    BY <2>1, <2>2
<1> QED
  BY <1>2 DEF Abandon, MemoryOK, HeapByPlace

\* Rows and blocks that stay, in an array that may have grown.
LEMMA RowsStep ==
    ASSUME MemoryOK, fetch \in {"rows", "store"},
           NextRow \/ StoreRow \/ RowToMessage \/ EndRows
    PROVE  MemoryOK'
<1> USE DEF Fetches, Keeps
<1>1. /\ Holds({Block("statement")} \cup Array, count) /\ count \in Nat /\ capacity \in Nat
      /\ count <= capacity /\ ~ doubleFree
  BY DEF MemoryOK, HeapByPlace
<1>2. CASE NextRow
  <2>1. CASE fetch' = "store" /\ count < capacity /\ Exchange({}, {}) /\ Keeps
    <3>1. heap' = heap /\ ~ doubleFree'
      BY <1>1, <2>1 DEF Exchange
    <3>2. (Holds({Block("statement")} \cup Array, count))'
      BY <1>1, <2>1, <3>1 DEF Holds, Owned, Array
    <3> QED
      BY <1>1, <2>1, <3>1, <3>2 DEF MemoryOK, HeapByPlace
  <2>2. CASE /\ count >= capacity /\ fetch' = "store" /\ Exchange({}, {Block("array")})
             /\ capacity' = IF capacity = 0 THEN ArrayCapacity ELSE capacity * 2
             /\ UNCHANGED <<table, count>>
    <3>1. heap' = heap \cup {Block("array")} /\ ~ doubleFree'
      BY <1>1, <2>2 DEF Exchange
    <3>2. capacity' \in Nat /\ capacity' # 0 /\ count' < capacity'
      BY <1>1, <2>2, OwnedMemoryAssumption
    <3>3. Owned(count)' = Owned(count)
      BY <2>2 DEF Owned
    <3>4. Array' = {Block("array")} /\ Array \subseteq {Block("array")}
      BY <3>2 DEF Array
    <3>5. (Holds({Block("statement")} \cup Array, count))'
      BY <1>1, <3>1, <3>3, <3>4 DEF Holds
    <3> QED
      BY <1>1, <2>2, <3>1, <3>2, <3>5 DEF MemoryOK, HeapByPlace
  <2>3. CASE Abandon
    BY <2>3, AbandonStep
  <2> QED
    BY <1>2, <2>1, <2>2, <2>3 DEF NextRow
<1>3. CASE StoreRow
  <2>1. PICK strings \in SUBSET Strings[table] :
            Exchange({}, {Text(count + 1, s) : s \in strings})
    BY <1>3 DEF StoreRow, CopiedRow
  <2>2. UNCHANGED <<table, capacity>> /\ count' = count + 1 /\ fetch' = "rows"
        /\ fetch = "store" /\ count < capacity
    BY <1>3 DEF StoreRow, MemoryOK, HeapByPlace
  <2>3. heap' = heap \cup {Text(count + 1, s) : s \in strings} /\ ~ doubleFree'
    BY <1>1, <2>1 DEF Exchange
  <2>4. /\ Owned(count) \subseteq Owned(count)'
        /\ {Text(count + 1, s) : s \in strings} \subseteq Owned(count)'
    BY <1>1, <2>2 DEF Owned
  <2>5. (Holds({Block("statement")} \cup Array, count))'
    BY <1>1, <2>2, <2>3, <2>4 DEF Holds, Array
  <2> QED
    BY <1>1, <2>2, <2>3, <2>5 DEF MemoryOK, HeapByPlace
<1>4. CASE RowToMessage
  <2>1. CASE /\ fetch' = "move"
             /\ \E strings \in SUBSET Strings[table] :
                   Exchange({}, {Block("struct")} \cup {Text(count + 1, s) : s \in strings})
             /\ Keeps
    <3>1. PICK strings \in SUBSET Strings[table] :
            Exchange({}, {Block("struct")} \cup {Text(count + 1, s) : s \in strings})
      BY <2>1
    <3>2. /\ heap' = heap \cup ({Block("struct")} \cup {Text(count + 1, s) : s \in strings})
          /\ ~ doubleFree'
      BY <1>1, <3>1 DEF Exchange
    <3>3. /\ Owned(count) \subseteq Owned(count + 1)'
          /\ {Text(count + 1, s) : s \in strings} \subseteq Owned(count + 1)'
      BY <1>1, <2>1 DEF Owned
    <3>4. (Holds({Block("statement"), Block("struct")} \cup Array, count + 1))'
      BY <1>1, <2>1, <3>2, <3>3 DEF Holds, Array
    <3>5. count < capacity
      BY <1>4 DEF RowToMessage, MemoryOK, HeapByPlace
    <3> QED
      BY <1>1, <2>1, <3>2, <3>4, <3>5 DEF MemoryOK, HeapByPlace
  <2>2. CASE Abandon
    BY <2>2, AbandonStep
  <2> QED
    BY <1>4, <2>1, <2>2 DEF RowToMessage
<1>5. CASE EndRows
  <2>1. /\ Exchange({Block("statement")}, {}) /\ fetch' = "array"
        /\ UNCHANGED <<table, count, capacity>>
    BY <1>5 DEF EndRows
  <2>2. Block("statement") \notin Owned(count) /\ Block("statement") \notin Array
    BY <1>1, BlocksNotOwned, TextsAndBlocks DEF Array
  <2>3. heap' = heap \ {Block("statement")} /\ ~ doubleFree'
    BY <1>1, <2>1 DEF Exchange, Holds
  <2>4. (Holds(Array, count))'
    BY <1>1, <2>1, <2>2, <2>3 DEF Holds, Array, Owned
  <2> QED
    BY <1>1, <2>1, <2>3, <2>4 DEF MemoryOK, HeapByPlace
<1> QED
  BY <1>2, <1>3, <1>4, <1>5

\* message_get_all frees the struct and keeps its strings.
LEMMA MoveStep ==
    ASSUME MemoryOK, MoveRow
    PROVE  MemoryOK'
<1> USE DEF Fetches, Keeps
<1>1. /\ Holds({Block("statement"), Block("struct")} \cup Array, count + 1)
      /\ count \in Nat /\ capacity \in Nat /\ count < capacity /\ ~ doubleFree
  BY DEF MoveRow, MemoryOK, HeapByPlace
<1>2. /\ Exchange({Block("struct")}, {}) /\ fetch' = "rows" /\ count' = count + 1
      /\ UNCHANGED <<table, capacity>>
  BY DEF MoveRow
<1>3. Block("struct") \notin Owned(count + 1) /\ Block("struct") \notin Array
      /\ Block("struct") # Block("statement")
  BY <1>1, BlocksNotOwned, TextsAndBlocks DEF Array
<1>4. heap' = heap \ {Block("struct")} /\ ~ doubleFree'
  BY <1>1, <1>2 DEF Exchange, Holds
<1>5. Owned(count)' = Owned(count + 1) /\ Array' = Array
  BY <1>2 DEF Owned, Array
<1>6. (Holds({Block("statement")} \cup Array, count))'
  BY <1>1, <1>3, <1>4, <1>5 DEF Holds
<1> QED
  BY <1>1, <1>2, <1>4, <1>6 DEF MemoryOK, HeapByPlace

LEMMA FreeArrayStep ==
    ASSUME MemoryOK, FreeArray
    PROVE  MemoryOK'
<1> USE DEF Fetches, Keeps
<1>1. Holds(Array, count) /\ count \in Nat
  BY DEF FreeArray, MemoryOK, HeapByPlace
<1>2. ~ doubleFree' /\ Holds({}, 0)'
  <2>1. CASE capacity = 0
    <3>1. heap = {}
      BY <1>1, <2>1, NoRowsNoStrings DEF MemoryOK, Holds, Array
    <3> QED
      BY <2>1, <3>1 DEF FreeArray, ArrayAndTexts, Exchange, Holds, MemoryOK
  <2>2. CASE capacity # 0
    BY <1>1, <2>2, EverythingFreed DEF FreeArray, ArrayAndTexts, Array
  <2> QED
    BY <2>1, <2>2
<1> QED
  BY <1>2 DEF FreeArray, MemoryOK, HeapByPlace

LEMMA DatabaseOpenStep ==
    ASSUME MemoryOK,
           OpenHandle \/ OpenSchema \/ MeasureSchema \/ ReadSchema \/ RunSchema \/ FreeError
             \/ CloseHandle
    PROVE  MemoryOK'
<1> USE DEF Fetches, Keeps
<1>1. /\ Owned(0) = {} /\ Owned(0)' = {} /\ ~ doubleFree
      /\ \A blocks : Holds(blocks, 0) => heap = blocks
  BY NoRowsNoStrings DEF Owned, MemoryOK, Holds
<1>2. \A blocks : heap' = blocks => Holds(blocks, 0)'
  BY <1>1 DEF Holds
<1>3. UNCHANGED <<table, count, capacity>>
  BY DEF OpenHandle, OpenSchema, MeasureSchema, ReadSchema, RunSchema, FreeError, CloseHandle
<1>4. /\ Block("handle") # Block("file") /\ Block("handle") # Block("sql")
      /\ Block("handle") # Block("err") /\ Block("file") # Block("sql")
  BY TextsAndBlocks
<1>5. /\ ~ doubleFree'
      /\ \/ fetch' = "done" /\ heap' = {}
         \/ fetch' = "schema" /\ heap' = {Block("handle")}
         \/ fetch' = "size" /\ heap' = {Block("handle"), Block("file")}
         \/ fetch' = "read" /\ heap' = {Block("handle"), Block("file"), Block("sql")}
         \/ fetch' = "exec" /\ heap' = {Block("handle"), Block("sql")}
         \/ fetch' = "error" /\ heap' = {Block("handle"), Block("err")}
         \/ fetch' = "close" /\ heap' = {Block("handle")}
  <2> DEFINE H == {Block("handle")}
             F == {Block("handle"), Block("file")}
             R == {Block("handle"), Block("file"), Block("sql")}
             Q == {Block("handle"), Block("sql")}
             E == {Block("handle"), Block("err")}
  <2>1. CASE OpenHandle
    <3>1. heap = {} /\ Exchange({}, H) /\ fetch' \in {"schema", "close"}
      BY <1>1, <2>1 DEF OpenHandle, MemoryOK, HeapByPlace
    <3> QED
      BY <1>1, <3>1 DEF Exchange
  <2>2. CASE OpenSchema
    <3>1. heap = H
      BY <1>1, <2>2 DEF OpenSchema, MemoryOK, HeapByPlace
    <3> QED
      BY <1>1, <2>2, <3>1 DEF OpenSchema, Exchange
  <2>3. CASE MeasureSchema
    <3>1. heap = F
      BY <1>1, <2>3 DEF MeasureSchema, MemoryOK, HeapByPlace
    <3>2. \/ fetch' = "close" /\ Exchange({Block("file")}, {})
          \/ fetch' = "read" /\ Exchange({}, {Block("sql")})
      BY <2>3 DEF MeasureSchema
    <3> QED
      BY <1>1, <1>4, <3>1, <3>2 DEF Exchange
  <2>4. CASE ReadSchema
    <3>1. heap = R
      BY <1>1, <2>4 DEF ReadSchema, MemoryOK, HeapByPlace
    <3> QED
      BY <1>1, <1>4, <2>4, <3>1 DEF ReadSchema, Exchange
  <2>5. CASE RunSchema
    <3>1. heap = Q
      BY <1>1, <2>5 DEF RunSchema, MemoryOK, HeapByPlace
    <3> QED
      BY <1>1, <1>4, <2>5, <3>1 DEF RunSchema, Exchange
  <2>6. CASE FreeError
    <3>1. heap = E
      BY <1>1, <2>6 DEF FreeError, MemoryOK, HeapByPlace
    <3> QED
      BY <1>1, <1>4, <2>6, <3>1 DEF FreeError, Exchange
  <2>7. CASE CloseHandle
    <3>1. heap = H
      BY <1>1, <2>7 DEF CloseHandle, MemoryOK, HeapByPlace
    <3> QED
      BY <1>1, <2>7, <3>1 DEF CloseHandle, Exchange
  <2> QED
    BY <2>1, <2>2, <2>3, <2>4, <2>5, <2>6, <2>7
<1> QED
  BY <1>2, <1>3, <1>5 DEF MemoryOK, HeapByPlace

LEMMA EndCallStep ==
    ASSUME MemoryOK, EndCall
    PROVE  MemoryOK'
<1> USE DEF Fetches, Keeps
<1>1. heap' = {} /\ doubleFree' = doubleFree
  BY DEF EndCall
<1> QED
  BY <1>1 DEF EndCall, MemoryOK, HeapByPlace, Holds, Table, Strings

LEMMA MemoryStep == MemoryOK /\ [MemoryNext]_memoryVars => MemoryOK'
<1> SUFFICES ASSUME MemoryOK, [MemoryNext]_memoryVars
             PROVE  MemoryOK'
  OBVIOUS
<1>1. CASE Prepare \/ GetStruct \/ FreeStruct
  BY <1>1, GetCalls
<1>2. CASE NextRow \/ StoreRow \/ RowToMessage \/ EndRows
  <2>1. fetch \in {"rows", "store"}
    BY <1>2 DEF NextRow, StoreRow, RowToMessage, EndRows
  <2> QED
    BY <1>2, <2>1, RowsStep
<1>3. CASE MoveRow \/ FreeArray \/ EndCall
  BY <1>3, MoveStep, FreeArrayStep, EndCallStep
<1>4. CASE OpenHandle \/ OpenSchema \/ MeasureSchema \/ ReadSchema \/ RunSchema
             \/ FreeError \/ CloseHandle
  BY <1>4, DatabaseOpenStep
<1>5. CASE UNCHANGED memoryVars
  BY <1>5 DEF memoryVars, MemoryOK, HeapByPlace, Holds, Owned, Array
<1> QED
  BY <1>1, <1>2, <1>3, <1>4, <1>5 DEF MemoryNext

--------------------------------------------------------------------------------
(***************************************************************************)
(* The address thread.                                                     *)
(***************************************************************************)
\* What the thread holds at each of its places, and which lists it has.
HeldByPlace ==
    \/ lookup \in {"idle", "print", "router", "service", "done"} /\ held = {}
    \/ lookup = "scan" /\ held = {"ifaddrs"}
    \/ lookup = "gateway" /\ held = {"devlist"}
    \/ lookup = "external" /\ held = {"devlist", "urls"}
    \/ lookup = "transfer" /\ held = {"curl", "address"}
    \/ lookup = "public" /\ held = {"address"}

AddressOK ==
    /\ ~ overfreed
    /\ HeldByPlace
    /\ lookup # "scan" => seen = NoList
    /\ lookup \notin {"scan", "print"} => result = NoList

LEMMA AddressStart == AddressInit => AddressOK
BY DEF AddressInit, AddressOK, HeldByPlace

LEMMA AddressStep == AddressOK /\ [AddressNext]_addressVars => AddressOK'
<1> SUFFICES ASSUME AddressOK, [AddressNext]_addressVars
             PROVE  AddressOK'
  OBVIOUS
<1> USE DEF AddressOK, HeldByPlace, Goes, Trade, scanVars
<1>1. CASE GetInterfaces
  <2>1. held = {} /\ seen' = seen /\ result' = result /\ lookup = "idle"
    BY <1>1 DEF GetInterfaces
  <2>2. CASE Trade({}, {"ifaddrs"}) /\ lookup' = "scan"
    BY <2>1, <2>2
  <2>3. CASE lookup' = "router" /\ UNCHANGED <<held, overfreed>>
    BY <2>1, <2>3
  <2> QED
    BY <1>1, <2>2, <2>3 DEF GetInterfaces
<1>2. CASE ScanInterface
  BY <1>2 DEF ScanInterface
<1>3. CASE EndScan
  BY <1>3 DEF EndScan
<1>4. CASE PrintLocal
  BY <1>4 DEF PrintLocal, FreeAddresses
<1>5. CASE Discover
  BY <1>5 DEF Discover
<1>6. CASE FindGateway
  BY <1>6 DEF FindGateway
<1>7. CASE AskGateway
  BY <1>7 DEF AskGateway
<1>8. CASE InitCurl
  BY <1>8 DEF InitCurl
<1>9. CASE Transfer
  BY <1>9 DEF Transfer
<1>10. CASE PrintPublic
  BY <1>10 DEF PrintPublic
<1>11. CASE EndLookup
  BY <1>11 DEF EndLookup
<1>12. CASE UNCHANGED addressVars
  BY <1>12 DEF addressVars
<1> QED
  BY <1>1, <1>2, <1>3, <1>4, <1>5, <1>6, <1>7, <1>8, <1>9, <1>10, <1>11, <1>12
  DEF AddressNext

--------------------------------------------------------------------------------
(***************************************************************************)
(* Subnets and their keys.                                                 *)
(***************************************************************************)
\* n is the number of ones that lead bits: it ends them, or a zero follows.
Leads(bits, width, n) ==
    /\ n \in 0 .. width
    /\ \A j \in 1 .. n : bits[j] = 1
    /\ n < width => bits[n + 1] = 0

LEMMA OnesCounted ==
    ASSUME NEW width \in Nat, NEW bits \in [1 .. width -> Bit], NEW n, Leads(bits, width, n)
    PROVE  LeadingOnes(bits) = n
<1>1. n \in Nat /\ n <= width
  BY DEF Leads
<1>2. {i \in DOMAIN bits : \A j \in 1 .. i : bits[j] = 1} = 1 .. n
  <2>1. ASSUME NEW i \in 1 .. width, \A j \in 1 .. i : bits[j] = 1
        PROVE  i <= n
    <3> SUFFICES ASSUME n < i
                 PROVE  FALSE
      BY <1>1
    <3>1. n < width /\ n + 1 \in 1 .. i
      BY <1>1
    <3>2. bits[n + 1] = 0 /\ bits[n + 1] = 1
      BY <2>1, <3>1 DEF Leads
    <3> QED
      BY <3>2
  <2>2. ASSUME NEW i \in 1 .. n
        PROVE  i \in 1 .. width /\ \A j \in 1 .. i : bits[j] = 1
    BY <1>1 DEF Leads
  <2>3. DOMAIN bits = 1 .. width
    OBVIOUS
  <2>4. \A i \in 1 .. width : (\A j \in 1 .. i : bits[j] = 1) => i \in 1 .. n
    BY <1>1, <2>1
  <2> QED
    BY <2>2, <2>3, <2>4
<1>3. Cardinality(1 .. n) = n
  <2>1. 1 \in Int /\ n \in Int /\ (IF 1 > n THEN 0 ELSE n - 1 + 1) = n
    BY <1>1
  <2> QED
    BY <2>1, FS_Interval
<1> QED
  BY <1>2, <1>3 DEF LeadingOnes

LEMMA OnesLead ==
    ASSUME NEW width \in Nat, NEW bits \in [1 .. width -> Bit]
    PROVE  Leads(bits, width, LeadingOnes(bits))
<1> DEFINE Zeros == {i \in Nat : i \in 1 .. width /\ bits[i] = 0}
<1>1. \E n : Leads(bits, width, n)
  <2>1. CASE Zeros = {}
    BY <2>1 DEF Leads, Bit
  <2>2. CASE Zeros # {}
    <3>1. PICK z \in Zeros : \A k \in Zeros : z <= k
      BY <2>2, LeastNatural
    <3>2. z \in 1 .. width /\ bits[z] = 0
      BY <3>1
    <3>3. ASSUME NEW j \in 1 .. z - 1
          PROVE  bits[j] = 1
      <4>1. j \in Nat /\ j \in 1 .. width /\ ~ (z <= j)
        BY <3>2
      <4>2. j \notin Zeros
        BY <3>1, <4>1
      <4> QED
        BY <4>1, <4>2 DEF Bit
    <3>4. PICK n : n = z - 1
      OBVIOUS
    <3>5. n \in 0 .. width /\ n + 1 = z
      BY <3>2, <3>4
    <3>6. Leads(bits, width, n)
      BY <3>2, <3>3, <3>4, <3>5 DEF Leads
    <3> QED
      BY <3>6
  <2> QED
    BY <2>1, <2>2
<1> QED
  BY <1>1, OnesCounted

\* IPv4
LEMMA Popcount ==
    ASSUME NEW width \in Nat, NEW mask \in [1 .. width -> Bit], Contiguous(mask)
    PROVE  PopCount(mask) = LeadingOnes(mask)
<1>1. ASSUME NEW i \in 1 .. width, mask[i] = 1, NEW j \in 1 .. i
      PROVE  mask[j] = 1
  <2>1. j \in DOMAIN mask /\ i \in DOMAIN mask /\ j <= i /\ mask[j] \in {0, 1}
    BY DEF Bit
  <2>2. mask[i] <= mask[j]
    BY <2>1 DEF Contiguous
  <2> QED
    BY <1>1, <2>1, <2>2
<1>2. {i \in DOMAIN mask : mask[i] = 1} = {i \in DOMAIN mask : \A j \in 1 .. i : mask[j] = 1}
  <2>1. \A i \in 1 .. width : i \in 1 .. i
    OBVIOUS
  <2> QED
    BY <1>1, <2>1
<1> QED
  BY <1>2 DEF PopCount, LeadingOnes

LEMMA Masked ==
    ASSUME NEW width \in Nat, NEW mask \in [1 .. width -> Bit], Contiguous(mask),
           NEW ip \in [1 .. width -> Bit]
    PROVE  [i \in 1 .. width |-> ip[i] * mask[i]] = Keep(ip, LeadingOnes(mask))
<1>1. PICK n : n = LeadingOnes(mask)
  OBVIOUS
<1>2. Leads(mask, width, n)
  BY <1>1, OnesLead
<1>3. ASSUME NEW i \in 1 .. width
      PROVE  ip[i] * mask[i] = IF i <= n THEN ip[i] ELSE 0
  <2>1. ip[i] \in {0, 1} /\ n \in Nat /\ n <= width
    BY <1>2 DEF Bit, Leads
  <2>2. CASE i <= n
    <3>1. mask[i] = 1
      BY <1>2, <2>1, <2>2 DEF Leads
    <3> QED
      BY <2>1, <2>2, <3>1
  <2>3. CASE ~ (i <= n)
    <3>1. n < width /\ n + 1 \in 1 .. width /\ n + 1 <= i
      BY <2>1, <2>3
    <3>2. mask[i] <= mask[n + 1] /\ mask[n + 1] = 0
      BY <1>2, <3>1 DEF Leads, Contiguous
    <3>3. mask[i] \in {0, 1}
      BY DEF Bit
    <3>4. mask[i] = 0
      BY <3>2, <3>3
    <3> QED
      BY <2>1, <2>3, <3>4
  <2> QED
    BY <2>2, <2>3
<1>4. DOMAIN ip = 1 .. width
  OBVIOUS
<1> QED
  BY <1>1, <1>3, <1>4 DEF Keep

--------------------------------------------------------------------------------
LEMMA Division ==
    ASSUME NEW a \in Nat, NEW d \in Nat, NEW c \in Nat, c < d
    PROVE  (a * d + c) \div d = a /\ (a * d + c) % d = c
BY Z3T(20)

LEMMA Products ==
    ASSUME NEW a \in Nat, NEW d \in Nat
    PROVE  a * d \in Nat /\ (a + 1) * d = a * d + d
BY Z3T(20)

LEMMA LaterRow ==
    ASSUME NEW a \in Nat, NEW b \in Nat, NEW d \in Nat, a < b
    PROVE  (a + 1) * d <= b * d
BY Z3T(20)

LEMMA Quotient ==
    ASSUME NEW d \in Nat, d > 0, NEW x \in Nat
    PROVE  /\ x \div d \in Nat /\ x % d \in 0 .. d - 1
           /\ x = (x \div d) * d + (x % d)
BY Z3T(20)

Bits6 == V6Bytes * ByteBits

LEMMA Sizes ==
    /\ V4Bits \in Nat /\ V6Bytes \in Nat /\ ByteBits \in Nat /\ ByteBits > 0 /\ Bits6 \in Nat
BY AddressLogAssumption, Products DEF Bits6

\* The k-th bit of the byte behind a bytes.
LEMMA BitOfByte ==
    ASSUME NEW a \in Nat, NEW k \in 1 .. ByteBits
    PROVE  /\ a * ByteBits + k \in Nat /\ a * ByteBits + k >= 1
           /\ ((a * ByteBits + k) - 1) \div ByteBits = a
           /\ ((a * ByteBits + k) - 1) % ByteBits = k - 1
           /\ a < V6Bytes => a * ByteBits + k \in 1 .. Bits6
<1>1. a * ByteBits \in Nat /\ (a + 1) * ByteBits = a * ByteBits + ByteBits
  BY Sizes, Products
<1>2. PICK c : c = k - 1
  OBVIOUS
<1>3. c \in Nat /\ c < ByteBits /\ ByteBits \in Nat /\ k = c + 1
  BY <1>2, Sizes
<1>4. (a * ByteBits + c) \div ByteBits = a /\ (a * ByteBits + c) % ByteBits = c
  BY <1>3, Division
<1>5. (a * ByteBits + k) - 1 = a * ByteBits + c
  BY <1>1, <1>3
<1>6. a < V6Bytes => (a + 1) * ByteBits <= Bits6
  BY Sizes, LaterRow DEF Bits6
<1>7. a < V6Bytes => a * ByteBits + k <= Bits6
  BY <1>1, <1>3, <1>6, Sizes
<1> QED
  BY <1>1, <1>2, <1>3, <1>4, <1>5, <1>7, Sizes

\* Every bit is a bit of a byte.
LEMMA ByteOfBit ==
    ASSUME NEW i \in 1 .. Bits6
    PROVE  \E a \in 0 .. V6Bytes - 1, k \in 1 .. ByteBits : i = a * ByteBits + k
<1>1. PICK x : x = i - 1
  OBVIOUS
<1>2. x \in Nat /\ i = x + 1 /\ x < Bits6
  BY <1>1, Sizes
<1>3. PICK a, c : a = x \div ByteBits /\ c = x % ByteBits
  OBVIOUS
<1>4. a \in Nat /\ c \in 0 .. ByteBits - 1 /\ x = a * ByteBits + c
  BY <1>2, <1>3, Sizes, Quotient
<1>5. a < V6Bytes
  <2> SUFFICES ASSUME ~ (a < V6Bytes)
               PROVE  FALSE
    OBVIOUS
  <2>1. V6Bytes * ByteBits <= a * ByteBits
    <3>1. CASE V6Bytes = a
      BY <1>4, <3>1, Sizes, Products
    <3>2. CASE V6Bytes < a
      <4>1. (V6Bytes + 1) * ByteBits <= a * ByteBits
        BY <1>4, <3>2, Sizes, LaterRow
      <4>2. (V6Bytes + 1) * ByteBits = V6Bytes * ByteBits + ByteBits /\ V6Bytes * ByteBits \in Nat
        BY Sizes, Products
      <4>3. a * ByteBits \in Nat
        BY <1>4, Sizes, Products
      <4> QED
        BY <4>1, <4>2, <4>3, Sizes
    <3> QED
      BY <1>4, <3>1, <3>2, Sizes
  <2>2. a * ByteBits \in Nat /\ V6Bytes * ByteBits \in Nat
    BY <1>4, Sizes, Products
  <2> QED
    BY <1>2, <1>4, <2>1, <2>2, Sizes DEF Bits6
<1>6. PICK k : k = c + 1
  OBVIOUS
<1>7. a * ByteBits \in Nat
  BY <1>4, Sizes, Products
<1>8. a \in 0 .. V6Bytes - 1 /\ k \in 1 .. ByteBits /\ i = a * ByteBits + k
  BY <1>2, <1>4, <1>5, <1>6, <1>7, Sizes
<1> QED
  BY <1>8

LEMMA FlatBits ==
    ASSUME NEW address \in [1 .. V6Bytes -> Byte]
    PROVE  /\ FlatV6(address) \in [1 .. Bits6 -> Bit]
           /\ \A a \in 0 .. V6Bytes - 1, k \in 1 .. ByteBits :
                FlatV6(address)[a * ByteBits + k] = address[a + 1][k]
<1>1. ASSUME NEW a \in 0 .. V6Bytes - 1, NEW k \in 1 .. ByteBits
      PROVE  /\ a * ByteBits + k \in 1 .. Bits6
             /\ FlatV6(address)[a * ByteBits + k] = address[a + 1][k]
             /\ address[a + 1][k] \in Bit
  <2>1. a \in Nat /\ a < V6Bytes /\ a + 1 \in 1 .. V6Bytes
    BY Sizes
  <2>2. PICK i : i = a * ByteBits + k
    OBVIOUS
  <2>3. /\ i \in 1 .. Bits6
        /\ (i - 1) \div ByteBits = a /\ (i - 1) % ByteBits = k - 1
    <3>1. /\ a < V6Bytes => a * ByteBits + k \in 1 .. Bits6
          /\ ((a * ByteBits + k) - 1) \div ByteBits = a
          /\ ((a * ByteBits + k) - 1) % ByteBits = k - 1
      BY <2>1, BitOfByte
    <3>2. a < V6Bytes
      BY <2>1
    <3> QED
      BY <2>2, <3>1, <3>2
  <2>4. FlatV6(address)[i] = address[((i - 1) \div ByteBits) + 1][((i - 1) % ByteBits) + 1]
    BY <2>3 DEF FlatV6, Bits6
  <2>5. (k - 1) + 1 = k
    OBVIOUS
  <2>6. FlatV6(address)[i] = address[a + 1][k]
    BY <2>3, <2>4, <2>5
  <2>7. address[a + 1] \in Byte
    BY <2>1
  <2> QED
    BY <2>2, <2>3, <2>6, <2>7 DEF Byte
<1>2. \A i \in 1 .. Bits6 : FlatV6(address)[i] \in Bit
  BY <1>1, ByteOfBit
<1>3. FlatV6(address) = [i \in 1 .. Bits6 |-> FlatV6(address)[i]]
  BY DEF FlatV6, Bits6
<1> HIDE DEF FlatV6
<1> QED
  BY <1>1, <1>2, <1>3

\* An address is its bits.
LEMMA FlatOne ==
    ASSUME NEW x \in [1 .. V6Bytes -> Byte], NEW y \in [1 .. V6Bytes -> Byte],
           FlatV6(x) = FlatV6(y)
    PROVE  x = y
<1>1. ASSUME NEW b \in 1 .. V6Bytes
      PROVE  x[b] = y[b]
  <2>1. PICK a : a = b - 1
    OBVIOUS
  <2>2. a \in 0 .. V6Bytes - 1 /\ b = a + 1
    BY <2>1, Sizes
  <2>3. \A k \in 1 .. ByteBits : x[b][k] = y[b][k]
    <3>1. \A k \in 1 .. ByteBits :
            /\ FlatV6(x)[a * ByteBits + k] = x[a + 1][k]
            /\ FlatV6(y)[a * ByteBits + k] = y[a + 1][k]
      BY <2>2, FlatBits
    <3> QED
      BY <2>2, <3>1
  <2>4. x[b] \in [1 .. ByteBits -> Bit] /\ y[b] \in [1 .. ByteBits -> Bit]
    BY DEF Byte
  <2>5. /\ x[b] = [k \in 1 .. ByteBits |-> x[b][k]]
        /\ y[b] = [k \in 1 .. ByteBits |-> y[b][k]]
    BY <2>4
  <2> QED
    BY <2>3, <2>5
<1>2. x = [b \in 1 .. V6Bytes |-> x[b]] /\ y = [b \in 1 .. V6Bytes |-> y[b]]
  OBVIOUS
<1> QED
  BY <1>1, <1>2

\* The prefix of a mask, counted by bytes, is the number of ones that lead its bits.
LEMMA PrefixOfBytes ==
    ASSUME NEW mask \in [1 .. V6Bytes -> Byte]
    PROVE  PrefixFromMaskV6(mask) = LeadingOnes(FlatV6(mask))
<1> DEFINE Full(b) == \A k \in 1 .. ByteBits : mask[b][k] = 1
           full == [b \in 1 .. V6Bytes |-> IF Full(b) THEN 1 ELSE 0]
           flat == FlatV6(mask)
<1>1. PICK w : w = LeadingOnes(full)
  OBVIOUS
<1>2. full \in [1 .. V6Bytes -> Bit]
  BY DEF Bit
<1>3. Leads(full, V6Bytes, w)
  BY <1>1, <1>2, OnesLead, Sizes
<1>4. /\ w \in 0 .. V6Bytes
      /\ \A b \in 1 .. w : Full(b)
      /\ w < V6Bytes => ~ Full(w + 1)
  <2>1. w \in 0 .. V6Bytes /\ \A b \in 1 .. w : b \in 1 .. V6Bytes
    BY <1>3, Sizes DEF Leads
  <2>2. w < V6Bytes => w + 1 \in 1 .. V6Bytes
    BY <2>1, Sizes
  <2> HIDE DEF Full
  <2> QED
    BY <1>3, <2>1, <2>2 DEF Leads
<1>5. Cardinality({b \in 1 .. V6Bytes : \A c \in 1 .. b : Full(c)}) = w
  <2>1. \A b \in 1 .. V6Bytes : \A c \in 1 .. b : c \in 1 .. V6Bytes
    BY Sizes
  <2>2. \A c \in 1 .. V6Bytes : full[c] = 1 <=> Full(c)
    OBVIOUS
  <2>3. DOMAIN full = 1 .. V6Bytes
    OBVIOUS
  <2> HIDE DEF full, Full
  <2>4. {b \in 1 .. V6Bytes : \A c \in 1 .. b : Full(c)}
            = {b \in DOMAIN full : \A c \in 1 .. b : full[c] = 1}
    BY <2>1, <2>2, <2>3
  <2> QED
    BY <1>1, <2>4 DEF LeadingOnes
<1>6. PICK q : q = IF w < V6Bytes THEN LeadingOnes(mask[w + 1]) ELSE 0
  OBVIOUS
<1>7. PrefixFromMaskV6(mask) = w * ByteBits + q
  <2> HIDE DEF full
  <2> QED
    BY <1>5, <1>6 DEF PrefixFromMaskV6
<1> HIDE DEF full
<1>8. /\ flat \in [1 .. Bits6 -> Bit]
      /\ \A a \in 0 .. V6Bytes - 1, k \in 1 .. ByteBits : flat[a * ByteBits + k] = mask[a + 1][k]
  BY FlatBits
<1>9. w \in Nat /\ w <= V6Bytes /\ w * ByteBits \in Nat
  BY <1>4, Sizes, Products
\* The bytes of ones.
<1>10. \A i \in 1 .. Bits6 : i <= w * ByteBits => flat[i] = 1
  <2> SUFFICES ASSUME NEW i \in 1 .. Bits6, i <= w * ByteBits
               PROVE  flat[i] = 1
    OBVIOUS
  <2>1. PICK a \in 0 .. V6Bytes - 1, k \in 1 .. ByteBits : i = a * ByteBits + k
    BY ByteOfBit
  <2>2. a \in Nat /\ a * ByteBits \in Nat
    BY <2>1, Sizes, Products
  <2>3. a < w
    <3> SUFFICES ASSUME w <= a
                 PROVE  FALSE
      BY <1>9, <2>2
    <3>1. w * ByteBits <= a * ByteBits
      <4>1. CASE w = a
        BY <4>1, <2>2
      <4>2. CASE w < a
        <5>1. (w + 1) * ByteBits <= a * ByteBits /\ (w + 1) * ByteBits = w * ByteBits + ByteBits
          BY <1>9, <2>2, <4>2, Sizes, LaterRow, Products
        <5> QED
          BY <1>9, <2>2, <5>1, Sizes
      <4> QED
        BY <1>9, <2>2, <4>1, <4>2
    <3> QED
      BY <1>9, <2>1, <2>2, <3>1
  <2>4. a + 1 \in 1 .. w
    BY <1>9, <2>2, <2>3
  <2>5. mask[a + 1][k] = 1
    BY <1>4, <2>1, <2>4
  <2> QED
    BY <1>8, <2>1, <2>5
<1> HIDE DEF flat
<1>11. Leads(flat, Bits6, w * ByteBits + q)
  <2>1. CASE w = V6Bytes
    <3>1. q = 0 /\ w * ByteBits + q = Bits6
      BY <1>6, <1>9, <2>1, Sizes DEF Bits6
    <3> QED
      BY <1>9, <1>10, <2>1, <3>1, Sizes DEF Leads, Bits6
  <2>2. CASE w # V6Bytes
    <3>1. w < V6Bytes /\ w \in 0 .. V6Bytes - 1 /\ w + 1 \in 1 .. V6Bytes
      BY <1>9, <2>2, Sizes
    <3>2. mask[w + 1] \in [1 .. ByteBits -> Bit]
      BY <3>1 DEF Byte
    <3>3. Leads(mask[w + 1], ByteBits, q)
      BY <1>6, <3>1, <3>2, OnesLead, Sizes
    <3>4. q \in Nat /\ q < ByteBits
      <4>1. q \in 0 .. ByteBits
        BY <3>3 DEF Leads
      <4>2. q # ByteBits
        BY <1>4, <3>1, <3>3 DEF Leads
      <4> QED
        BY <4>1, <4>2, Sizes
    <3>5. w * ByteBits + ByteBits <= Bits6
      <4>1. (w + 1) * ByteBits <= V6Bytes * ByteBits /\ (w + 1) * ByteBits = w * ByteBits + ByteBits
        BY <1>9, <3>1, Sizes, LaterRow, Products
      <4> QED
        BY <4>1 DEF Bits6
    <3>6. PICK z : z = w * ByteBits
      OBVIOUS
    <3>7. /\ z \in Nat /\ z + ByteBits <= Bits6 /\ z + q \in 0 .. Bits6 /\ z + q < Bits6
          /\ (z + q) + 1 = z + (q + 1) /\ q + 1 \in 1 .. ByteBits
      BY <1>9, <3>4, <3>5, <3>6, Sizes
    <3>8. flat[z + (q + 1)] = 0
      <4>1. flat[w * ByteBits + (q + 1)] = mask[w + 1][q + 1]
        BY <1>8, <3>1, <3>7
      <4>2. mask[w + 1][q + 1] = 0
        BY <3>3, <3>4 DEF Leads
      <4> QED
        BY <3>6, <4>1, <4>2
    <3>9. ASSUME NEW i \in 1 .. z + q
          PROVE  flat[i] = 1
      <4>1. CASE i <= z
        <5>1. i \in 1 .. Bits6
          BY <3>4, <3>7, <4>1, Sizes
        <5> QED
          BY <1>10, <3>6, <4>1, <5>1
      <4>2. CASE ~ (i <= z)
        <5>1. PICK k : k = i - z
          OBVIOUS
        <5>2. k \in 1 .. q /\ k \in 1 .. ByteBits /\ i = z + k
          BY <3>4, <3>7, <4>2, <5>1, Sizes
        <5>3. flat[w * ByteBits + k] = mask[w + 1][k]
          BY <1>8, <3>1, <5>2
        <5>4. mask[w + 1][k] = 1
          BY <3>3, <5>2 DEF Leads
        <5> QED
          BY <3>6, <5>2, <5>3, <5>4
      <4> QED
        BY <4>1, <4>2
    <3>10. Leads(flat, Bits6, z + q)
      BY <3>7, <3>8, <3>9 DEF Leads
    <3> QED
      BY <3>6, <3>10
  <2> QED
    BY <2>1, <2>2
<1>12. LeadingOnes(flat) = w * ByteBits + q
  BY <1>8, <1>11, OnesCounted, Sizes
<1> QED
  BY <1>7, <1>12 DEF flat

\* The bits of the key that is built from bytes are those the comment has.
LEMMA KeyBits ==
    ASSUME NEW ip \in [1 .. V6Bytes -> Byte], NEW n \in Nat
    PROVE  /\ SubnetKeyV6(ip, n)[1] \in [1 .. V6Bytes -> Byte]
           /\ FlatV6(SubnetKeyV6(ip, n)[1]) = Keep(FlatV6(ip), n)
<1> DEFINE key == SubnetKeyV6(ip, n)[1]
<1>1. PICK h, r : h = n \div ByteBits /\ r = n % ByteBits
  OBVIOUS
<1>2. h \in Nat /\ r \in 0 .. ByteBits - 1 /\ n = h * ByteBits + r /\ h * ByteBits \in Nat
  BY <1>1, Sizes, Quotient, Products
<1>3. key = [b \in 1 .. V6Bytes |->
                IF b <= h THEN ip[b] ELSE Keep(ip[b], IF b = h + 1 THEN r ELSE 0)]
  BY <1>1 DEF SubnetKeyV6
<1>4. \A b \in 1 .. V6Bytes : ip[b] \in [1 .. ByteBits -> Bit]
  BY DEF Byte
<1> HIDE DEF key
<1>5. ASSUME NEW a \in 0 .. V6Bytes - 1, NEW k \in 1 .. ByteBits
      PROVE  key[a + 1][k] = IF a * ByteBits + k <= n THEN ip[a + 1][k] ELSE 0
  <2>1. a \in Nat /\ a * ByteBits \in Nat /\ a + 1 \in 1 .. V6Bytes
    BY Sizes, Products
  <2>2. ip[a + 1] \in [1 .. ByteBits -> Bit]
    BY <1>4, <2>1
  <2>3. CASE a < h
    <3>1. (a + 1) * ByteBits <= h * ByteBits /\ (a + 1) * ByteBits = a * ByteBits + ByteBits
      BY <1>2, <2>1, <2>3, Sizes, LaterRow, Products
    <3>2. a * ByteBits + k <= n
      BY <1>2, <2>1, <3>1, Sizes
    <3>3. a + 1 <= h
      BY <1>2, <2>1, <2>3
    <3> QED
      BY <1>3, <2>1, <3>2, <3>3
  <2>4. CASE a = h
    <3>1. a * ByteBits + k <= n <=> k <= r
      BY <1>2, <2>1, <2>4, Sizes
    <3>2. key[a + 1] = Keep(ip[a + 1], r)
      BY <1>2, <1>3, <2>1, <2>4
    <3> QED
      BY <2>2, <3>1, <3>2 DEF Keep
  <2>5. CASE h < a
    <3>1. (h + 1) * ByteBits <= a * ByteBits /\ (h + 1) * ByteBits = h * ByteBits + ByteBits
      BY <1>2, <2>1, <2>5, Sizes, LaterRow, Products
    <3>2. ~ (a * ByteBits + k <= n)
      BY <1>2, <2>1, <3>1, Sizes
    <3>3. key[a + 1] = Keep(ip[a + 1], 0)
      BY <1>2, <1>3, <2>1, <2>5
    <3>4. ~ (k <= 0)
      OBVIOUS
    <3> QED
      BY <2>2, <3>2, <3>3, <3>4 DEF Keep
  <2> QED
    BY <1>2, <2>1, <2>3, <2>4, <2>5
<1>6. key \in [1 .. V6Bytes -> Byte]
  <2>1. ASSUME NEW b \in 1 .. V6Bytes
        PROVE  key[b] \in [1 .. ByteBits -> Bit]
    <3>1. ip[b] \in [1 .. ByteBits -> Bit] /\ 0 \in Bit
      BY <1>4 DEF Bit
    <3>2. \A m : Keep(ip[b], m) \in [1 .. ByteBits -> Bit]
      BY <3>1 DEF Keep
    <3>3. key[b] = ip[b] \/ \E m : key[b] = Keep(ip[b], m)
      BY <1>3
    <3> QED
      BY <3>1, <3>2, <3>3
  <2> QED
    BY <1>3, <2>1 DEF Byte
<1>7. ASSUME NEW i \in 1 .. Bits6
      PROVE  FlatV6(key)[i] = IF i <= n THEN FlatV6(ip)[i] ELSE 0
  <2>1. PICK a \in 0 .. V6Bytes - 1, k \in 1 .. ByteBits : i = a * ByteBits + k
    BY ByteOfBit
  <2>2. FlatV6(key)[i] = key[a + 1][k] /\ FlatV6(ip)[i] = ip[a + 1][k]
    BY <1>6, <2>1, FlatBits
  <2> QED
    BY <1>5, <2>1, <2>2
<1>8. /\ FlatV6(key) = [i \in 1 .. Bits6 |-> FlatV6(key)[i]]
      /\ DOMAIN FlatV6(ip) = 1 .. Bits6
  BY DEF FlatV6, Bits6
<1>9. Keep(FlatV6(ip), n) = [i \in 1 .. Bits6 |-> IF i <= n THEN FlatV6(ip)[i] ELSE 0]
  BY <1>8 DEF Keep
<1>10. FlatV6(key) = Keep(FlatV6(ip), n)
  BY <1>7, <1>8, <1>9
<1> QED
  BY <1>6, <1>10 DEF key

\* A node of a list of getifaddrs that has an address.
Attached(f) ==
    /\ IsInterface(f) /\ Addressable(f)
    /\ f.family = "v4" => Contiguous(f.mask)

LEMMA AttachedV4 ==
    ASSUME NEW f, Attached(f), f.family = "v4"
    PROVE  /\ PrefixOf(f) \in Nat
           /\ KeyOf(f) = <<"v4", <<Keep(f.ip, PrefixOf(f)), PrefixOf(f)>>>>
           /\ SubnetOf(f) = <<"v4", Keep(f.ip, PrefixOf(f)), PrefixOf(f)>>
<1>1. Address[f.family] = [1 .. V4Bits -> Bit]
  BY DEF Address
<1>2. f.ip \in [1 .. V4Bits -> Bit] /\ f.mask \in [1 .. V4Bits -> Bit] /\ Contiguous(f.mask)
  BY <1>1 DEF Attached, IsInterface
<1>3. PrefixOf(f) = LeadingOnes(f.mask)
  BY DEF PrefixOf, PrefixFromMaskV4
<1>4. PrefixOf(f) \in Nat
  BY <1>2, <1>3, OnesLead, Sizes DEF Leads
<1>5. KeyOf(f) = <<"v4", <<Keep(f.ip, PrefixOf(f)), PrefixOf(f)>>>>
  BY DEF KeyOf, SubnetKeyV4
<1>6. SubnetOf(f) = <<"v4", [i \in 1 .. V4Bits |-> f.ip[i] * f.mask[i]], PopCount(f.mask)>>
  BY DEF SubnetOf
<1>7. /\ [i \in 1 .. V4Bits |-> f.ip[i] * f.mask[i]] = Keep(f.ip, LeadingOnes(f.mask))
      /\ PopCount(f.mask) = LeadingOnes(f.mask)
  BY <1>2, Masked, Popcount, Sizes
<1> QED
  BY <1>3, <1>4, <1>5, <1>6, <1>7

LEMMA AttachedV6 ==
    ASSUME NEW f, Attached(f), f.family # "v4"
    PROVE  /\ f.family = "v6" /\ PrefixOf(f) \in Nat /\ f.ip \in [1 .. V6Bytes -> Byte]
           /\ KeyOf(f) = <<"v6", <<SubnetKeyV6(f.ip, PrefixOf(f))[1], PrefixOf(f)>>>>
           /\ SubnetOf(f) = <<"v6", Keep(FlatV6(f.ip), PrefixOf(f)), PrefixOf(f)>>
<1>1. f.family = "v6"
  BY DEF Attached, Addressable
<1>2. Address[f.family] = [1 .. V6Bytes -> Byte]
  BY <1>1 DEF Address
<1>3. f.ip \in [1 .. V6Bytes -> Byte] /\ f.mask \in [1 .. V6Bytes -> Byte]
  BY <1>2 DEF Attached, IsInterface
<1>4. PrefixOf(f) = LeadingOnes(FlatV6(f.mask))
  BY <1>3, PrefixOfBytes DEF PrefixOf
<1>5. PrefixOf(f) \in Nat
  BY <1>3, <1>4, FlatBits, OnesLead, Sizes DEF Leads
<1>6. SubnetKeyV6(f.ip, PrefixOf(f)) = <<SubnetKeyV6(f.ip, PrefixOf(f))[1], PrefixOf(f)>>
  BY DEF SubnetKeyV6
<1>7. KeyOf(f) = <<"v6", SubnetKeyV6(f.ip, PrefixOf(f))>>
  BY <1>1 DEF KeyOf
<1>8. SubnetOf(f) = <<"v6", Keep(FlatV6(f.ip), PrefixOf(f)), PrefixOf(f)>>
  BY <1>1, <1>4 DEF SubnetOf
<1> QED
  BY <1>1, <1>3, <1>5, <1>6, <1>7, <1>8

\* The keys of two nodes are the same text exactly if the nodes are in one subnet, as the head
\* of get_server_ip_addresses.c defines it bit by bit; and a subnet has one prefix.
THEOREM SameKeySameSubnet ==
    \A f, g : Attached(f) /\ Attached(g) =>
        /\ KeyOf(f) = KeyOf(g) <=> SubnetOf(f) = SubnetOf(g)
        /\ SubnetOf(f)[3] = PrefixOf(f)
<1> SUFFICES ASSUME NEW f, NEW g, Attached(f), Attached(g)
             PROVE  /\ KeyOf(f) = KeyOf(g) <=> SubnetOf(f) = SubnetOf(g)
                    /\ SubnetOf(f)[3] = PrefixOf(f)
  OBVIOUS
<1>1. SubnetOf(f)[3] = PrefixOf(f)
  BY AttachedV4, AttachedV6
<1>2. CASE f.family = "v4" /\ g.family = "v4"
  <2>1. /\ KeyOf(f) = <<"v4", <<Keep(f.ip, PrefixOf(f)), PrefixOf(f)>>>>
        /\ KeyOf(g) = <<"v4", <<Keep(g.ip, PrefixOf(g)), PrefixOf(g)>>>>
        /\ SubnetOf(f) = <<"v4", Keep(f.ip, PrefixOf(f)), PrefixOf(f)>>
        /\ SubnetOf(g) = <<"v4", Keep(g.ip, PrefixOf(g)), PrefixOf(g)>>
    BY <1>2, AttachedV4
  <2> QED
    BY <1>1, <2>1
<1>3. CASE f.family # "v4" /\ g.family # "v4"
  <2>1. /\ KeyOf(f) = <<"v6", <<SubnetKeyV6(f.ip, PrefixOf(f))[1], PrefixOf(f)>>>>
        /\ KeyOf(g) = <<"v6", <<SubnetKeyV6(g.ip, PrefixOf(g))[1], PrefixOf(g)>>>>
        /\ SubnetOf(f) = <<"v6", Keep(FlatV6(f.ip), PrefixOf(f)), PrefixOf(f)>>
        /\ SubnetOf(g) = <<"v6", Keep(FlatV6(g.ip), PrefixOf(g)), PrefixOf(g)>>
    BY <1>3, AttachedV6
  <2>2. /\ f.ip \in [1 .. V6Bytes -> Byte] /\ PrefixOf(f) \in Nat
        /\ g.ip \in [1 .. V6Bytes -> Byte] /\ PrefixOf(g) \in Nat
    BY <1>3, AttachedV6
  <2>3. SubnetKeyV6(f.ip, PrefixOf(f))[1] = SubnetKeyV6(g.ip, PrefixOf(g))[1]
          <=> Keep(FlatV6(f.ip), PrefixOf(f)) = Keep(FlatV6(g.ip), PrefixOf(g))
    <3>1. /\ SubnetKeyV6(f.ip, PrefixOf(f))[1] \in [1 .. V6Bytes -> Byte]
          /\ SubnetKeyV6(g.ip, PrefixOf(g))[1] \in [1 .. V6Bytes -> Byte]
          /\ FlatV6(SubnetKeyV6(f.ip, PrefixOf(f))[1]) = Keep(FlatV6(f.ip), PrefixOf(f))
          /\ FlatV6(SubnetKeyV6(g.ip, PrefixOf(g))[1]) = Keep(FlatV6(g.ip), PrefixOf(g))
      BY <2>2, KeyBits
    <3> QED
      BY <3>1, FlatOne
  <2> QED
    BY <1>1, <2>1, <2>3
<1>4. CASE (f.family = "v4") # (g.family = "v4")
  <2>1. KeyOf(f)[1] # KeyOf(g)[1] /\ SubnetOf(f)[1] # SubnetOf(g)[1]
    BY <1>4, AttachedV4, AttachedV6
  <2> QED
    BY <1>1, <2>1
<1> QED
  BY <1>2, <1>3, <1>4

\* Entries that read the same are of one subnet.
LEMMA SameEntrySameKey ==
    ASSUME NEW f, NEW g, EntryOf(f) = EntryOf(g)
    PROVE  KeyOf(f) = KeyOf(g)
BY DEF EntryOf, KeyOf
--------------------------------------------------------------------------------
(***************************************************************************)
(* The scan.                                                               *)
(***************************************************************************)
Nodes == {j \in DOMAIN interfaces : Addressable(interfaces[j])}
Same(i, j) == SubnetOf(interfaces[i]) = SubnetOf(interfaces[j])
Lost(j) == SubnetOf(interfaces[j]) \in dropped

\* What may be in the lists.
Keys == {KeyOf(interfaces[j]) : j \in Nodes}
Entries == {EntryOf(interfaces[j]) : j \in Nodes}

\* The keys met are those of nodes behind the scan, and all of them that were not lost.
SeenSoFar ==
    /\ seen \in [capacity : Nat, items : Seq(Keys)]
    /\ \A k \in DOMAIN seen.items :
          \E j \in Nodes : j < ifa /\ seen.items[k] = KeyOf(interfaces[j])
    /\ \A j \in Nodes : j < ifa /\ ~ Lost(j) => InList(seen, KeyOf(interfaces[j]))

\* An entry is that of the first node of its subnet, the only entry the subnet has, and a
\* subnet that was met has one; unless the subnet was lost.
ListedSoFar ==
    /\ result \in [capacity : Nat, items : Seq(Entries)]
    /\ \A k \in DOMAIN result.items : \E j \in Nodes :
          /\ j < ifa /\ result.items[k] = EntryOf(interfaces[j])
          /\ ~ Lost(j) => \A i \in Nodes : Same(i, j) => j <= i
    /\ \A j \in Nodes : j < ifa /\ ~ Lost(j) =>
          \E k \in DOMAIN result.items, i \in Nodes :
              Same(i, j) /\ result.items[k] = EntryOf(interfaces[i])
    /\ \A k, l \in DOMAIN result.items : \A i, j \in Nodes :
          /\ result.items[k] = EntryOf(interfaces[i]) /\ result.items[l] = EntryOf(interfaces[j])
          /\ Same(i, j) /\ ~ Lost(i)
          => k = l

ScanOK ==
    /\ lookup = "idle" => ifa = 1 /\ seen = NoList /\ result = NoList /\ dropped = {}
    /\ lookup \in {"scan", "print"} => interfaces \in InterfaceLists /\ ListedSoFar
    /\ lookup = "scan" => ifa \in 1 .. Len(interfaces) + 1 /\ SeenSoFar
    /\ lookup = "print" => ifa = Len(interfaces) + 1

\* What a push leaves in a list: what was there, and the text behind it or not.
Pushes(list, text, after) ==
    \E n \in Nat :
        /\ DOMAIN list.items = 1 .. n
        /\ \/ after.items = list.items /\ ~ Took(list, after)
           \/ /\ DOMAIN after.items = 1 .. n + 1
              /\ \A k \in 1 .. n : after.items[k] = list.items[k]
              /\ after.items[n + 1] = text

LEMMA Pushed ==
    ASSUME NEW S, NEW list \in [capacity : Nat, items : Seq(S)], NEW text \in S,
           NEW after \in PushOutcomes(list, text)
    PROVE  after \in [capacity : Nat, items : Seq(S)] /\ Pushes(list, text, after)
<1>1. list.items \in Seq(S) /\ list.capacity \in Nat
  OBVIOUS
<1>2. PICK n : n = Len(list.items)
  OBVIOUS
<1>3. n \in Nat /\ DOMAIN list.items = 1 .. n
  BY <1>1, <1>2, LenProperties
<1>4. PICK room \in Nat :
        \/ after = [capacity |-> room, items |-> Append(list.items, text)]
        \/ after = [list EXCEPT !.capacity = room]
        \/ after = list
  <2>1. ListCapacity \in Nat /\ list.capacity * 2 \in Nat
    BY <1>1, AddressLogAssumption
  <2> QED
    BY <1>1, <2>1 DEF PushOutcomes
<1>5. CASE after = [capacity |-> room, items |-> Append(list.items, text)]
  <2>1. /\ Append(list.items, text) \in Seq(S)
        /\ Len(Append(list.items, text)) = n + 1
        /\ \A i \in 1 .. n : Append(list.items, text)[i] = list.items[i]
        /\ Append(list.items, text)[n + 1] = text
    BY <1>1, <1>2, AppendProperties
  <2>2. DOMAIN Append(list.items, text) = 1 .. n + 1
    BY <2>1, LenProperties
  <2>3. after.items = Append(list.items, text)
    BY <1>5
  <2> QED
    BY <1>3, <1>5, <2>1, <2>2, <2>3 DEF Pushes
<1>6. CASE after = [list EXCEPT !.capacity = room] \/ after = list
  <2>1. after.items = list.items /\ after \in [capacity : Nat, items : Seq(S)]
    BY <1>6
  <2>2. ~ Took(list, after)
    BY <1>2, <1>3, <2>1 DEF Took
  <2> QED
    BY <1>3, <2>1, <2>2 DEF Pushes
<1> QED
  BY <1>4, <1>5, <1>6

LEMMA ListedNodes ==
    ASSUME interfaces \in InterfaceLists
    PROVE  /\ Len(interfaces) \in Nat /\ DOMAIN interfaces = 1 .. Len(interfaces)
           /\ \A i, j \in Nodes :
                /\ KeyOf(interfaces[i]) = KeyOf(interfaces[j]) <=> Same(i, j)
                /\ EntryOf(interfaces[i]) = EntryOf(interfaces[j]) => Same(i, j)
           /\ \A i \in Nodes : SubnetOf(interfaces[i])[3] = PrefixOf(interfaces[i])
<1>1. /\ Len(interfaces) \in Nat /\ DOMAIN interfaces = 1 .. Len(interfaces)
      /\ \A i \in Nodes : Attached(interfaces[i])
  BY AddressLogAssumption DEF Attached, Nodes
<1>2. ASSUME NEW i \in Nodes, NEW j \in Nodes
      PROVE  /\ KeyOf(interfaces[i]) = KeyOf(interfaces[j]) <=> Same(i, j)
             /\ EntryOf(interfaces[i]) = EntryOf(interfaces[j]) => Same(i, j)
             /\ SubnetOf(interfaces[i])[3] = PrefixOf(interfaces[i])
  <2>1. Attached(interfaces[i]) /\ Attached(interfaces[j])
    BY <1>1
  <2> QED
    BY <2>1, SameKeySameSubnet, SameEntrySameKey DEF Same
<1> QED
  BY <1>1, <1>2

LEMMA ScanStep ==
    ASSUME lookup = "scan", interfaces \in InterfaceLists, ifa \in 1 .. Len(interfaces) + 1,
           SeenSoFar, ListedSoFar, ScanInterface
    PROVE  SeenSoFar' /\ ListedSoFar' /\ ifa' \in 1 .. Len(interfaces) + 1
<1>1. /\ Len(interfaces) \in Nat /\ DOMAIN interfaces = 1 .. Len(interfaces)
      /\ \A i, j \in Nodes :
            /\ KeyOf(interfaces[i]) = KeyOf(interfaces[j]) <=> Same(i, j)
            /\ EntryOf(interfaces[i]) = EntryOf(interfaces[j]) => Same(i, j)
  BY ListedNodes
<1>2. ifa \in DOMAIN interfaces /\ ifa' = ifa + 1 /\ ifa \in Nat /\ interfaces' = interfaces
  BY <1>1 DEF ScanInterface
<1>3. /\ Nodes' = Nodes /\ Keys' = Keys /\ Entries' = Entries
      /\ \A i, j : Same(i, j)' <=> Same(i, j)
  BY <1>2 DEF Nodes, Keys, Entries, Same
<1>4. Nodes \subseteq Nat /\ \A j \in Nodes : j < ifa + 1 <=> (j < ifa \/ j = ifa)
  <2>1. Nodes \subseteq Nat
    BY <1>1 DEF Nodes
  <2> QED
    BY <1>2, <2>1
<1>5. ifa' \in 1 .. Len(interfaces) + 1
  BY <1>1, <1>2
<1> DEFINE f == interfaces[ifa]
<1>6. PICK at : at = ifa
  OBVIOUS
<1>7. CASE (Addressable(f) => InList(seen, KeyOf(f))) /\ UNCHANGED <<seen, result, dropped>>
  <2>1. \A j : Lost(j)' <=> Lost(j)
    BY <1>2, <1>7 DEF Lost
  <2>2. ASSUME ifa \in Nodes
        PROVE  /\ InList(seen, KeyOf(f))
               /\ \E j \in Nodes : j < ifa /\ Same(j, ifa)
    <3>1. InList(seen, KeyOf(f))
      BY <1>7, <2>2 DEF Nodes
    <3>2. PICK k \in DOMAIN seen.items : seen.items[k] = KeyOf(f)
      BY <3>1 DEF InList
    <3>3. PICK j \in Nodes : j < ifa /\ seen.items[k] = KeyOf(interfaces[j])
      BY <3>2 DEF SeenSoFar
    <3> QED
      BY <1>1, <2>2, <3>1, <3>2, <3>3
  <2>3. SeenSoFar'
    BY <1>2, <1>3, <1>4, <1>7, <2>1, <2>2 DEF SeenSoFar, InList
  <2>4. ListedSoFar'
    <3>1. ASSUME NEW j \in Nodes, j < ifa + 1, ~ Lost(j)
          PROVE  \E k \in DOMAIN result.items, i \in Nodes :
                    Same(i, j) /\ result.items[k] = EntryOf(interfaces[i])
      <4>1. CASE j < ifa
        BY <3>1, <4>1 DEF ListedSoFar
      <4>2. CASE j = ifa
        <5>1. PICK m \in Nodes : m < ifa /\ Same(m, j)
          BY <2>2, <4>2
        <5>2. ~ Lost(m)
          BY <3>1, <5>1 DEF Lost, Same
        <5>3. PICK k \in DOMAIN result.items, i \in Nodes :
                Same(i, m) /\ result.items[k] = EntryOf(interfaces[i])
          BY <5>1, <5>2 DEF ListedSoFar
        <5>4. Same(i, j)
          BY <5>1, <5>3 DEF Same
        <5> QED
          BY <5>3, <5>4
      <4> QED
        BY <1>4, <3>1, <4>1, <4>2
    <3> QED
      BY <1>2, <1>3, <1>4, <1>7, <2>1, <3>1 DEF ListedSoFar
  <2> QED
    BY <1>5, <2>3, <2>4
<1>8. CASE /\ ~ (Addressable(f) => InList(seen, KeyOf(f)))
           /\ seen' \in PushOutcomes(seen, KeyOf(f))
           /\ result' \in PushOutcomes(result, EntryOf(f))
           /\ dropped' = IF Took(seen, seen') /\ Took(result, result')
                         THEN dropped ELSE dropped \cup {SubnetOf(f)}
  <2>1. ifa \in Nodes /\ ~ InList(seen, KeyOf(f))
    BY <1>2, <1>8 DEF Nodes
  <2>2. KeyOf(f) \in Keys /\ EntryOf(f) \in Entries
    BY <2>1 DEF Keys, Entries
  <2>3. /\ seen \in [capacity : Nat, items : Seq(Keys)]
        /\ result \in [capacity : Nat, items : Seq(Entries)]
    BY DEF SeenSoFar, ListedSoFar
  <2>4. seen' \in PushOutcomes(seen, KeyOf(f)) /\ result' \in PushOutcomes(result, EntryOf(f))
    BY <1>8
  <2> HIDE DEF f
  <2>5. seen' \in [capacity : Nat, items : Seq(Keys)] /\ Pushes(seen, KeyOf(f), seen')
    BY <2>2, <2>3, <2>4, Pushed
  <2>6. result' \in [capacity : Nat, items : Seq(Entries)] /\ Pushes(result, EntryOf(f), result')
    BY <2>2, <2>3, <2>4, Pushed
  <2> USE DEF f
  <2>7. PICK m \in Nat, n \in Nat :
          /\ DOMAIN seen.items = 1 .. m
          /\ \/ seen'.items = seen.items /\ ~ Took(seen, seen')
             \/ /\ DOMAIN seen'.items = 1 .. m + 1
                /\ \A k \in 1 .. m : seen'.items[k] = seen.items[k]
                /\ seen'.items[m + 1] = KeyOf(f)
          /\ DOMAIN result.items = 1 .. n
          /\ \/ result'.items = result.items /\ ~ Took(result, result')
             \/ /\ DOMAIN result'.items = 1 .. n + 1
                /\ \A k \in 1 .. n : result'.items[k] = result.items[k]
                /\ result'.items[n + 1] = EntryOf(f)
    BY <2>5, <2>6 DEF Pushes
\* A subnet is lost unless it was before, or is this one.
  <2>8. /\ \A j : Lost(j) => Lost(j)'
        /\ \A j : Lost(j)' => Lost(j) \/ Same(j, ifa)
        /\ ~ Lost(at)' => /\ DOMAIN seen'.items = 1 .. m + 1
                           /\ seen'.items[m + 1] = KeyOf(f)
                           /\ DOMAIN result'.items = 1 .. n + 1
                           /\ result'.items[n + 1] = EntryOf(f)
    <3>1. dropped' = dropped \/ dropped' = dropped \cup {SubnetOf(f)}
      BY <1>8
    <3>2. \A j : Lost(j)' <=> SubnetOf(interfaces[j]) \in dropped'
      BY <1>2 DEF Lost
    <3>3. ~ Lost(at)' => Took(seen, seen') /\ Took(result, result')
      BY <1>6, <1>8, <3>2
    <3> QED
      BY <1>6, <2>7, <3>1, <3>2, <3>3 DEF Lost, Same
\* What was met and listed still is.
  <2>9. /\ DOMAIN seen.items \subseteq DOMAIN seen'.items
        /\ \A k \in DOMAIN seen.items : seen'.items[k] = seen.items[k]
        /\ \A k \in DOMAIN seen'.items : k \in DOMAIN seen.items \/ seen'.items[k] = KeyOf(f)
        /\ DOMAIN result.items \subseteq DOMAIN result'.items
        /\ \A k \in DOMAIN result.items : result'.items[k] = result.items[k]
        /\ \A k \in DOMAIN result'.items :
                \/ k \in DOMAIN result.items
                \/ k = n + 1 /\ result'.items[k] = EntryOf(f)
    <3>1. /\ \A k \in 1 .. m + 1 : k \in 1 .. m \/ k = m + 1
          /\ \A k \in 1 .. n + 1 : k \in 1 .. n \/ k = n + 1
          /\ 1 .. m \subseteq 1 .. m + 1 /\ 1 .. n \subseteq 1 .. n + 1
      OBVIOUS
    <3>2. /\ DOMAIN seen.items \subseteq DOMAIN seen'.items
          /\ \A k \in DOMAIN seen.items : seen'.items[k] = seen.items[k]
          /\ \A k \in DOMAIN seen'.items : k \in DOMAIN seen.items \/ seen'.items[k] = KeyOf(f)
      BY <2>7, <3>1
    <3>3. /\ DOMAIN result.items \subseteq DOMAIN result'.items
          /\ \A k \in DOMAIN result.items : result'.items[k] = result.items[k]
          /\ \A k \in DOMAIN result'.items :
                \/ k \in DOMAIN result.items
                \/ k = n + 1 /\ result'.items[k] = EntryOf(f)
      BY <2>7, <3>1
    <3> QED
      BY <3>2, <3>3
\* No node behind the scan is in this subnet, unless the subnet was lost.
  <2>10. ASSUME NEW j \in Nodes, j < ifa, Same(j, ifa)
         PROVE  Lost(j)
    <3>1. KeyOf(interfaces[j]) = KeyOf(f)
      BY <1>1, <2>1, <2>10
    <3> QED
      BY <2>1, <2>10, <3>1 DEF SeenSoFar
  <2>11. SeenSoFar'
    <3>1. ASSUME NEW k \in DOMAIN seen'.items
          PROVE  \E j \in Nodes : j < ifa + 1 /\ seen'.items[k] = KeyOf(interfaces[j])
      <4>1. CASE k \in DOMAIN seen.items
        <5>1. PICK j \in Nodes : j < ifa /\ seen.items[k] = KeyOf(interfaces[j])
          BY <4>1 DEF SeenSoFar
        <5> QED
          BY <1>4, <2>9, <4>1, <5>1
      <4>2. CASE seen'.items[k] = KeyOf(f)
        BY <1>4, <2>1, <4>2
      <4> QED
        BY <2>9, <3>1, <4>1, <4>2
    <3>2. ASSUME NEW j \in Nodes, j < ifa + 1, ~ Lost(j)'
          PROVE  \E k \in DOMAIN seen'.items : seen'.items[k] = KeyOf(interfaces[j])
      <4>1. CASE j < ifa
        <5>1. ~ Lost(j)
          BY <2>8, <3>2
        <5>2. PICK k \in DOMAIN seen.items : seen.items[k] = KeyOf(interfaces[j])
          BY <4>1, <5>1 DEF SeenSoFar, InList
        <5> QED
          BY <2>9, <5>2
      <4>2. CASE j = ifa
        BY <1>6, <2>8, <3>2, <4>2
      <4> QED
        BY <1>4, <3>2, <4>1, <4>2
    <3> QED
      BY <1>2, <1>3, <2>5, <3>1, <3>2 DEF SeenSoFar, InList
  <2>12. ListedSoFar'
    <3>1. ASSUME NEW k \in DOMAIN result'.items
          PROVE  \E j \in Nodes :
                    /\ j < ifa + 1 /\ result'.items[k] = EntryOf(interfaces[j])
                    /\ ~ Lost(j)' => \A i \in Nodes : Same(i, j) => j <= i
      <4>1. CASE k \in DOMAIN result.items
        <5>1. PICK j \in Nodes :
                 /\ j < ifa /\ result.items[k] = EntryOf(interfaces[j])
                 /\ ~ Lost(j) => \A i \in Nodes : Same(i, j) => j <= i
          BY <4>1 DEF ListedSoFar
        <5> QED
          BY <1>4, <2>8, <2>9, <4>1, <5>1
      <4>2. CASE result'.items[k] = EntryOf(f)
        <5>1. ASSUME ~ Lost(at)', NEW i \in Nodes, Same(i, ifa)
              PROVE  ifa <= i
          <6>1. ~ Lost(i)
            BY <1>6, <2>8, <5>1 DEF Lost, Same
          <6>2. ~ (i < ifa)
            BY <2>10, <5>1, <6>1
          <6> QED
            BY <1>2, <1>4, <6>2
        <5> QED
          BY <1>4, <1>6, <2>1, <4>2, <5>1
      <4> QED
        BY <2>9, <3>1, <4>1, <4>2
    <3>2. ASSUME NEW j \in Nodes, j < ifa + 1, ~ Lost(j)'
          PROVE  \E k \in DOMAIN result'.items, i \in Nodes :
                    Same(i, j) /\ result'.items[k] = EntryOf(interfaces[i])
      <4>1. CASE j < ifa
        <5>1. ~ Lost(j)
          BY <2>8, <3>2
        <5>2. PICK k \in DOMAIN result.items, i \in Nodes :
                Same(i, j) /\ result.items[k] = EntryOf(interfaces[i])
          BY <4>1, <5>1 DEF ListedSoFar
        <5> QED
          BY <2>9, <5>2
      <4>2. CASE j = ifa
        <5>1. n + 1 \in DOMAIN result'.items /\ result'.items[n + 1] = EntryOf(f)
          BY <1>6, <2>8, <3>2, <4>2
        <5>2. Same(ifa, j)
          BY <4>2 DEF Same
        <5> QED
          BY <2>1, <5>1, <5>2
      <4> QED
        BY <1>4, <3>2, <4>1, <4>2
\* No entry is of this subnet, unless the subnet was lost.
    <3>3. ASSUME NEW k \in DOMAIN result.items, NEW i \in Nodes, Same(i, ifa),
                 result.items[k] = EntryOf(interfaces[i])
          PROVE  Lost(ifa)
      <4>1. PICK j \in Nodes : j < ifa /\ result.items[k] = EntryOf(interfaces[j])
        BY DEF ListedSoFar
      <4>2. Same(i, j)
        BY <1>1, <3>3, <4>1
      <4>3. Same(j, ifa)
        BY <3>3, <4>2 DEF Same
      <4>4. Lost(j)
        BY <2>10, <4>1, <4>3
      <4> QED
        BY <4>3, <4>4 DEF Lost, Same
    <3>4. ASSUME NEW k \in DOMAIN result'.items, NEW l \in DOMAIN result'.items,
                 NEW i \in Nodes, NEW j \in Nodes,
                 result'.items[k] = EntryOf(interfaces[i]),
                 result'.items[l] = EntryOf(interfaces[j]),
                 Same(i, j), ~ Lost(i)'
          PROVE  k = l
      <4>1. ~ Lost(i) /\ ~ Lost(j)
        BY <2>8, <3>4 DEF Lost, Same
      <4>2. CASE k \in DOMAIN result.items /\ l \in DOMAIN result.items
        BY <2>9, <3>4, <4>1, <4>2 DEF ListedSoFar
      <4>3. CASE k \in DOMAIN result.items /\ l \notin DOMAIN result.items
        <5>1. EntryOf(interfaces[j]) = EntryOf(f)
          BY <2>9, <3>4, <4>3
        <5>2. Same(j, ifa)
          BY <1>1, <2>1, <5>1
        <5>3. Same(i, ifa) /\ ~ Lost(ifa)
          BY <3>4, <4>1, <5>2 DEF Same, Lost
        <5> QED
          BY <2>9, <3>3, <3>4, <4>3, <5>3
      <4>4. CASE k \notin DOMAIN result.items /\ l \in DOMAIN result.items
        <5>1. EntryOf(interfaces[i]) = EntryOf(f)
          BY <2>9, <3>4, <4>4
        <5>2. Same(i, ifa)
          BY <1>1, <2>1, <5>1
        <5>3. Same(j, ifa) /\ ~ Lost(ifa)
          BY <3>4, <4>1, <5>2 DEF Same, Lost
        <5> QED
          BY <2>9, <3>3, <3>4, <4>4, <5>3
      <4>5. CASE k \notin DOMAIN result.items /\ l \notin DOMAIN result.items
        BY <2>9, <4>5
      <4> QED
        BY <4>2, <4>3, <4>4, <4>5
    <3> QED
      BY <1>2, <1>3, <2>6, <3>1, <3>2, <3>4 DEF ListedSoFar
  <2> QED
    BY <1>5, <2>11, <2>12
<1> QED
  BY <1>7, <1>8 DEF ScanInterface

--------------------------------------------------------------------------------
LEMMA ScanStart == AddressInit => ScanOK
BY DEF AddressInit, ScanOK

LEMMA ScanOKStep ==
    ASSUME AddressOK, ScanOK, [AddressNext]_addressVars
    PROVE  ScanOK'
<1> USE DEF Goes
<1>1. CASE GetInterfaces
  <2>1. ifa' = 1 /\ seen' = NoList /\ result' = NoList /\ dropped' = {}
    BY <1>1 DEF GetInterfaces, ScanOK
  <2>2. CASE lookup' = "router"
    BY <2>2 DEF ScanOK
  <2>3. CASE interfaces' \in InterfaceLists /\ lookup' = "scan"
    <3>1. Len(interfaces') \in Nat /\ DOMAIN interfaces' = 1 .. Len(interfaces')
      BY <2>3, AddressLogAssumption
    <3>2. \A j \in 1 .. Len(interfaces') : ~ (j < 1)
      OBVIOUS
    <3>3. Nodes' \subseteq 1 .. Len(interfaces')
      BY <3>1 DEF Nodes
    <3>4. /\ NoList.items = <<>> /\ DOMAIN NoList.items = {}
          /\ \A S : NoList \in [capacity : Nat, items : Seq(S)]
      BY DEF NoList
    <3>5. SeenSoFar' /\ ListedSoFar'
      BY <2>1, <3>2, <3>3, <3>4 DEF SeenSoFar, ListedSoFar
    <3> QED
      BY <2>1, <2>3, <3>1, <3>5 DEF ScanOK
  <2> QED
    BY <1>1, <2>2, <2>3 DEF GetInterfaces
<1>2. CASE ScanInterface
  <2>1. lookup = "scan" /\ lookup' = "scan" /\ interfaces' = interfaces
    BY <1>2 DEF ScanInterface
  <2>2. /\ interfaces \in InterfaceLists /\ ifa \in 1 .. Len(interfaces) + 1
        /\ SeenSoFar /\ ListedSoFar
    BY <2>1 DEF ScanOK
  <2>3. SeenSoFar' /\ ListedSoFar' /\ ifa' \in 1 .. Len(interfaces) + 1
    BY <1>2, <2>1, <2>2, ScanStep
  <2> QED
    BY <2>1, <2>2, <2>3 DEF ScanOK
<1>3. CASE EndScan
  <2>1. /\ lookup = "scan" /\ ifa > Len(interfaces) /\ lookup' = "print"
        /\ UNCHANGED <<interfaces, ifa, result, dropped>>
    BY <1>3 DEF EndScan
  <2>2. interfaces \in InterfaceLists /\ ifa \in 1 .. Len(interfaces) + 1 /\ ListedSoFar
    BY <2>1 DEF ScanOK
  <2>3. ifa = Len(interfaces) + 1
    BY <2>1, <2>2, AddressLogAssumption
  <2>4. ListedSoFar'
    BY <2>1, <2>2 DEF ListedSoFar, Entries, Nodes, Same, Lost
  <2> QED
    BY <2>1, <2>2, <2>3, <2>4 DEF ScanOK
<1>4. CASE PrintLocal \/ Discover \/ FindGateway \/ AskGateway \/ InitCurl \/ Transfer
             \/ PrintPublic
  <2>1. lookup' \notin {"idle", "scan", "print"}
    BY <1>4 DEF PrintLocal, Discover, FindGateway, AskGateway, InitCurl, Transfer, PrintPublic
  <2> QED
    BY <2>1 DEF ScanOK
<1>5. CASE EndLookup
  BY <1>5 DEF EndLookup, ScanOK, AddressOK
<1>6. CASE UNCHANGED addressVars
  <2>1. UNCHANGED <<lookup, interfaces, ifa, seen, result, dropped>>
    BY <1>6 DEF addressVars, scanVars
  <2> QED
    BY <2>1 DEF ScanOK, SeenSoFar, ListedSoFar, InList, Keys, Entries, Nodes, Same, Lost
<1> QED
  BY <1>1, <1>2, <1>3, <1>4, <1>5, <1>6 DEF AddressNext

\* When the scan is over, what it listed is what the comment promises.
LEMMA ListedWhole == ScanOK => OneAddressPerSubnet
<1> SUFFICES ASSUME ScanOK, lookup = "print",
                    NEW i \in DOMAIN interfaces, Addressable(interfaces[i]),
                    SubnetOf(interfaces[i]) \notin dropped
             PROVE  LET subnet == SubnetOf(interfaces[i])
                        members == {j \in DOMAIN interfaces :
                                       /\ Addressable(interfaces[j])
                                       /\ SubnetOf(interfaces[j]) = subnet}
                        first == interfaces[CHOOSE j \in members : \A k \in members : j <= k]
                        Printed(f) == <<f.family, f.ip, subnet[3]>>
                        listed == {k \in DOMAIN result.items :
                                      \E j \in members : result.items[k] = Printed(interfaces[j])}
                    IN  \E k \in listed : listed = {k} /\ result.items[k] = Printed(first)
  BY DEF OneAddressPerSubnet
<1> DEFINE subnet == SubnetOf(interfaces[i])
           members == {j \in DOMAIN interfaces :
                          Addressable(interfaces[j]) /\ SubnetOf(interfaces[j]) = subnet}
           least == CHOOSE j \in members : \A k \in members : j <= k
           Printed(f) == <<f.family, f.ip, subnet[3]>>
           listed == {k \in DOMAIN result.items :
                         \E j \in members : result.items[k] = Printed(interfaces[j])}
<1>1. interfaces \in InterfaceLists /\ ListedSoFar /\ ifa = Len(interfaces) + 1
  BY DEF ScanOK
<1>2. /\ Len(interfaces) \in Nat /\ DOMAIN interfaces = 1 .. Len(interfaces)
      /\ \A m, j \in Nodes : EntryOf(interfaces[m]) = EntryOf(interfaces[j]) => Same(m, j)
      /\ \A m \in Nodes : SubnetOf(interfaces[m])[3] = PrefixOf(interfaces[m])
  BY <1>1, ListedNodes
<1>3. /\ i \in Nodes /\ ~ Lost(i) /\ members \subseteq Nat /\ i \in members
      /\ \A j : j \in members <=> j \in Nodes /\ Same(j, i)
      /\ \A j \in Nodes : j < ifa
  BY <1>1, <1>2 DEF Nodes, Lost, Same
<1>4. \A j \in members : Printed(interfaces[j]) = EntryOf(interfaces[j])
  BY <1>2, <1>3 DEF EntryOf, Same
<1>5. least \in members /\ \A j \in members : least <= j
  <2> HIDE DEF members
  <2>1. \E j \in members : \A k \in members : j <= k
    BY <1>3, LeastNatural
  <2> QED
    BY <2>1
<1> HIDE DEF members, least, Printed
<1>6. PICK k \in DOMAIN result.items, m \in Nodes :
        Same(m, i) /\ result.items[k] = EntryOf(interfaces[m])
  BY <1>1, <1>3 DEF ListedSoFar
<1>7. PICK j \in Nodes :
        /\ result.items[k] = EntryOf(interfaces[j])
        /\ ~ Lost(j) => \A n \in Nodes : Same(n, j) => j <= n
  BY <1>1, <1>6 DEF ListedSoFar
<1>8. Same(j, i) /\ j \in members /\ ~ Lost(j)
  <2>1. Same(j, m)
    BY <1>2, <1>6, <1>7
  <2> QED
    BY <1>3, <1>6, <2>1 DEF Same, Lost
<1>9. j = least
  <2>1. Same(least, j) /\ least \in Nodes
    BY <1>3, <1>5, <1>8 DEF Same
  <2>2. j <= least /\ least <= j /\ j \in Nat /\ least \in Nat
    BY <1>3, <1>5, <1>7, <1>8, <2>1
  <2> QED
    BY <2>2
<1>10. result.items[k] = Printed(interfaces[least]) /\ k \in listed
  BY <1>4, <1>5, <1>6, <1>7, <1>9
<1>11. ASSUME NEW l \in listed
       PROVE  l = k
  <2>1. PICK n \in members : result.items[l] = EntryOf(interfaces[n])
    BY <1>4
  <2>2. n \in Nodes /\ Same(n, j) /\ ~ Lost(n) /\ l \in DOMAIN result.items
    BY <1>3, <1>8, <2>1 DEF Same, Lost
  <2> QED
    BY <1>1, <1>6, <1>7, <2>1, <2>2 DEF ListedSoFar
<1>12. listed = {k}
  BY <1>10, <1>11
<1> QED
  BY <1>10, <1>12 DEF members, least, Printed

--------------------------------------------------------------------------------
\* Whatever the database and the network hold and whatever fails, the calls of a repository,
\* of database_open and of the address thread, with callers that release what they get as the
\* headers say, free all they were given, and nothing twice: but for the struct of a get.
THEOREM HeapReturnedInvariant == Spec => []HeapReturned
<1>1. Init => MemoryOK /\ AddressOK
  BY MemoryStart, AddressStart DEF Init
<1>2. ASSUME MemoryOK, AddressOK, [Next]_<<filenameVars, addressVars, memoryVars>>
      PROVE  MemoryOK' /\ AddressOK'
  <2>1. [MemoryNext]_memoryVars /\ [AddressNext]_addressVars
    BY <1>2 DEF Next
  <2> QED
    BY <1>2, <2>1, MemoryStep, AddressStep
<1>3. MemoryOK => CallReturnsAll
  <2>1. fetch = "done" /\ MemoryOK => Holds({}, 0)
    BY DEF MemoryOK, HeapByPlace
  <2>2. fetch = "released" /\ MemoryOK => Holds({Block("struct")}, 0)
    BY DEF MemoryOK, HeapByPlace
  <2>3. \A blocks : Holds(blocks, 0) => heap = blocks
    BY NoRowsNoStrings DEF Holds
  <2>4. MemoryOK => ~ doubleFree
    BY DEF MemoryOK
  <2> QED
    BY <2>1, <2>2, <2>3, <2>4 DEF CallReturnsAll
<1>4. AddressOK => LookupReturnsAll
  BY DEF AddressOK, HeldByPlace, LookupReturnsAll
<1> QED
  BY <1>1, <1>2, <1>3, <1>4, PTL DEF Spec, HeapReturned

\* One address of every subnet of the host is printed, the first, whatever lists of addresses
\* the host has, however wide they are, and whichever allocations fail.
THEOREM OneAddressPerSubnetInvariant == Spec => []OneAddressPerSubnet
<1>1. Init => AddressOK /\ ScanOK
  BY AddressStart, ScanStart DEF Init
<1>2. ASSUME AddressOK, ScanOK, [Next]_<<filenameVars, addressVars, memoryVars>>
      PROVE  AddressOK' /\ ScanOK'
  <2>1. [AddressNext]_addressVars
    BY <1>2 DEF Next
  <2> QED
    BY <1>2, <2>1, AddressStep, ScanOKStep
<1> QED
  BY <1>1, <1>2, ListedWhole, PTL DEF Spec

\* The helpers do not disturb each other: the names they make are those of Filenames alone.
THEOREM NamesInvariant == Spec => [](SavedNameSafe /\ ClientNameKept)
<1>1. Init => FilenamesInit
  BY DEF Init
<1>2. [Next]_<<filenameVars, addressVars, memoryVars>> => [FilenamesNext]_filenameVars
  BY DEF Next
<1> QED
  BY <1>1, <1>2, SavedNamesSafe, ClientNamesKept, PTL DEF Spec, FilenamesSpec
================================================================================
