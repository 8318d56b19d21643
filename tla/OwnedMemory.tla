------------------------------ MODULE OwnedMemory ------------------------------
(***************************************************************************)
(* Who frees what: the row structs of the repositories' get and get_all    *)
(* (database_models.c), and what database_open borrows while it reads its  *)
(* schema (read_file_full).                                                *)
(*                                                                         *)
(* The heap is the set of blocks, statements and files that are open; a    *)
(* pointer is NULL where there is no block.  Any allocation may fail.      *)
(***************************************************************************)
EXTENDS Integers, FiniteSets

CONSTANTS
    ArrayCapacity,   \* of get_all's first allocation: 8
    MaxRows          \* bound: the rows of a table

ASSUME OwnedMemoryAssumption == ArrayCapacity \in Nat \ {0} /\ MaxRows \in Nat

VARIABLES
    fetch,       \* where the call is, "idle" outside of one
    table,       \* the table it reads
    count,       \* the rows in the array
    capacity,    \* of the array
    heap,        \* what is allocated or open
    doubleFree   \* something was freed that was not there

memoryVars == <<fetch, table, count, capacity, heap, doubleFree>>

\* The strings a struct owns.
Strings ==
    [MessageType |-> {"name"}, MessageStatus |-> {"name"}, MessageDirection |-> {"name"},
     ConnectionRole |-> {"name"}, Connection |-> {"ip"},
     Message |-> {"response", "sending_time", "request"}, NamedConnection |-> {"name"}]

Table == DOMAIN Strings

\* The strings each table's *_free, and *_free_all row by row, pass to free_str.
MessageTypeFree == {"name"}
MessageStatusFree == {"name"}
MessageDirectionFree == {"name"}
ConnectionRoleFree == {"name"}
ConnectionFree == {"ip"}

\* Mutant: the struct has grown and its free function has not.
MessageFreeForgets == {"sending_time", "request"}

MessageFree == {"response", "sending_time", "request"}

NamedConnectionFree == {"name"}

Freed ==
    [MessageType |-> MessageTypeFree, MessageStatus |-> MessageStatusFree,
     MessageDirection |-> MessageDirectionFree, ConnectionRole |-> ConnectionRoleFree,
     Connection |-> ConnectionFree, Message |-> MessageFree,
     NamedConnection |-> NamedConnectionFree]

Text(row, string) == [row |-> row, string |-> string]
Block(what) == [row |-> 0, string |-> what]

\* The strings of the first n rows that are not NULL.
RowTexts(n) == heap \cap {Text(i, s) : i \in 1 .. n, s \in Freed[table]}

Fetches(label) == fetch' = label
Exchange(freed, got) ==
    /\ heap' = (heap \ freed) \cup got
    /\ doubleFree' = (doubleFree \/ ~ freed \subseteq heap)

Keeps == UNCHANGED <<table, count, capacity>>

--------------------------------------------------------------------------------
MemoryInit ==
    /\ fetch = "idle" /\ table = "Message" /\ count = 0 /\ capacity = 0
    /\ heap = {} /\ doubleFree = FALSE

\* sqlite3_prepare_v2 of a get or a get_all.
Prepare ==
    /\ fetch = "idle"
    /\ table' \in Table
    /\ \/ Fetches("done") /\ Exchange({}, {})
       \/ fetch' \in {"row", "rows"} /\ Exchange({}, {Block("statement")})
    /\ UNCHANGED <<count, capacity>>

\* get: no row, or no memory for the struct, or the struct with the strings that are not
\* NULL in the table and could be copied.
GetStruct ==
    /\ fetch = "row"
    /\ \/ Fetches("done") /\ Exchange({Block("statement")}, {})
       \/ /\ Fetches("struct")
          /\ \E strings \in SUBSET Strings[table] :
                Exchange({Block("statement")}, {Block("struct")} \cup {Text(1, s) : s \in strings})
    /\ Keeps

\* The caller releases the row as the headers say, with the table's *_free, which frees
\* the strings.
FreeStruct ==
    /\ fetch = "struct"
    /\ Fetches("released")
    /\ Exchange(RowTexts(1), {})
    /\ Keeps

\* *_free_all(arr, count), which does nothing with NULL.
ArrayAndTexts == IF capacity = 0 THEN {} ELSE {Block("array")} \cup RowTexts(count)

\* A get_all that cannot go on frees what it has, and returns NULL.
Abandon ==
    /\ Fetches("done")
    /\ Exchange({Block("statement")} \cup ArrayAndTexts, {})
    /\ Keeps

\* There is another row; the array is full, or not there yet, and realloc may fail.
NextRow ==
    /\ fetch = "rows" /\ count < MaxRows
    /\ \/ /\ count < capacity
          /\ Fetches("store") /\ Exchange({}, {})
          /\ Keeps
       \/ /\ count >= capacity
          /\ Fetches("store") /\ Exchange({}, {Block("array")})
          /\ capacity' = IF capacity = 0 THEN ArrayCapacity ELSE capacity * 2
          /\ UNCHANGED <<table, count>>
       \/ /\ count >= capacity
          /\ Abandon

CopiedRow == \E strings \in SUBSET Strings[table] : Exchange({}, {Text(count + 1, s) : s \in strings})

\* The row is filled in where it stays.
StoreRow ==
    /\ fetch = "store" /\ table # "Message"
    /\ Fetches("rows")
    /\ CopiedRow
    /\ count' = count + 1
    /\ UNCHANGED <<table, capacity>>

\* message_get_all copies a struct of row_to_message's, with its pointers, and frees it;
\* without memory for it the call is abandoned.
RowToMessage ==
    /\ fetch = "store" /\ table = "Message"
    /\ \/ /\ Fetches("move")
          /\ \E strings \in SUBSET Strings[table] :
                Exchange({}, {Block("struct")} \cup {Text(count + 1, s) : s \in strings})
          /\ Keeps
       \/ Abandon

MoveRow ==
    /\ fetch = "move"
    /\ Fetches("rows")
    /\ Exchange({Block("struct")}, {})
    /\ count' = count + 1
    /\ UNCHANGED <<table, capacity>>

\* The last row was read, or the step failed: the rows so far are the result.
EndRows ==
    /\ fetch = "rows"
    /\ Fetches("array")
    /\ Exchange({Block("statement")}, {})
    /\ Keeps

\* The caller.
FreeArray ==
    /\ fetch = "array"
    /\ Fetches("done")
    /\ Exchange(ArrayAndTexts, {})
    /\ Keeps

--------------------------------------------------------------------------------
(***************************************************************************)
(* database_open: the handle, the schema file, its text, the message of a  *)
(* script that fails.                                                      *)
(***************************************************************************)
\* sqlite3_open leaves a handle to be closed even if it fails.
OpenHandle ==
    /\ fetch = "idle"
    /\ fetch' \in {"schema", "close"}
    /\ Exchange({}, {Block("handle")})
    /\ Keeps

\* read_file_full: the file is there and opens, or not.
OpenSchema ==
    /\ fetch = "schema"
    /\ \/ Fetches("close") /\ Exchange({}, {})
       \/ Fetches("size") /\ Exchange({}, {Block("file")})
    /\ Keeps

\* fseek, ftell and malloc; one of them may fail, and the file is closed.
MeasureSchema ==
    /\ fetch = "size"
    /\ \/ Fetches("close") /\ Exchange({Block("file")}, {})
       \/ Fetches("read") /\ Exchange({}, {Block("sql")})
    /\ Keeps

\* fread takes what there is.
ReadSchema ==
    /\ fetch = "read"
    /\ Fetches("exec")
    /\ Exchange({Block("file")}, {})
    /\ Keeps

\* The script is run and its text freed.
RunSchema ==
    /\ fetch = "exec"
    /\ \/ Fetches("close") /\ Exchange({Block("sql")}, {})
       \/ Fetches("error") /\ Exchange({Block("sql")}, {Block("err")})
    /\ Keeps

FreeError ==
    /\ fetch = "error"
    /\ Fetches("close")
    /\ Exchange({Block("err")}, {})
    /\ Keeps

\* On every failure by database_open itself, else by the caller, with database_close.
CloseHandle ==
    /\ fetch = "close"
    /\ Fetches("done")
    /\ Exchange({Block("handle")}, {})
    /\ Keeps

\* The next call; what is still allocated is out of its reach.
EndCall ==
    /\ fetch \in {"done", "released"}
    /\ Fetches("idle")
    /\ table' = "Message" /\ count' = 0 /\ capacity' = 0
    /\ heap' = {}
    /\ UNCHANGED doubleFree

MemoryNext ==
    \/ Prepare
    \/ GetStruct
    \/ FreeStruct
    \/ NextRow
    \/ StoreRow
    \/ RowToMessage
    \/ MoveRow
    \/ EndRows
    \/ FreeArray
    \/ OpenHandle
    \/ OpenSchema
    \/ MeasureSchema
    \/ ReadSchema
    \/ RunSchema
    \/ FreeError
    \/ CloseHandle
    \/ EndCall

--------------------------------------------------------------------------------
\* When a call is over, successful, cut short or abandoned, and its caller has released
\* what it got as the headers say, nothing of it is left and nothing was freed twice: but
\* for the struct of a get, which message_free and its like leave allocated
\* (database_models.c:228-236).
CallReturnsAll ==
    /\ ~ doubleFree
    /\ fetch = "done" => heap = {}
    /\ fetch = "released" => heap = {Block("struct")}
================================================================================
