------------------------------ MODULE Repositories -----------------------------
(***************************************************************************)
(* The repository functions over the seven tables of CreateDatabase.sql,   *)
(* called one at a time on one database handle.  Each function is one      *)
(* autocommitted statement (connection_get_or_create is two): either all   *)
(* of it happens or it returns -1.  The constraints are the schema's.      *)
(*                                                                         *)
(* A row is the record of its columns; texts that nothing depends on       *)
(* (response, sendingTime, request, port, isSSLEncrypted) are left out.    *)
(***************************************************************************)
EXTENDS Integers, Sequences, FiniteSets, FiniteSetsExt, SequencesExt

CONSTANTS
    Ips,        \* the ip texts callers use, NULL among them if it is to occur
    EmptyIp,    \* the text '', which may be in Ips
    NULL,       \* SQL NULL and C NULL
    Arguments,  \* Arguments[t]: the rows callers insert into t and update to
    AskedIds,   \* AskedIds[t]: the ids callers get, update and delete
    MaxId       \* MaxId[t]: bound on the ids given out in t

ReferenceTables == {"MessageType", "MessageStatus", "MessageDirection", "ConnectionRole"}
Tables == ReferenceTables \cup {"Connection", "Message", "NamedConnection"}

\* database_enums.h, and the seed rows of CreateDatabase.sql.
SUCCESS == 1
FAILED == 2
Seeds ==
    [MessageType      |-> <<"RAW_DATA", "FILE">>,
     MessageStatus    |-> <<"SUCCESS", "FAILED">>,
     MessageDirection |-> <<"OUTBOUND", "INBOUND">>,
     ConnectionRole   |-> <<"SERVER", "CLIENT", "MASTER", "SLAVE">>]

ASSUME RepositoriesAssumption ==
    /\ DOMAIN Arguments = Tables
    /\ MaxId \in [Tables -> Nat]
    /\ AskedIds \in [Tables -> SUBSET Nat]
    /\ \A t \in ReferenceTables :
        /\ MaxId[t] >= Len(Seeds[t])
        /\ \A row \in Arguments[t] : DOMAIN row = {"name"}
    /\ Arguments["Connection"] \subseteq [ip: Ips, roleId: Nat]

VARIABLES
    table,     \* table[t]: the rows of t, a function from their ids
    sequence,  \* sequence[t]: the largest id t ever had (AUTOINCREMENT)
    result     \* the last call: its function, its argument and what it returned

vars == <<table, sequence, result>>

Ids(t) == DOMAIN table[t]

\* The columns with a FOREIGN KEY, and the tables they refer to.
References(t) ==
    CASE t = "Connection" -> {<<"roleId", "ConnectionRole">>}
      [] t = "NamedConnection" -> {<<"connectionId", "Connection">>}
      [] t = "Message" -> {<<"connectionId", "Connection">>,
                           <<"messageStatusId", "MessageStatus">>,
                           <<"messageTypeId", "MessageType">>,
                           <<"directionId", "MessageDirection">>}
      [] OTHER -> {}

\* Mutant: ux_Connection_peer without the role.
PeerKeyNoRole(row) == <<IF row.ip = NULL THEN EmptyIp ELSE row.ip>>

\* What ux_Connection_peer compares: NULL counts as ''.
PeerKey(row) == <<row.roleId, IF row.ip = NULL THEN EmptyIp ELSE row.ip>>

(***************************************************************************)
(* Row may be stored in t under id.                                        *)
(***************************************************************************)
Valid(t, id, row) ==
    /\ t \in ReferenceTables => row.name # NULL
    /\ \A ref \in References(t) : row[ref[1]] \in Ids(ref[2])
    /\ t = "Connection" =>
        \A other \in Ids(t) \ {id} : PeerKey(table[t][other]) # PeerKey(row)

\* Mutant: NamedConnection.connectionId is not declared a foreign key.
ReferencedByMessage(t, id) ==
    \E s \in Tables \ {"NamedConnection"} : \E ref \in References(s) :
        ref[2] = t /\ \E i \in Ids(s) : table[s][i][ref[1]] = id

\* Some row refers to row id of t.
Referenced(t, id) ==
    \E s \in Tables : \E ref \in References(s) :
        ref[2] = t /\ \E i \in Ids(s) : table[s][i][ref[1]] = id

Returns(call, t, arg, ret) ==
    result' = [call |-> call, table |-> t, argument |-> arg, ret |-> ret]

Put(t, id, row) ==
    table' = [table EXCEPT ![t] = [i \in Ids(t) \cup {id} |->
                                    IF i = id THEN row ELSE table[t][i]]]

--------------------------------------------------------------------------------
\* The tables after CreateDatabase.sql has run on these: seed rows that are there,
\* renamed or not, are left alone (INSERT OR IGNORE).
Seeded(rows) ==
    [t \in Tables |->
        IF t \in ReferenceTables
        THEN [i \in DOMAIN rows[t] \cup DOMAIN Seeds[t] |->
                IF i \in DOMAIN rows[t] THEN rows[t][i] ELSE [name |-> Seeds[t][i]]]
        ELSE rows[t]]

Init ==
    /\ table = Seeded([t \in Tables |-> <<>>])
    /\ sequence = [t \in Tables |-> IF t \in ReferenceTables THEN Len(Seeds[t]) ELSE 0]
    /\ result = [call |-> "open", table |-> NULL, argument |-> NULL, ret |-> 0]

\* database_open on the existing file.
DatabaseOpen ==
    /\ table' = Seeded(table)
    /\ Returns("open", NULL, NULL, 0)
    /\ UNCHANGED sequence

--------------------------------------------------------------------------------
(***************************************************************************)
(* INSERT, UPDATE, DELETE and SELECT by id, as every repository has them.  *)
(***************************************************************************)
\* Mutant: INTEGER PRIMARY KEY without AUTOINCREMENT reuses the largest id.
InsertRowReusing(call, t, row) ==
    LET id == Max(Ids(t) \cup {0}) + 1
    IN  /\ id <= MaxId[t]
        /\ Valid(t, id, row)
        /\ Put(t, id, row)
        /\ sequence' = [sequence EXCEPT ![t] = id]
        /\ Returns(call, t, row, id)

\* Mutant: the sequence is not kept.
InsertRowForgetful(call, t, row) ==
    LET id == sequence[t] + 1
    IN  /\ Valid(t, id, row)
        /\ Put(t, id, row)
        /\ Returns(call, t, row, id)
        /\ UNCHANGED sequence

InsertRow(call, t, row) ==
    LET id == sequence[t] + 1
    IN  /\ id <= MaxId[t]
        /\ \/ /\ Valid(t, id, row)
              /\ Put(t, id, row)
              /\ sequence' = [sequence EXCEPT ![t] = id]
              /\ Returns(call, t, row, id)
           \/ /\ ~ Valid(t, id, row)
              /\ Returns(call, t, row, -1)
              /\ UNCHANGED <<table, sequence>>

\* sqlite3_changes is 0 when no row has the id.
UpdateRow(t, id, row) ==
    /\ \/ /\ id \in Ids(t)
          /\ Valid(t, id, row)
          /\ Put(t, id, row)
          /\ Returns("update", t, row, 0)
       \/ /\ id \notin Ids(t) \/ ~ Valid(t, id, row)
          /\ Returns("update", t, row, -1)
          /\ UNCHANGED table
    /\ UNCHANGED sequence

DeleteRow(t, id) ==
    /\ \/ /\ id \in Ids(t)
          /\ ~ Referenced(t, id)
          /\ table' = [table EXCEPT ![t] = [i \in Ids(t) \ {id} |-> table[t][i]]]
          /\ Returns("delete", t, id, 0)
       \/ /\ id \notin Ids(t) \/ Referenced(t, id)
          /\ Returns("delete", t, id, -1)
          /\ UNCHANGED table
    /\ UNCHANGED sequence

GetRow(t, id) ==
    /\ Returns("get", t, id, IF id \in Ids(t) THEN table[t][id] ELSE NULL)
    /\ UNCHANGED <<table, sequence>>

\* ORDER BY id.
GetAllRows(t) ==
    /\ Returns("get_all", t, NULL, SetToSortSeq(Ids(t), <))
    /\ UNCHANGED <<table, sequence>>

Repository(t) ==
    \/ \E row \in Arguments[t] :
        \/ InsertRow("insert", t, row)
        \/ \E id \in AskedIds[t] : UpdateRow(t, id, row)
    \/ \E id \in AskedIds[t] : DeleteRow(t, id) \/ GetRow(t, id)
    \/ GetAllRows(t)

--------------------------------------------------------------------------------
(***************************************************************************)
(* The repositories.  The four of the reference tables are the same but    *)
(* for the names in their statements.                                      *)
(***************************************************************************)
MessageTypeRepository == Repository("MessageType")
MessageStatusRepository == Repository("MessageStatus")
MessageDirectionRepository == Repository("MessageDirection")
ConnectionRoleRepository == Repository("ConnectionRole")
NamedConnectionRepository == Repository("NamedConnection")
ConnectionRepository == Repository("Connection")
MessageRepository == Repository("Message")

\* Mutant: the ip is not compared.
MatchesRole(row, key) == key.ip # NULL /\ row.roleId = key.roleId

\* k_find: in SQL, ip = NULL is true of no row.
Matches(row, key) == key.ip # NULL /\ row = key

\* connection_get_or_create: the SELECT, and the INSERT if it finds nothing.
ConnectionGetOrCreate(key) ==
    LET found == {i \in Ids("Connection") : Matches(table["Connection"][i], key)}
    IN  \/ /\ found # {}
           /\ Returns("get_or_create", "Connection", key, Min(found))
           /\ UNCHANGED <<table, sequence>>
        \/ /\ found = {}
           /\ InsertRow("get_or_create", "Connection", key)

\* k_lastok selects messageStatusId=2.
LastOkStatus == FAILED

MessageGetLastSuccessful ==
    LET ok == {i \in Ids("Message") : table["Message"][i].messageStatusId = LastOkStatus}
    IN  /\ Returns("get_last_successful", "Message", NULL,
                   IF ok = {} THEN NULL ELSE table["Message"][Max(ok)])
        /\ UNCHANGED <<table, sequence>>

Next ==
    \/ DatabaseOpen
    \/ MessageTypeRepository
    \/ MessageStatusRepository
    \/ MessageDirectionRepository
    \/ ConnectionRoleRepository
    \/ NamedConnectionRepository
    \/ ConnectionRepository
    \/ MessageRepository
    \/ \E key \in Arguments["Connection"] : ConnectionGetOrCreate(key)
    \/ MessageGetLastSuccessful

Spec == Init /\ [][Next]_vars

--------------------------------------------------------------------------------
TypeOK ==
    /\ DOMAIN table = Tables
    /\ \A t \in Tables :
        /\ Ids(t) \subseteq 1 .. sequence[t]
        /\ \A i \in Ids(t) : \/ table[t][i] \in Arguments[t]
                             \/ t \in ReferenceTables /\ table[t][i].name = Seeds[t][i]
    /\ sequence \in [Tables -> Nat]
    /\ DOMAIN result = {"call", "table", "argument", "ret"}

\* No call order leaves a history row, a saved connection or a peer pointing at a row
\* that is gone (the FOREIGN KEYs, and PRAGMA foreign_keys on every handle, Database.c:56).
ForeignKeysHold ==
    \A t \in Tables : \A i \in Ids(t) : \A ref \in References(t) :
        table[t][i][ref[1]] \in Ids(ref[2])

\* An id that was given out is never given to another row, even when its row is
\* deleted: an id a caller still holds cannot come to mean something else
\* (AUTOINCREMENT; save_connection's id is used on a later handle).
IdsNeverReused ==
    [][\A t \in Tables : \A i \in DOMAIN table'[t] \ Ids(t) :
            i > sequence[t] \/ (t \in ReferenceTables /\ i \in DOMAIN Seeds[t])]_vars

\* Asked for a peer that has a row, get_or_create returns that row and adds nothing
\* (connection_repository.h:77-89).  A peer with no ip is not found again: see README.
FoundIsReturned ==
    [][\A i \in Ids("Connection") :
        LET row == table["Connection"][i]
        IN  /\ result' # result
            /\ result'.call = "get_or_create"
            /\ result'.argument = row
            /\ row.ip # NULL
            => result'.ret = i /\ UNCHANGED table]_vars

\* get_or_create fails only for a role that is not there, or for a peer with no ip whose
\* row is there: k_find's ip=? is true of no NULL (connection_repository.c:34), nor of a
\* NULL in the table if the peer's ip is '', while ux_Connection_peer takes both for one,
\* so that such a peer is refused for as long as that row stays.  A peer with an ip is
\* never refused by the row of another one: what the two statements compare is the same.
RefusedHasNoIp ==
    [][/\ result'.call = "get_or_create"
       /\ result'.ret = -1
       => LET key == result'.argument
          IN  \/ key.roleId \notin Ids("ConnectionRole")
              \/ /\ key.ip \in {NULL, EmptyIp}
                 /\ \E i \in Ids("Connection") :
                        PeerKey(table["Connection"][i]) = PeerKey(key)]_vars

\* message_get_last_successful returns a message that was sent successfully
\* (message_repository.h:82: "the most recent Message with status SUCCESS").
LastSuccessfulSucceeded ==
    result.call = "get_last_successful" /\ result.ret # NULL
        => result.ret.messageStatusId = SUCCESS
================================================================================
