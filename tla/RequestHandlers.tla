---------------------------- MODULE RequestHandlers ----------------------------
(***************************************************************************)
(* The two POST handlers of the desktop server on CivetWeb's worker        *)
(* threads, and the SQLite database they share.                            *)
(*                                                                         *)
(* One process per request.  save_connection and save_message each open a  *)
(* database handle of their own and run the schema script on it            *)
(* (database_open), so every request writes to the database up to four     *)
(* times: schema, Connection row, schema again, Message row.  In WAL mode  *)
(* SQLite admits one writer; the code sets no busy timeout, so a statement *)
(* that finds another writer fails at once.  A write is two steps here:    *)
(* BeginWrite takes the writer's slot, the statement's action commits.     *)
(*                                                                         *)
(* How file contents mix is SaveDirectory's subject: here a file is only   *)
(* on disk in full (stored) or not.                                        *)
(***************************************************************************)
EXTENDS Integers, Sequences, FiniteSets

CONSTANTS
    Requests,     \* HTTP requests the server may receive
    Peers,        \* remote addresses they come from
    NumThreads,   \* CivetWeb workers (Server.c:222-227): the CPU count
    Calls,        \* the calls the clients make: a subset of CallSpace
    Faults,       \* what may fail by itself: a subset of FaultKinds
    NoRequest,    \* the database has no writer
    NoCall,       \* the request has not been accepted
    NoReply       \* nothing sent, or nothing built yet

SendBodies == {"badLength", "incomplete", "badJson", "noData", "text", "textToFile"}
UploadBodies == {"badForm", "noFile", "file"}

CallSpace ==
    [handler: {"send"}, peer: Peers, body: SendBodies \cup {"notPost"}]
      \cup [handler: {"upload"}, peer: Peers, body: UploadBodies \cup {"notPost"}]

FaultKinds == {"database", "memory", "file"}

Response(status, data) == [status |-> status, data |-> data]

\* The data each handler can answer with, by status; "damaged" is a body that came out
\* empty, or without one of its members.
Responses ==
    [status: {200}, data: {"OK", "File saved", "File(s) received", "damaged"}]
      \cup [status: {400}, data: {"Invalid Content-Length", "Incomplete body",
                "JSON parse error", "Missing 'data'", "Form parse error", "No file part",
                "damaged"}]
      \cup [status: {405}, data: {"POST required", "damaged"}]
      \cup [status: {500}, data: {"Memory error", "Cannot save file", "Data base error",
                "damaged"}]

\* What http_build_json may make of a response: cJSON returns NULL, or drops a member,
\* when it gets no memory, and nobody looks.
Json(response) ==
    {response}
      \cup (IF "memory" \in Faults THEN {Response(response.status, "damaged")} ELSE {})

ASSUME HandlersAssumption ==
    /\ Calls \subseteq CallSpace
    /\ Faults \subseteq FaultKinds
    /\ NumThreads \in Nat
    /\ NoRequest \notin Requests
    /\ NoCall \notin CallSpace \cup Peers
    /\ NoReply \notin Responses

VARIABLES
    pc,             \* pc[r]: the next operation of r's handler
    call,           \* call[r]: what the client of r asked for
    connection,     \* table Connection: the peer of row id i is connection[i]
    message,        \* table Message: row id i is message[i]
    writer,         \* the request whose handle holds SQLite's write lock
    lastRowid,      \* lastRowid[r]: last_insert_rowid of r's open handle
    connectionId,   \* connectionId[r]: what save_connection returned
    built,          \* built[r]: response_status and response_json
    stored,         \* stored[r]: the request wrote a file of its own in full
    reply           \* reply[r]: what the client was sent

db == <<connection, message>>
vars == <<pc, call, connection, message, writer, lastRowid, connectionId, built,
          stored, reply>>

\* save_connection's and save_message's "failed".
NoId == -1

Row == [connectionId: Nat \ {0},
        messageStatusId: {"SUCCESS", "FAILED"},
        messageTypeId: {"RAW_DATA", "FILE"},
        request: Requests,
        response: Responses]

Working == {"method", "form", "openForConnection", "find", "insertConnection", "rowid",
            "body", "openForMessage", "insertMessage", "reply"}

\* The operations that write to the database.
WritePoints == {"openForConnection", "insertConnection", "openForMessage", "insertMessage"}

Goto(r, label) == pc' = [pc EXCEPT ![r] = label]

--------------------------------------------------------------------------------
Init ==
    /\ pc = [r \in Requests |-> "waiting"]
    /\ call = [r \in Requests |-> NoCall]
    /\ connection = <<>>
    /\ message = <<>>
    /\ writer = NoRequest
    /\ lastRowid = [r \in Requests |-> 0]
    /\ connectionId = [r \in Requests |-> NoId]
    /\ built = [r \in Requests |-> NoReply]
    /\ stored = [r \in Requests |-> FALSE]
    /\ reply = [r \in Requests |-> NoReply]

Busy == {r \in Requests : pc[r] \in Working}

\* A free worker takes the request and calls the handler of its URI.
Accept(r) ==
    /\ pc[r] = "waiting"
    /\ Cardinality(Busy) < NumThreads
    /\ \E c \in Calls : call' = [call EXCEPT ![r] = c]
    /\ Goto(r, "method")
    /\ UNCHANGED <<db, writer, lastRowid, connectionId, built, stored, reply>>

\* http_send_built_json: the handler answers and returns.
Send(r, response) ==
    /\ reply' = [reply EXCEPT ![r] = response]
    /\ Goto(r, "done")

\* http_send_error: the body is built for the wire only.
SendError(r, status, data) == \E json \in Json(Response(status, data)) : Send(r, json)

\* The method is checked before anything else is touched.
CheckMethod(r) ==
    /\ pc[r] = "method"
    /\ \/ /\ call[r].body = "notPost"
          /\ SendError(r, 405, "POST required")
       \/ /\ call[r].body # "notPost"
          /\ Goto(r, IF call[r].handler = "send" THEN "openForConnection" ELSE "form")
          /\ UNCHANGED reply
    /\ UNCHANGED <<call, db, writer, lastRowid, connectionId, built, stored>>

--------------------------------------------------------------------------------
(***************************************************************************)
(* SQLite's write lock.                                                    *)
(***************************************************************************)
BeginWrite(r) ==
    /\ pc[r] \in WritePoints
    /\ writer = NoRequest
    /\ writer' = r
    /\ UNCHANGED <<pc, call, db, lastRowid, connectionId, built, stored, reply>>

\* r's statement may commit, and does: the slot is free again.
Commit(r) ==
    /\ writer = r
    /\ writer' = NoRequest

\* r's statement fails: another handle is writing (SQLITE_BUSY), or the database
\* itself fails.  A failed statement is rolled back.
StatementFails(r) ==
    /\ \/ writer \notin {r, NoRequest}
       \/ "database" \in Faults
    /\ writer' = IF writer = r THEN NoRequest ELSE writer
    /\ UNCHANGED db

(***************************************************************************)
(* save_connection returns id (a row's, or NoId): /api/send goes on to the *)
(* body whatever it got, /api/upload gives up without an id.               *)
(***************************************************************************)
SaveConnectionReturns(r, id) ==
    /\ connectionId' = [connectionId EXCEPT ![r] = id]
    /\ \/ /\ call[r].handler = "send"
          /\ Goto(r, "body")
          /\ UNCHANGED <<built, reply>>
       \/ /\ call[r].handler = "upload"
          /\ id = NoId
          /\ SendError(r, 500, "Data base error")
          /\ UNCHANGED built
       \/ /\ call[r].handler = "upload"
          /\ id # NoId
          /\ \E json \in Json(Response(200, "File(s) received")) :
                built' = [built EXCEPT ![r] = json]
          /\ Goto(r, "openForMessage")
          /\ UNCHANGED reply
    /\ UNCHANGED <<call, stored>>

\* database_open: the schema script is idempotent, it leaves the tables as they are.
OpenForConnection(r) ==
    /\ pc[r] = "openForConnection"
    /\ Commit(r)
    /\ lastRowid' = [lastRowid EXCEPT ![r] = 0]
    /\ Goto(r, "find")
    /\ UNCHANGED <<call, db, connectionId, built, stored, reply>>

RowsOf(peer) == {i \in DOMAIN connection : connection[i] = peer}

\* Mutant: the SELECT never matches (a column compared with another's value).
FindNothing(r) ==
    /\ pc[r] = "find"
    /\ Goto(r, "insertConnection")
    /\ UNCHANGED <<call, db, writer, lastRowid, connectionId, built, stored, reply>>

\* connection_get_or_create, the SELECT: a reader is never blocked in WAL mode, and one
\* that fails is taken for one that finds nothing.
FindConnection(r) ==
    /\ pc[r] = "find"
    /\ \/ \E i \in RowsOf(call[r].peer) : SaveConnectionReturns(r, i)
       \/ /\ RowsOf(call[r].peer) = {} \/ "database" \in Faults
          /\ Goto(r, "insertConnection")
          /\ UNCHANGED <<call, connectionId, built, stored, reply>>
    /\ UNCHANGED <<db, writer, lastRowid>>

\* Mutant: ux_Connection_peer is missing.
InsertConnectionNoIndex(r) ==
    /\ pc[r] = "insertConnection"
    /\ Commit(r)
    /\ connection' = Append(connection, call[r].peer)
    /\ lastRowid' = [lastRowid EXCEPT ![r] = Len(connection) + 1]
    /\ Goto(r, "rowid")
    /\ UNCHANGED <<call, message, connectionId, built, stored, reply>>

\* Mutant: the rowid is read on another handle than the INSERT's.
InsertConnectionElsewhere(r) ==
    /\ pc[r] = "insertConnection"
    /\ Commit(r)
    /\ connection' = Append(connection, call[r].peer)
    /\ Goto(r, "rowid")
    /\ UNCHANGED <<call, message, lastRowid, connectionId, built, stored, reply>>

\* connection_insert under the index ux_Connection_peer.
InsertConnection(r) ==
    /\ pc[r] = "insertConnection"
    /\ Commit(r)
    /\ \/ /\ RowsOf(call[r].peer) = {}
          /\ connection' = Append(connection, call[r].peer)
          /\ lastRowid' = [lastRowid EXCEPT ![r] = Len(connection) + 1]
          /\ Goto(r, "rowid")
          /\ UNCHANGED <<call, connectionId, built, stored, reply>>
       \/ /\ RowsOf(call[r].peer) # {}
          /\ SaveConnectionReturns(r, NoId)
          /\ UNCHANGED <<connection, lastRowid>>
    /\ UNCHANGED message

\* Mutant: the rowid of a handle that all workers share.
ReturnSharedRowid(r) ==
    /\ pc[r] = "rowid"
    /\ SaveConnectionReturns(r, Len(connection))
    /\ UNCHANGED <<db, writer, lastRowid>>

\* sqlite3_last_insert_rowid reads the handle's own rowid.
ReturnRowid(r) ==
    /\ pc[r] = "rowid"
    /\ SaveConnectionReturns(r, lastRowid[r])
    /\ UNCHANGED <<db, writer, lastRowid>>

SaveConnectionFails(r) ==
    /\ pc[r] \in {"openForConnection", "insertConnection"}
    /\ StatementFails(r)
    /\ SaveConnectionReturns(r, NoId)
    /\ UNCHANGED lastRowid

--------------------------------------------------------------------------------
(***************************************************************************)
(* /api/send: the body.                                                    *)
(***************************************************************************)
RefusedBodies == {"badLength", "incomplete", "badJson", "noData"}
RefusedForms == {"badForm", "noFile"}

\* The text of a 400.
Refusal(body) ==
    CASE body = "badLength"  -> "Invalid Content-Length"
      [] body = "incomplete" -> "Incomplete body"
      [] body = "badJson"    -> "JSON parse error"
      [] body = "noData"     -> "Missing 'data'"
      [] body = "badForm"    -> "Form parse error"
      [] body = "noFile"     -> "No file part"

\* An early return: nothing is recorded.  Without memory the body is not read, or cannot
\* be parsed.
RejectBody(r) ==
    /\ pc[r] = "body"
    /\ \/ /\ call[r].body \in RefusedBodies
          /\ SendError(r, 400, Refusal(call[r].body))
       \/ /\ call[r].body # "badLength"
          /\ "memory" \in Faults
          /\ SendError(r, 500, "Memory error")
       \/ /\ call[r].body \notin {"badLength", "incomplete"}
          /\ "memory" \in Faults
          /\ SendError(r, 400, "JSON parse error")
    /\ UNCHANGED <<call, db, writer, lastRowid, connectionId, built, stored>>

\* Mutant: the client is answered first, the row follows.
BuildResponseAndSend(r, response) ==
    /\ \E json \in Json(response) :
        /\ built' = [built EXCEPT ![r] = json]
        /\ reply' = [reply EXCEPT ![r] = json]
    /\ Goto(r, IF connectionId[r] # NoId THEN "openForMessage" ELSE "reply")
    /\ UNCHANGED <<call, db, writer, lastRowid, connectionId>>

\* Mutant: only successes are persisted.
BuildResponseIfOk(r, response) ==
    /\ \E json \in Json(response) : built' = [built EXCEPT ![r] = json]
    /\ Goto(r, IF connectionId[r] # NoId /\ response.status = 200
               THEN "openForMessage" ELSE "reply")
    /\ UNCHANGED <<call, db, writer, lastRowid, connectionId, reply>>

\* The response is built once; it is persisted only under a connection's id.
BuildResponse(r, response) ==
    /\ \E json \in Json(response) : built' = [built EXCEPT ![r] = json]
    /\ Goto(r, IF connectionId[r] # NoId THEN "openForMessage" ELSE "reply")
    /\ UNCHANGED <<call, db, writer, lastRowid, connectionId, reply>>

LogText(r) ==
    /\ pc[r] = "body"
    /\ call[r].body = "text"
    /\ BuildResponse(r, Response(200, "OK"))
    /\ UNCHANGED stored

\* save_text_to_file: only a failed fopen is noticed, fputs and fclose are not checked.
SaveText(r) ==
    /\ pc[r] = "body"
    /\ call[r].body = "textToFile"
    /\ \/ /\ BuildResponse(r, Response(200, "File saved"))
          /\ stored' = [stored EXCEPT ![r] = TRUE]
       \/ /\ "file" \in Faults
          /\ BuildResponse(r, Response(200, "File saved"))
          /\ UNCHANGED stored
       \/ /\ "file" \in Faults
          /\ BuildResponse(r, Response(500, "Cannot save file"))
          /\ UNCHANGED stored

--------------------------------------------------------------------------------
(***************************************************************************)
(* /api/upload: mg_handle_form_request parses the form and stores its file *)
(* parts before the database is touched.                                   *)
(***************************************************************************)

\* A form that breaks off, because it is malformed or its client is gone, is refused,
\* but the parts before the break are on disk already and stay there.
RejectForm(r) ==
    /\ pc[r] = "form"
    /\ call[r].body \in RefusedForms
    /\ SendError(r, 400, Refusal(call[r].body))
    /\ \/ UNCHANGED stored
       \/ /\ call[r].body = "badForm"
          /\ stored' = [stored EXCEPT ![r] = TRUE]
    /\ UNCHANGED <<call, db, writer, lastRowid, connectionId, built>>

\* A part that cannot be opened aborts the parser, one that cannot be written is
\* deleted by it: both ways the field count is not negative and path is set.
StoreFile(r) ==
    /\ pc[r] = "form"
    /\ call[r].body = "file"
    /\ \/ stored' = [stored EXCEPT ![r] = TRUE]
       \/ /\ "file" \in Faults
          /\ UNCHANGED stored
    /\ Goto(r, "openForConnection")
    /\ UNCHANGED <<call, db, writer, lastRowid, connectionId, built, reply>>

--------------------------------------------------------------------------------
(***************************************************************************)
(* save_message: its result is ignored by /api/send and only logged by     *)
(* /api/upload.                                                            *)
(***************************************************************************)
OpenForMessage(r) ==
    /\ pc[r] = "openForMessage"
    /\ Commit(r)
    /\ lastRowid' = [lastRowid EXCEPT ![r] = 0]
    /\ Goto(r, "insertMessage")
    /\ UNCHANGED <<call, db, connectionId, built, stored, reply>>

\* Mutant: the status is the one api_upload.c:235 uses, whatever was built.
RowForSuccess(r) ==
    [connectionId    |-> connectionId[r],
     messageStatusId |-> "SUCCESS",
     messageTypeId   |-> IF call[r].handler = "send" THEN "RAW_DATA" ELSE "FILE",
     request         |-> r,
     response        |-> built[r]]

RowFor(r) ==
    [connectionId    |-> connectionId[r],
     messageStatusId |-> IF built[r].status = 200 THEN "SUCCESS" ELSE "FAILED",
     messageTypeId   |-> IF call[r].handler = "send" THEN "RAW_DATA" ELSE "FILE",
     request         |-> r,
     response        |-> built[r]]

\* Mutant: save_message is tried again although it succeeded.
InsertMessageAgain(r) ==
    /\ pc[r] = "insertMessage"
    /\ Commit(r)
    /\ message' = Append(message, RowFor(r))
    /\ Goto(r, "openForMessage")
    /\ UNCHANGED <<call, connection, lastRowid, connectionId, built, stored, reply>>

\* message_insert, under the foreign key to Connection.  The rowid it returns is only
\* compared with -1, and both outcomes go on to the reply.
InsertMessage(r) ==
    /\ pc[r] = "insertMessage"
    /\ Commit(r)
    /\ message' = IF connectionId[r] \in DOMAIN connection
                  THEN Append(message, RowFor(r)) ELSE message
    /\ Goto(r, "reply")
    /\ UNCHANGED <<call, connection, lastRowid, connectionId, built, stored, reply>>

\* Mutant: save_message is tried until it succeeds.
SaveMessageRetries(r) ==
    /\ pc[r] \in {"openForMessage", "insertMessage"}
    /\ StatementFails(r)
    /\ Goto(r, "openForMessage")
    /\ UNCHANGED <<call, lastRowid, connectionId, built, stored, reply>>

SaveMessageFails(r) ==
    /\ pc[r] \in {"openForMessage", "insertMessage"}
    /\ StatementFails(r)
    /\ Goto(r, "reply")
    /\ UNCHANGED <<call, lastRowid, connectionId, built, stored, reply>>

\* Mutant: the status passed to http_send_built_json is always 200.
SendReplyOk(r) ==
    /\ pc[r] = "reply"
    /\ Send(r, [built[r] EXCEPT !.status = 200])
    /\ UNCHANGED <<call, db, writer, lastRowid, connectionId, built, stored>>

SendReply(r) ==
    /\ pc[r] = "reply"
    /\ Send(r, built[r])
    /\ UNCHANGED <<call, db, writer, lastRowid, connectionId, built, stored>>

--------------------------------------------------------------------------------
\* One step of the handler that serves r.
Handle(r) ==
    \/ CheckMethod(r)
    \/ BeginWrite(r)
    \/ OpenForConnection(r)
    \/ FindConnection(r)
    \/ InsertConnection(r)
    \/ ReturnRowid(r)
    \/ SaveConnectionFails(r)
    \/ RejectBody(r)
    \/ LogText(r)
    \/ SaveText(r)
    \/ RejectForm(r)
    \/ StoreFile(r)
    \/ OpenForMessage(r)
    \/ InsertMessage(r)
    \/ SaveMessageFails(r)
    \/ SendReply(r)

\* Every request has been answered: the server idles.
Idle ==
    /\ \A r \in Requests : pc[r] = "done"
    /\ UNCHANGED vars

Next ==
    \/ \E r \in Requests : Accept(r) \/ Handle(r)
    \/ Idle

Spec == Init /\ [][Next]_vars

\* A worker thread that has begun a request keeps running.  Clients owe nothing.
FairSpec == Spec /\ \A r \in Requests : WF_vars(Handle(r))

--------------------------------------------------------------------------------
TypeOK ==
    /\ pc \in [Requests -> Working \cup {"waiting", "done"}]
    /\ call \in [Requests -> Calls \cup {NoCall}]
    /\ connection \in Seq(Peers)
    /\ message \in Seq(Row)
    /\ writer \in Requests \cup {NoRequest}
    /\ lastRowid \in [Requests -> Nat]
    /\ connectionId \in [Requests -> (Nat \ {0}) \cup {NoId}]
    /\ built \in [Requests -> Responses \cup {NoReply}]
    /\ stored \in [Requests -> BOOLEAN]
    /\ reply \in [Requests -> Responses \cup {NoReply}]

\* A peer has one Connection row, although SELECT and INSERT of
\* connection_get_or_create are two transactions that other workers interleave
\* (connection_repository.c:136-163).
UniquePeer ==
    \A i, j \in DOMAIN connection : connection[i] = connection[j] => i = j

\* A Message row hangs under the Connection row of the peer that really sent the
\* request: the id survived from save_connection's handle to save_message's
\* (connection_repository.c:58-60, api_send.c:158 and 236).
RowsAttributed ==
    \A m \in DOMAIN message :
        /\ message[m].connectionId \in DOMAIN connection
        /\ connection[message[m].connectionId] = call[message[m].request].peer

\* Once the client is answered, the row and the bytes on the wire are the same
\* (http_json.c:23-27), and the row's status says SUCCESS exactly for a 200.
RowMatchesReply ==
    \A m \in DOMAIN message :
        LET r == message[m].request
        IN  /\ reply[r] # NoReply => reply[r] = message[m].response
            /\ (message[m].messageStatusId = "SUCCESS") <=> (message[m].response.status = 200)

\* A request leaves at most one row in the history.
OneRowPerRequest ==
    \A m, n \in DOMAIN message : message[m].request = message[n].request => m = n

\* A row is never added for a request whose client already has its answer
\* ("Persist request+response before the client sees them", api_send.c:229).
PersistBeforeReply ==
    [][\A m \in DOMAIN message' \ DOMAIN message : reply[message'[m].request] = NoReply]_vars

Recorded(r) == \E m \in DOMAIN message : message[m].request = r

\* A request whose response was built for the history is in it once it is answered
\* (api_send.c:122-124: "Regardless of the branch ... written into the Message table").
AnsweredIsRecorded ==
    \A r \in Requests : built[r] # NoReply /\ reply[r] # NoReply => Recorded(r)

\* A request that ends in a server error left no file behind.  Uploads are stored before
\* the database is asked (api_upload.c:196-224), so this depends on who else writes to it.
\* A 400 is different: a form that breaks off leaves its first parts (api_upload.c:204).
ErrorLeavesNoFile ==
    \A r \in Requests : reply[r] # NoReply /\ reply[r].status = 500 => ~ stored[r]

\* The file a 200 speaks of is on disk (api_upload.c:245: "the file *was* saved";
\* api_send.c:142: 500 on a file write failure).
ClaimedIsStored ==
    \A r \in Requests :
        reply[r] # NoReply /\ reply[r].data \in {"File saved", "File(s) received"}
            => stored[r]

\* A handler that was called answers its client, whatever the other workers do
\* with the database.
EventuallyAnswered ==
    \A r \in Requests : (pc[r] = "method") ~> (reply[r] # NoReply)

--------------------------------------------------------------------------------
(***************************************************************************)
(* The inductive invariant of RequestHandlersProofs: what one handler may  *)
(* rely on between two of its steps while the others run.                  *)
(***************************************************************************)
CalledWhenServed ==
    \A r \in Requests :
        /\ pc[r] = "waiting" <=> call[r] = NoCall
        /\ pc[r] = "waiting" => connectionId[r] = NoId

\* The rowid about to be read is that of the row this handle inserted.
RowidIsOwn ==
    \A r \in Requests : pc[r] = "rowid" => lastRowid[r] \in RowsOf(call[r].peer)

\* A connection id a handler holds is its peer's.
IdIsOwn ==
    \A r \in Requests : connectionId[r] # NoId => connectionId[r] \in RowsOf(call[r].peer)

\* A response is built, and for the history an id is known, before they are used.
ReadyToRecord ==
    \A r \in Requests :
        /\ pc[r] \in {"openForMessage", "insertMessage"} => connectionId[r] # NoId
        /\ pc[r] \in {"openForMessage", "insertMessage", "reply"} => built[r] # NoReply
        /\ built[r] # NoReply => pc[r] \in {"openForMessage", "insertMessage", "reply", "done"}

\* A row is its handler's last word: it may be read off the handler's variables.
RowsAreFinal ==
    \A m \in DOMAIN message :
        LET r == message[m].request
        IN  /\ pc[r] \in {"reply", "done"}
            /\ connectionId[r] # NoId
            /\ built[r] # NoReply
            /\ message[m] = RowFor(r)

\* The answer is the last step, and it is what was built if anything was.
AnswerIsLast ==
    \A r \in Requests :
        reply[r] # NoReply =>
            /\ pc[r] = "done"
            /\ built[r] # NoReply => reply[r] = built[r]

IInv ==
    /\ TypeOK
    /\ CalledWhenServed
    /\ UniquePeer
    /\ RowidIsOwn
    /\ IdIsOwn
    /\ ReadyToRecord
    /\ RowsAreFinal
    /\ OneRowPerRequest
    /\ AnswerIsLast

--------------------------------------------------------------------------------
(***************************************************************************)
(* The history the server keeps, seen as MessageLog's.                     *)
(***************************************************************************)
History ==
    [m \in DOMAIN message |->
        [request  |-> message[m].request,
         peer     |-> connection[message[m].connectionId],
         response |-> message[m].response]]

Log == INSTANCE MessageLog WITH
    NoPeer <- NoCall,
    sender <- [r \in Requests |-> IF call[r] = NoCall THEN NoCall ELSE call[r].peer],
    log    <- History,
    answer <- reply

\* The handlers and their database implement the history MessageLog promises.
ImplementsMessageLog == Log!Spec
================================================================================
