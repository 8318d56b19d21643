------------------------------ MODULE ClientSend ------------------------------
(***************************************************************************)
(* How the Android client sends: the screens (MainActivity) whose button   *)
(* starts a worker, the pipeline each worker runs (SendDataViewModel and   *)
(* its Connector), and the Room database that keeps the phone's history.   *)
(*                                                                         *)
(* Several screens can be alive in one process: a share from another app   *)
(* opens one more, and the worker of a destroyed screen runs on.  Each has *)
(* a SendDataViewModel of its own, and all share the database.  The        *)
(* process can be killed at any moment; only the database survives.        *)
(***************************************************************************)
EXTENDS Naturals, Sequences, FiniteSets

CONSTANTS Screens,           \* how many MainActivity instances can exist at once
          Servers,           \* what the form can say of a server: ip, port, TLS
          BadServers,        \* those with no valid port or address
          Encrypted,         \* those with the TLS flag
          Names,             \* file names, as typed, as shown and as sanitised
          sanitizeFilename,  \* Connector.sanitizeFilename on Names
          NoName,            \* the empty string
          Configs,           \* the forms the user submits
          MaxSends           \* bound: clicks in a behaviour

Config == [server: Servers, sendingType: {"RAW_DATA", "FILE"}, data: Names,
           saveToPath: Names \cup {NoName}]

ASSUME ClientAssumption ==
    /\ IsFiniteSet(Screens) /\ MaxSends \in Nat
    /\ BadServers \subseteq Servers /\ Encrypted \subseteq Servers
    /\ Configs \subseteq Config
    /\ NoName \notin Names \cup Servers
    /\ sanitizeFilename \in [Names -> Names]
    /\ \A n \in Names : sanitizeFilename[sanitizeFilename[n]] = sanitizeFilename[n]

VARIABLES
    button,       \* per screen: buttonSend is enabled
    pc,           \* per screen: where its send-worker is
    send,         \* per screen: the click its worker serves, 0 if none
    conn,         \* per screen: SendData's conn.id, 0 for null
    message,      \* per screen: SendData's Message object
    connector,    \* per screen: the fields of its view model's Connector
    cachedSsl,    \* per screen: the TLS flag of the cached OkHttpClient
    isSending,    \* per screen: the flags behind getIsSending
    seeder,       \* the executor that fills the reference tables
    seeded,       \* how many of them are filled
    connections,  \* table Connection; a row's id is its place, send is whose it is
    messages,     \* table Message; send likewise
    sends         \* history of the clicks: what was asked, whether the server was
                  \* known by then, what was sent, answered and told the user

screenVars == <<button, pc, send, conn, message, connector, cachedSsl, isSending>>
room == <<seeder, seeded, connections, messages>>
vars == <<screenVars, room, sends>>

\* What execute can return, a body that says Message or any other one, and how
\* it can throw: a network failure, a timeout, a non-2xx status with no body.
Answers == {"message", "error"}
NoAnswer == "none"
Failure == "IOException"

NoRequest == [path |-> "none"]
NoMessage == [status |-> "none"]
NewConnector == [sendingType |-> "none", saveToPath |-> NoName]

cfg(s) == sends[send[s]].config
Goto(s, place) == pc' = [pc EXCEPT ![s] = place]

--------------------------------------------------------------------------------
(***************************************************************************)
(* The database                                                            *)
(***************************************************************************)

\* Mutant: the roles are filled first.
SeedsRolesFirst == <<"ConnectionRole", "MessageStatus", "MessageType", "MessageDirection">>

\* The reference tables in the order in which the onCreate callback fills them.
Seeds == <<"MessageStatus", "MessageType", "MessageDirection", "ConnectionRole">>
Seeded(table) == \E i \in 1..seeded : Seeds[i] = table

\* What the foreign keys of the two tables refer to.
ConnectionReferences == Seeded("ConnectionRole")
MessageReferences == \A t \in {"MessageStatus", "MessageType", "MessageDirection"} : Seeded(t)

\* The first query, the first screen's load-last-conn, creates the file; the
\* callback hands the filling to an executor.
CreateDatabase ==
    /\ seeder = "notCreated"
    /\ seeder' = "running"
    /\ UNCHANGED <<screenVars, seeded, connections, messages, sends>>

\* One insertAll, a transaction of its own.
Seed ==
    /\ seeder = "running"
    /\ seeded' = seeded + 1
    /\ seeder' = IF seeded' = Len(Seeds) THEN "ended" ELSE "running"
    /\ UNCHANGED <<screenVars, connections, messages, sends>>

\* Mutant: the WHERE clause compares the role only.
RowsOfAnyServer(server) == DOMAIN connections

RowsOf(server) == {i \in DOMAIN connections : connections[i].server = server}

--------------------------------------------------------------------------------
(***************************************************************************)
(* Screens and the process                                                 *)
(***************************************************************************)
Init ==
    /\ button = [s \in Screens |-> TRUE]
    /\ pc = [s \in Screens |-> "idle"]
    /\ send = [s \in Screens |-> 0] /\ conn = [s \in Screens |-> 0]
    /\ message = [s \in Screens |-> NoMessage]
    /\ connector = [s \in Screens |-> NewConnector]
    /\ cachedSsl = [s \in Screens |-> "none"]
    /\ isSending = [s \in Screens |-> FALSE]
    /\ seeder = "notCreated" /\ seeded = 0
    /\ connections = <<>> /\ messages = <<>> /\ sends = <<>>

\* onCreate: a new activity, with a view model of its own, takes the place of
\* one that is gone.  One that is gone while its worker runs (a rotation) is a
\* screen that is not clicked until the worker has ended.
Create(s) ==
    /\ pc[s] = "idle"
    /\ button' = [button EXCEPT ![s] = TRUE]
    /\ connector' = [connector EXCEPT ![s] = NewConnector]
    /\ cachedSsl' = [cachedSsl EXCEPT ![s] = "none"]
    /\ isSending' = [isSending EXCEPT ![s] = FALSE]
    /\ UNCHANGED <<pc, send, conn, message, room, sends>>

\* The system kills the process.
Kill ==
    /\ button' = [s \in Screens |-> TRUE]
    /\ pc' = [s \in Screens |-> "idle"]
    /\ send' = [s \in Screens |-> 0] /\ conn' = [s \in Screens |-> 0]
    /\ message' = [s \in Screens |-> NoMessage]
    /\ connector' = [s \in Screens |-> NewConnector]
    /\ cachedSsl' = [s \in Screens |-> "none"]
    /\ isSending' = [s \in Screens |-> FALSE]
    /\ seeder' = IF seeder = "running" THEN "ended" ELSE seeder
    /\ UNCHANGED <<seeded, connections, messages, sends>>

\* Mutant: the button stays enabled.
ClickTwice(s, c) ==
    /\ button[s]
    /\ Len(sends) < MaxSends
    /\ sends' = Append(sends, [config |-> c, known |-> RowsOf(c.server) # {},
                               request |-> NoRequest, answer |-> NoAnswer,
                               told |-> "nothing"])
    /\ send' = [send EXCEPT ![s] = Len(sends')]
    /\ Goto(s, "validate")
    /\ UNCHANGED <<button, conn, message, connector, cachedSsl, isSending, room>>

\* onSendClicked: the form is copied, the button disabled, a worker started.
Click(s, c) ==
    /\ button[s]
    /\ Len(sends) < MaxSends
    /\ sends' = Append(sends, [config |-> c, known |-> RowsOf(c.server) # {},
                               request |-> NoRequest, answer |-> NoAnswer,
                               told |-> "nothing"])
    /\ send' = [send EXCEPT ![s] = Len(sends')]
    /\ button' = [button EXCEPT ![s] = FALSE]
    /\ Goto(s, "validate")
    /\ UNCHANGED <<conn, message, connector, cachedSsl, isSending, room>>

--------------------------------------------------------------------------------
(***************************************************************************)
(* SendData, on the worker of screen s.  An exception ends it: the worker  *)
(* goes to "show" with no response to parse.                               *)
(***************************************************************************)

\* Mutant: the Connection is inserted without being looked for.
ValidateThenInsert(s) ==
    /\ pc[s] = "validate"
    /\ Goto(s, IF isSending[s] \/ cfg(s).server \in BadServers THEN "show" ELSE "insert")
    /\ UNCHANGED <<button, send, conn, message, connector, cachedSsl, isSending, room, sends>>

\* getIsSending, the port, the address.
Validate(s) ==
    /\ pc[s] = "validate"
    /\ Goto(s, IF isSending[s] \/ cfg(s).server \in BadServers THEN "show" ELSE "find")
    /\ UNCHANGED <<button, send, conn, message, connector, cachedSsl, isSending,
                   room, sends>>

\* The SELECT before the INSERT and the one after it.
FindConnection(s) ==
    /\ pc[s] \in {"find", "findAgain"} /\ seeder # "notCreated"
    /\ \/ /\ pc[s] = "find" /\ RowsOf(cfg(s).server) = {}
          /\ Goto(s, "insert")
          /\ UNCHANGED conn
       \/ \E id \in RowsOf(cfg(s).server) :
             /\ conn' = [conn EXCEPT ![s] = id]
             /\ Goto(s, "configure")
    /\ UNCHANGED <<button, send, message, connector, cachedSsl, isSending, room, sends>>

\* Mutant: the row is not read back, so conn.id stays 0.
InsertConnectionForgetsId(s) ==
    /\ pc[s] = "insert" /\ ConnectionReferences
    /\ connections' = Append(connections, [server |-> cfg(s).server, send |-> send[s]])
    /\ Goto(s, "configure")
    /\ UNCHANGED <<button, send, conn, message, connector, cachedSsl, isSending,
                   seeder, seeded, messages, sends>>

\* Table Connection has no unique index: the row is inserted whatever another
\* worker has done since the SELECT.  Without its role it is refused.
InsertConnection(s) ==
    /\ pc[s] = "insert"
    /\ \/ /\ ConnectionReferences
          /\ connections' = Append(connections, [server |-> cfg(s).server, send |-> send[s]])
          /\ Goto(s, "findAgain")
       \/ /\ ~ConnectionReferences
          /\ Goto(s, "show")
          /\ UNCHANGED connections
    /\ UNCHANGED <<button, send, conn, message, connector, cachedSsl, isSending,
                   seeder, seeded, messages, sends>>

\* sanitizeFilename of "" is "".
Sanitized(name) == IF name = NoName THEN NoName ELSE sanitizeFilename[name]

\* setSaveToPath, the public fields, and setFileUri or clearFile.
Configured(c) ==
    [server |-> c.server, sendingType |-> c.sendingType,
     sendingData |-> IF c.sendingType = "RAW_DATA" THEN c.data ELSE NoName,
     fileUri |-> IF c.sendingType = "FILE" THEN c.data ELSE NoName,
     saveToPath |-> Sanitized(Sanitized(c.saveToPath))]

\* Mutant: the Message starts as a success.
ConfigureOptimistic(s) ==
    /\ pc[s] = "configure"
    /\ message' = [message EXCEPT ![s] =
                      [status |-> "SUCCESS", connectionId |-> conn[s], response |-> NoAnswer]]
    /\ connector' = [connector EXCEPT ![s] = Configured(cfg(s))]
    /\ Goto(s, "send")
    /\ UNCHANGED <<button, send, conn, cachedSsl, isSending, room, sends>>

\* Mutant: an empty saveToPath leaves the last one in place.
ConfigureKeepsPath(s) ==
    /\ pc[s] = "configure"
    /\ message' = [message EXCEPT ![s] =
                      [status |-> "FAILED", connectionId |-> conn[s], response |-> NoAnswer]]
    /\ connector' = [connector EXCEPT ![s] =
                        IF cfg(s).saveToPath # NoName THEN Configured(cfg(s))
                        ELSE [Configured(cfg(s)) EXCEPT !.saveToPath = connector[s].saveToPath]]
    /\ Goto(s, "send")
    /\ UNCHANGED <<button, send, conn, cachedSsl, isSending, room, sends>>

Configure(s) ==
    /\ pc[s] = "configure"
    /\ message' = [message EXCEPT ![s] =
                      [status |-> "FAILED", connectionId |-> conn[s], response |-> NoAnswer]]
    /\ connector' = [connector EXCEPT ![s] = Configured(cfg(s))]
    /\ Goto(s, "send")
    /\ UNCHANGED <<button, send, conn, cachedSsl, isSending, room, sends>>

\* sendJsonMessage and uploadFile: the request the connector's fields describe.
\* A file without a saveToPath goes under its own name.
RequestOf(f, ssl) ==
    IF f.sendingType = "FILE"
    THEN [path |-> "/api/upload", server |-> f.server, ssl |-> ssl, body |-> f.fileUri,
          name |-> IF f.saveToPath # NoName THEN f.saveToPath ELSE f.fileUri]
    ELSE [path |-> "/api/send", server |-> f.server, ssl |-> ssl, body |-> f.sendingData,
          name |-> f.saveToPath]

\* client(): the cached OkHttpClient, unless the TLS flag has changed.
Ssl(f) == IF f.server \in Encrypted THEN "ssl" ELSE "plain"
ClientFor(s) == IF cachedSsl[s] = Ssl(connector[s]) THEN cachedSsl[s] ELSE Ssl(connector[s])

\* Connector.sendData up to the call: the request is out.
StartSending(s) ==
    /\ pc[s] = "send"
    /\ isSending' = [isSending EXCEPT ![s] = TRUE]
    /\ cachedSsl' = [cachedSsl EXCEPT ![s] = ClientFor(s)]
    /\ sends' = [sends EXCEPT ![send[s]].request = RequestOf(connector[s], ClientFor(s))]
    /\ Goto(s, "execute")
    /\ UNCHANGED <<button, send, conn, message, connector, room>>

\* Mutant: a send that throws is not recorded.
ExecuteNoFinally(s) ==
    /\ pc[s] = "execute"
    /\ \/ \E a \in Answers :
             /\ message' = [message EXCEPT ![s].status = "SUCCESS", ![s].response = a]
             /\ sends' = [sends EXCEPT ![send[s]].answer = a]
             /\ Goto(s, "record")
       \/ /\ sends' = [sends EXCEPT ![send[s]].answer = Failure]
          /\ Goto(s, "show")
          /\ UNCHANGED message
    /\ isSending' = [isSending EXCEPT ![s] = FALSE]
    /\ UNCHANGED <<button, send, conn, connector, cachedSsl, room>>

\* execute returns a body, whatever its status, or throws; OkHttp's timeouts
\* make it do one of them.
Execute(s) ==
    /\ pc[s] = "execute"
    /\ \/ \E a \in Answers :
             /\ message' = [message EXCEPT ![s].status = "SUCCESS", ![s].response = a]
             /\ sends' = [sends EXCEPT ![send[s]].answer = a]
       \/ /\ sends' = [sends EXCEPT ![send[s]].answer = Failure]
          /\ UNCHANGED message
    /\ isSending' = [isSending EXCEPT ![s] = FALSE]
    /\ Goto(s, "record")
    /\ UNCHANGED <<button, send, conn, connector, cachedSsl, room>>

\* The finally block's INSERT, which its foreign keys can refuse.
Record(s) ==
    /\ pc[s] = "record"
    /\ messages' = IF MessageReferences
                   THEN Append(messages, [send |-> send[s],
                                          connectionId |-> message[s].connectionId,
                                          status |-> message[s].status,
                                          response |-> message[s].response])
                   ELSE messages
    /\ message' = IF MessageReferences THEN message ELSE [message EXCEPT ![s] = NoMessage]
    /\ Goto(s, "show")
    /\ UNCHANGED <<button, send, conn, connector, cachedSsl, isSending,
                   seeder, seeded, connections, sends>>

\* ServerResponse.fromJson: a Message, or an Error, or an exception.
ReadAsMessage(m) == m.status = "SUCCESS" /\ m.response = "message"

\* Mutant: only a response enables the button again.
ShowNoFinally(s) ==
    /\ pc[s] = "show"
    /\ sends' = [sends EXCEPT ![send[s]].told =
                    IF ReadAsMessage(message[s]) THEN "response" ELSE "error"]
    /\ Goto(s, IF sends'[send[s]].told = "response" THEN "enable" ELSE "idle")
    /\ UNCHANGED <<button, send, conn, message, connector, cachedSsl, isSending, room>>

\* The worker parses the answer and posts what to show: "Server response" for a Message, "Error" for everything else.
Show(s) ==
    /\ pc[s] = "show"
    /\ sends' = [sends EXCEPT ![send[s]].told =
                    IF ReadAsMessage(message[s]) THEN "response" ELSE "error"]
    /\ Goto(s, "enable")
    /\ UNCHANGED <<button, send, conn, message, connector, cachedSsl, isSending, room>>

\* The UI thread runs the worker's last post.
EnableButton(s) ==
    /\ pc[s] = "enable"
    /\ button' = [button EXCEPT ![s] = TRUE]
    /\ send' = [send EXCEPT ![s] = 0]
    /\ conn' = [conn EXCEPT ![s] = 0]
    /\ message' = [message EXCEPT ![s] = NoMessage]
    /\ Goto(s, "idle")
    /\ UNCHANGED <<connector, cachedSsl, isSending, room, sends>>

SendData(s) ==
    \/ Validate(s) \/ FindConnection(s) \/ InsertConnection(s) \/ Configure(s)
    \/ StartSending(s) \/ Execute(s) \/ Record(s)

Worker(s) == SendData(s) \/ Show(s) \/ EnableButton(s)

Next ==
    \/ CreateDatabase \/ Seed \/ Kill
    \/ \E s \in Screens :
          Create(s) \/ Worker(s) \/ \E c \in Configs : Click(s, c)

Spec == Init /\ [][Next]_vars

\* Threads that have work run: the workers, the UI thread, the executor.  That
\* a worker also leaves Execute is due to the connector's timeouts.
FairSpec ==
    /\ Spec
    /\ WF_vars(CreateDatabase) /\ WF_vars(Seed)
    /\ \A s \in Screens : WF_vars(Worker(s))

--------------------------------------------------------------------------------
(***************************************************************************)
(* Properties                                                              *)
(***************************************************************************)
Places == {"idle", "validate", "find", "insert", "findAgain", "configure", "send",
           "execute", "record", "show", "enable"}

\* Every variable has its type; the rows the phone keeps refer to a Connection
\* that exists, as Room's foreign keys demand (Message.java).
TypeOK ==
    /\ button \in [Screens -> BOOLEAN] /\ isSending \in [Screens -> BOOLEAN]
    /\ pc \in [Screens -> Places]
    /\ send \in [Screens -> 0..Len(sends)]
    /\ conn \in [Screens -> 0..Len(connections)]
    /\ cachedSsl \in [Screens -> {"none", "plain", "ssl"}]
    /\ seeder \in {"notCreated", "running", "ended"} /\ seeded \in 0..Len(Seeds)
    /\ connections \in Seq([server: Servers, send: 1..Len(sends)])
    /\ messages \in Seq([send: 1..Len(sends), connectionId: 1..Len(connections),
                         status: {"SUCCESS", "FAILED"}, response: Answers \cup {NoAnswer}])
    /\ \A n \in DOMAIN sends : sends[n].config \in Config

\* buttonSend.setEnabled(false) in onSendClicked and the post in the worker's
\* finally keep it to one worker per screen and view model, which is why
\* SendData can keep its state in fields (MainActivity.java:313, 334).
ButtonGuardsWorker ==
    \A s \in Screens : button[s] => pc[s] = "idle" /\ ~isSending[s]

\* What reaches the network for a click is what the form said at that click:
\* no field of an earlier send, or of another screen's, is left in the shared
\* Connector or its cached client (SendDataViewModel.java:141-174).
Promised(c) ==
    [path |-> IF c.sendingType = "FILE" THEN "/api/upload" ELSE "/api/send",
     server |-> c.server,
     ssl |-> IF c.server \in Encrypted THEN "ssl" ELSE "plain",
     body |-> c.data,
     name |-> IF c.saveToPath # NoName THEN sanitizeFilename[c.saveToPath]
              ELSE IF c.sendingType = "FILE" THEN c.data ELSE NoName]

TransmitsItsForm ==
    \A n \in DOMAIN sends :
        sends[n].request # NoRequest => sends[n].request = Promised(sends[n].config)

\* The Connection a history row refers to is the server the user sent to,
\* whichever worker inserted it (SendDataViewModel.java:132-149).
RowNamesItsServer ==
    \A m \in DOMAIN messages :
        connections[messages[m].connectionId].server = sends[messages[m].send].config.server

\* A history row says SUCCESS exactly when its own send got an answer, and keeps
\* that answer (SendDataViewModel.java:179-181).
RowMatchesExchange ==
    \A m \in DOMAIN messages :
        LET n == messages[m].send
        IN IF sends[n].answer \in Answers
           THEN messages[m].status = "SUCCESS" /\ messages[m].response = sends[n].answer
           ELSE messages[m].status = "FAILED" /\ messages[m].response = NoAnswer

\* "history stays complete" (SendDataViewModel.java:184): once the user has been
\* told how a send ended, it has exactly one row if a request went out, and no
\* row if none did.
RowsFor(n) == {m \in DOMAIN messages : messages[m].send = n}
HistoryComplete ==
    \A n \in DOMAIN sends :
        sends[n].told # "nothing" =>
            Cardinality(RowsFor(n)) = IF sends[n].request = NoRequest THEN 0 ELSE 1

\* "Ensure a Connection row exists (upsert by IP+port+TLS flag)"
\* (SendDataViewModel.java:131): no unique index backs it and workers of two
\* screens can each insert a row, but a send that begins when its server has a
\* row, from this process or an earlier one, never adds another.
KnownServerReused ==
    \A i \in DOMAIN connections : ~sends[connections[i].send].known

\* A send that has its Connection is never lost to a missing reference row, even
\* if the process was killed while the tables were being filled: the roles
\* come last (AppDatabase.java:78-81).
RecordNeverRefused ==
    \A s \in Screens : pc[s] \in {"configure", "send", "execute", "record"} => MessageReferences

\* However a send ends, its button can be used again (MainActivity.java:333-335).
EventuallyEnabled ==
    \A s \in Screens : ~button[s] ~> button[s]

\* The history's SUCCESS is what the user was told: "Persist a Message with status
\* SUCCESS or FAILED depending on the outcome" (SendDataViewModel.java:104),
\* which load-last-conn reads as "the most recent successful send".
SuccessIsWhatWasTold ==
    \A m \in DOMAIN messages :
        sends[messages[m].send].told # "nothing" =>
            (messages[m].status = "SUCCESS" <=> sends[messages[m].send].told = "response")

--------------------------------------------------------------------------------
(***************************************************************************)
(* The phone's history, seen as MessageLog's: a click is a request, its    *)
(* server the peer, and a row's response what the user would be told if    *)
(* the row were read back.                                                 *)
(***************************************************************************)
PhoneHistory ==
    [m \in DOMAIN messages |->
        [request |-> messages[m].send,
         peer |-> connections[messages[m].connectionId].server,
         response |-> IF ReadAsMessage(messages[m]) THEN "response" ELSE "error"]]

Clicked(n) == n \in DOMAIN sends

Phone == INSTANCE MessageLog WITH
    Requests <- 1..MaxSends, Peers <- Servers, Responses <- {"response", "error"},
    NoPeer <- NoName, NoReply <- "nothing", log <- PhoneHistory,
    sender <- [n \in 1..MaxSends |-> IF Clicked(n) THEN sends[n].config.server ELSE NoName],
    answer <- [n \in 1..MaxSends |-> IF Clicked(n) THEN sends[n].told ELSE "nothing"]

\* The screens, their workers and the database implement that history, the process
\* being killed or not: a send is recorded before its user is told how it ended,
\* under the server it went to, with what the user is then told
\* (SendDataViewModel.java:132-197, MainActivity.java:318-332).
ImplementsMessageLog == Phone!Spec

===============================================================================
