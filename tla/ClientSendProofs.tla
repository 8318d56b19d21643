---------------------------- MODULE ClientSendProofs ---------------------------
(***************************************************************************)
(* Theorems of ClientSend, for any number of screens and sends, any forms  *)
(* and servers, and a process that is killed any number of times.          *)
(***************************************************************************)
EXTENDS ClientSend, SequenceTheorems, FiniteSetTheorems, TLAPS

Request ==
    [path: {"/api/upload", "/api/send"}, server: Servers, ssl: {"plain", "ssl"},
     body: Names \cup {NoName}, name: Names \cup {NoName}]
Message ==
    [status: {"SUCCESS", "FAILED"}, connectionId: Nat, response: Answers \cup {NoAnswer}]
SendRecord ==
    [config: Config, known: BOOLEAN, request: Request \cup {NoRequest},
     answer: Answers \cup {NoAnswer, Failure}, told: {"nothing", "response", "error"}]

Types ==
    /\ TypeOK
    /\ sends \in Seq(SendRecord) /\ Len(sends) <= MaxSends
    /\ message \in [Screens -> Message \cup {NoMessage}]
    /\ DOMAIN connector = Screens
    /\ seeder # "ended" => seeded < Len(Seeds)

\* The places of a worker whose request has not gone out, and of one that knows its
\* Connection.
Before == {"validate", "find", "insert", "findAgain", "configure", "send"}
Connected == {"configure", "send", "execute", "record"}

\* A send has the rows it is to have when the user is told how it ended.
Recorded(n) ==
    IF sends[n].request = NoRequest
    THEN RowsFor(n) = {}
    ELSE \E m \in DOMAIN messages : RowsFor(n) = {m}

\* m says of a send with this answer what the history is to say.
Matches(m, answer) ==
    IF answer \in Answers THEN m.status = "SUCCESS" /\ m.response = answer
                          ELSE m.status = "FAILED" /\ m.response = NoAnswer

\* What the worker of s can rely on where it is.
WorkerOK(s) ==
    /\ button[s] => pc[s] = "idle"
    /\ isSending[s] <=> pc[s] = "execute"
    /\ send[s] = 0 <=> pc[s] = "idle"
    /\ pc[s] \notin {"idle", "enable"} => sends[send[s]].told = "nothing"
    /\ pc[s] \in Before =>
        sends[send[s]].request = NoRequest /\ sends[send[s]].answer = NoAnswer
    /\ pc[s] \in {"execute", "record"} => sends[send[s]].request # NoRequest
    /\ pc[s] = "execute" => sends[send[s]].answer = NoAnswer
    /\ pc[s] \in Before \cup {"execute", "record"} => RowsFor(send[s]) = {}
    /\ pc[s] \in {"show", "enable"} => Recorded(send[s])
    /\ pc[s] = "insert" => ~ sends[send[s]].known
    /\ pc[s] \in Connected => conn[s] \in RowsOf(cfg(s).server)
    /\ pc[s] \in {"send", "execute", "record"} =>
        message[s] \in Message /\ message[s].connectionId = conn[s]
    /\ pc[s] \in {"send", "execute", "record"} =>
        Matches(message[s], sends[send[s]].answer)
    /\ pc[s] = "show" /\ RowsFor(send[s]) # {} =>
        Matches(message[s], sends[send[s]].answer)
    /\ pc[s] = "send" => connector[s] = Configured(cfg(s))

\* No two workers serve the same click.
OneWorkerEach == \A s, t \in Screens : send[s] = send[t] /\ send[s] # 0 => s = t

SendOK(n) ==
    /\ sends[n].told # "nothing" => Recorded(n)
    /\ sends[n].request # NoRequest => sends[n].request = Promised(sends[n].config)
    /\ sends[n].known => RowsOf(sends[n].config.server) # {}
    /\ sends[n].told # "nothing" /\ sends[n].request # NoRequest =>
        (sends[n].told = "response" <=> sends[n].answer = "message")

RowOK(m) ==
    /\ connections[messages[m].connectionId].server = sends[messages[m].send].config.server
    /\ Matches(messages[m], sends[messages[m].send].answer)

RolesFirst == connections # <<>> => seeded = Len(Seeds)

IInv ==
    /\ Types
    /\ \A s \in Screens : WorkerOK(s)
    /\ OneWorkerEach
    /\ \A n \in DOMAIN sends : SendOK(n)
    /\ \A m \in DOMAIN messages : RowOK(m)
    /\ KnownServerReused
    /\ RolesFirst

--------------------------------------------------------------------------------
LEMMA SeedsLength == Len(Seeds) = 4
BY DEF Seeds

\* All the tables are filled when the last one is, the roles.
LEMMA SeededTables ==
    /\ seeded \in 0 .. 4 /\ ConnectionReferences => seeded = 4
    /\ seeded = 4 => MessageReferences
<1>1. Seeds[1] = "MessageStatus" /\ Seeds[2] = "MessageType" /\ Seeds[3] = "MessageDirection"
  BY DEF Seeds
<1>2. \A i \in {1, 2, 3} : Seeds[i] # "ConnectionRole"
  BY <1>1
<1>3. ASSUME seeded \in 0 .. 4, ConnectionReferences
      PROVE  seeded = 4
  <2>1. PICK i \in 1 .. seeded : Seeds[i] = "ConnectionRole"
    BY <1>3 DEF ConnectionReferences, Seeded
  <2>2. i \notin {1, 2, 3}
    BY <1>2, <2>1
  <2> QED
    BY <1>3, <2>1, <2>2
<1>4. ASSUME seeded = 4
      PROVE  MessageReferences
  <2>1. {1, 2, 3} \subseteq 1 .. seeded
    BY <1>4
  <2> QED
    BY <1>1, <2>1 DEF MessageReferences, Seeded
<1> QED
  BY <1>3, <1>4
--------------------------------------------------------------------------------
(***************************************************************************)
(* Types.                                                                  *)
(***************************************************************************)
Connection(last) == [server: Servers, send: 1 .. last]
Row(last, conns) ==
    [send: 1 .. last, connectionId: 1 .. conns,
     status: {"SUCCESS", "FAILED"}, response: Answers \cup {NoAnswer}]

LEMMA SeqMonotone ==
    ASSUME NEW S, NEW T, S \subseteq T, NEW q \in Seq(S)
    PROVE  q \in Seq(T)
<1>1. Len(q) \in Nat /\ DOMAIN q = 1 .. Len(q) /\ q = [i \in 1 .. Len(q) |-> q[i]]
  BY LenProperties
<1>2. \A i \in 1 .. Len(q) : q[i] \in T
  BY <1>1, ElementOfSeq
<1> QED
  BY <1>1, <1>2, IsASeq

\* What has a type keeps it when the tables grow.
LEMMA GrownTypes ==
    ASSUME TypeOK, NEW last \in Nat, Len(sends) <= last,
           NEW conns \in Nat, Len(connections) <= conns
    PROVE  /\ connections \in Seq(Connection(last))
           /\ messages \in Seq(Row(last, conns))
<1>1. 1 .. Len(sends) \subseteq 1 .. last /\ 1 .. Len(connections) \subseteq 1 .. conns
  OBVIOUS
<1>2. Connection(Len(sends)) \subseteq Connection(last)
  BY <1>1 DEF Connection
<1>3. Row(Len(sends), Len(connections)) \subseteq Row(last, conns)
  BY <1>1 DEF Row
<1>4. /\ connections \in Seq(Connection(Len(sends)))
      /\ messages \in Seq(Row(Len(sends), Len(connections)))
  BY DEF TypeOK, Connection, Row
<1> QED
  BY <1>2, <1>3, <1>4, SeqMonotone

\* The rows and sends by their places.
LEMMA TableFacts ==
    ASSUME Types
    PROVE  /\ Len(sends) \in Nat /\ DOMAIN sends = 1 .. Len(sends)
           /\ Len(connections) \in Nat /\ DOMAIN connections = 1 .. Len(connections)
           /\ Len(messages) \in Nat /\ DOMAIN messages = 1 .. Len(messages)
           /\ \A n \in DOMAIN sends : sends[n] \in SendRecord
           /\ \A i \in DOMAIN connections : connections[i] \in Connection(Len(sends))
           /\ \A m \in DOMAIN messages : messages[m] \in Row(Len(sends), Len(connections))
           /\ \A s \in Screens : send[s] # 0 => send[s] \in DOMAIN sends
<1>1. /\ connections \in Seq(Connection(Len(sends)))
      /\ messages \in Seq(Row(Len(sends), Len(connections)))
      /\ sends \in Seq(SendRecord)
  BY DEF Types, TypeOK, Connection, Row
<1>2. /\ Len(sends) \in Nat /\ DOMAIN sends = 1 .. Len(sends)
      /\ Len(connections) \in Nat /\ DOMAIN connections = 1 .. Len(connections)
      /\ Len(messages) \in Nat /\ DOMAIN messages = 1 .. Len(messages)
  BY <1>1, LenProperties
<1>3. /\ \A n \in DOMAIN sends : sends[n] \in SendRecord
      /\ \A i \in DOMAIN connections : connections[i] \in Connection(Len(sends))
      /\ \A m \in DOMAIN messages : messages[m] \in Row(Len(sends), Len(connections))
  BY <1>1, <1>2, ElementOfSeq
<1>4. \A s \in Screens : send[s] # 0 => send[s] \in DOMAIN sends
  BY <1>2 DEF Types, TypeOK
<1> QED
  BY <1>2, <1>3, <1>4

--------------------------------------------------------------------------------
(***************************************************************************)
(* What a step leaves alone.                                               *)
(***************************************************************************)
\* The tables only grow.
Extended ==
    \A i \in DOMAIN connections : i \in DOMAIN connections' /\ connections'[i] = connections[i]

\* Nothing of screen t changes.
Same(t) ==
    /\ button'[t] = button[t] /\ pc'[t] = pc[t] /\ send'[t] = send[t] /\ conn'[t] = conn[t]
    /\ message'[t] = message[t] /\ connector'[t] = connector[t]
    /\ isSending'[t] = isSending[t]

\* Nor what is known of send n.
SameSend(n) == n \in DOMAIN sends' /\ sends'[n] = sends[n] /\ RowsFor(n)' = RowsFor(n)

LEMMA RowsOfGrow == Extended => \A v : RowsOf(v) \subseteq RowsOf(v)'
BY DEF Extended, RowsOf

LEMMA RecordedKept ==
    ASSUME NEW n, SameSend(n), Recorded(n)
    PROVE  Recorded(n)'
<1>1. CASE sends[n].request = NoRequest
  BY <1>1 DEF SameSend, Recorded
<1>2. CASE sends[n].request # NoRequest
  <2>1. PICK m \in DOMAIN messages : RowsFor(n) = {m}
    BY <1>2 DEF Recorded
  <2>2. RowsFor(n)' = {m}
    BY <2>1 DEF SameSend
  <2>3. m \in DOMAIN messages'
    BY <2>2 DEF RowsFor
  <2> QED
    BY <1>2, <2>2, <2>3 DEF SameSend, Recorded
<1> QED
  BY <1>1, <1>2

LEMMA WorkerKept ==
    ASSUME Types, NEW t \in Screens, WorkerOK(t), Same(t), Extended,
           \A n : n = send[t] /\ n # 0 => SameSend(n)
    PROVE  WorkerOK(t)'
<1>1. CASE send[t] = 0
  <2>1. pc[t] = "idle"
    BY <1>1 DEF WorkerOK
  <2> QED
    BY <1>1, <2>1 DEF WorkerOK, Same, Before, Connected
<1>2. CASE send[t] # 0
  <2>1. PICK n : n = send[t]
    OBVIOUS
  <2>2. SameSend(n) /\ send'[t] = n /\ sends'[send'[t]] = sends[send[t]]
    BY <1>2, <2>1 DEF Same, SameSend
  <2>3. RowsFor(send[t])' = RowsFor(send[t])
    BY <2>1, <2>2 DEF SameSend, RowsFor
  <2>4. Recorded(send[t]) => Recorded(send[t])'
    <3>1. Recorded(n) => Recorded(n)'
      BY <2>2, RecordedKept
    <3> QED
      BY <2>1, <2>2, <3>1 DEF Recorded, RowsFor
  <2>5. cfg(t)' = cfg(t)
    BY <2>2 DEF cfg
  <2>6. RowsOf(cfg(t).server) \subseteq RowsOf(cfg(t).server)'
    BY <2>5, RowsOfGrow DEF RowsOf
  <2>7. pc[t] \in Before \cup {"execute", "record"} => RowsFor(send[t])' = {}
    BY <2>3 DEF WorkerOK
  <2>8. pc[t] \in {"show", "enable"} => Recorded(send[t])'
    BY <2>4 DEF WorkerOK
  <2>9. pc[t] \in Connected => conn[t] \in RowsOf(cfg(t).server)'
    BY <2>6 DEF WorkerOK
  <2>10. pc[t] = "send" => connector[t] = Configured(cfg(t))'
    BY <2>5 DEF WorkerOK, Configured, Sanitized
  <2>11. pc[t] = "show" /\ RowsFor(send[t])' # {} => Matches(message[t], sends[send[t]].answer)
    BY <2>3 DEF WorkerOK
  <2> QED
    BY <2>2, <2>7, <2>8, <2>9, <2>10, <2>11 DEF WorkerOK, Same
<1> QED
  BY <1>1, <1>2

\* What is true of a send stays true while nothing is done for it.
LEMMA SendKept ==
    ASSUME NEW n, SendOK(n), SameSend(n), Extended
    PROVE  SendOK(n)'
<1>1. Recorded(n) => Recorded(n)'
  BY RecordedKept
<1>2. RowsOf(sends[n].config.server) \subseteq RowsOf(sends[n].config.server)'
  BY RowsOfGrow DEF SameSend, RowsOf, Extended
<1>3. Promised(sends[n].config)' = Promised(sends[n].config)
  BY DEF SameSend, Promised
<1> QED
  BY <1>1, <1>2, <1>3 DEF SendOK, SameSend

\* A row stays what it is while its send keeps its form and its answer.
LEMMA RowKept ==
    ASSUME Types, NEW m \in DOMAIN messages, RowOK(m), Extended, messages'[m] = messages[m],
           NEW n, n = messages[m].send,
           sends'[n].config = sends[n].config, sends'[n].answer = sends[n].answer
    PROVE  RowOK(m)'
<1>1. messages[m].connectionId \in DOMAIN connections
  BY TableFacts DEF Row
<1> QED
  BY <1>1 DEF RowOK, Extended, Matches

\* A step of the worker of s, or of its screen, for its send n; the others find everything as
\* it was.
LEMMA OwnStep ==
    ASSUME IInv, NEW s \in Screens, \A t \in Screens \ {s} : Same(t),
           Extended, NEW n, n = send[s],
           \A k \in DOMAIN sends \ {n} : SameSend(k),
           \/ send'[s] \in {0, n}
           \/ send'[s] \notin DOMAIN sends
    PROVE  /\ \A t \in Screens \ {s} : WorkerOK(t)'
           /\ OneWorkerEach'
           /\ \A k \in DOMAIN sends \ {n} : SendOK(k)'
<1>1. ASSUME NEW t \in Screens \ {s}
      PROVE  WorkerOK(t)'
  <2>1. send[t] # 0 => send[t] \in DOMAIN sends \ {n}
    BY TableFacts DEF IInv, OneWorkerEach
  <2> QED
    BY <2>1, WorkerKept DEF IInv
<1>2. OneWorkerEach'
  <2>1. \A t \in Screens \ {s} : send'[t] = send[t] /\ (send[t] # 0 => send[t] \in DOMAIN sends)
    BY TableFacts DEF Same, IInv
  <2> QED
    BY <2>1 DEF IInv, OneWorkerEach
<1>3. \A k \in DOMAIN sends \ {n} : SendOK(k)'
  BY SendKept DEF IInv
<1> QED
  BY <1>1, <1>2, <1>3

--------------------------------------------------------------------------------
(***************************************************************************)
(* Steps that touch neither the tables nor the history.                    *)
(***************************************************************************)
LEMMA LocalStep ==
    ASSUME IInv, NEW s \in Screens, \A t \in Screens \ {s} : Same(t),
           UNCHANGED <<room, sends>>, send'[s] \in {0, send[s]}, Types', WorkerOK(s)'
    PROVE  IInv'
<1>1. Extended
  BY DEF Extended, room
<1>2. \A k \in DOMAIN sends : SameSend(k)
  BY DEF SameSend, RowsFor, room
<1>3. \A t \in Screens \ {s} : WorkerOK(t)'
  BY <1>1, <1>2, OwnStep
<1>4. OneWorkerEach'
  BY <1>1, <1>2, OwnStep
<1>5. \A k \in DOMAIN sends' : SendOK(k)'
  BY <1>1, <1>2, SendKept DEF IInv
<1>6. \A m \in DOMAIN messages' : RowOK(m)'
  BY <1>1, RowKept DEF IInv, room
<1>7. KnownServerReused' /\ RolesFirst'
  BY DEF IInv, KnownServerReused, RolesFirst, room
<1> QED
  BY <1>3, <1>4, <1>5, <1>6, <1>7 DEF IInv

LEMMA ValidateStep ==
    ASSUME IInv, NEW s \in Screens, Validate(s)
    PROVE  IInv'
<1>1. Types'
  BY DEF IInv, Types, TypeOK, Validate, Goto, Places, room
<1>2. \A t \in Screens \ {s} : Same(t)
  BY DEF IInv, Types, TypeOK, Validate, Goto, Same
<1>3. RowsFor(send[s])' = RowsFor(send[s])
  BY DEF Validate, RowsFor, room
<1>4. WorkerOK(s) /\ pc[s] = "validate"
  BY DEF IInv, Validate
<1>5. pc'[s] \in {"find", "show"}
  BY DEF IInv, Types, TypeOK, Validate, Goto
<1>6. Recorded(send[s])'
  BY <1>3, <1>4 DEF WorkerOK, Recorded, Before, Validate
<1>7. WorkerOK(s)'
  BY <1>3, <1>4, <1>5, <1>6 DEF WorkerOK, Before, Connected, Validate
<1> QED
  BY <1>1, <1>2, <1>7, LocalStep DEF Validate

LEMMA FindConnectionStep ==
    ASSUME IInv, NEW s \in Screens, FindConnection(s)
    PROVE  IInv'
<1>1. \A id \in RowsOf(cfg(s).server) : id \in 0 .. Len(connections)
  BY TableFacts DEF IInv, RowsOf
<1>2. Types'
  BY <1>1 DEF IInv, Types, TypeOK, FindConnection, Goto, Places, room
<1>3. \A t \in Screens \ {s} : Same(t)
  BY DEF IInv, Types, TypeOK, FindConnection, Goto, Same
<1>4. RowsFor(send[s])' = RowsFor(send[s]) /\ cfg(s)' = cfg(s)
  BY DEF FindConnection, RowsFor, cfg, room
<1>5. WorkerOK(s) /\ pc[s] \in {"find", "findAgain"} /\ send[s] \in DOMAIN sends
  BY TableFacts DEF IInv, FindConnection, WorkerOK
<1>6. \A v : RowsOf(v)' = RowsOf(v)
  BY DEF FindConnection, RowsOf, room
<1>7. UNCHANGED <<button, send, message, connector, isSending, sends>>
  BY DEF FindConnection
<1>8. /\ sends'[send'[s]] = sends[send[s]]
       /\ sends[send[s]].request = NoRequest /\ sends[send[s]].answer = NoAnswer
       /\ sends[send[s]].told = "nothing" /\ RowsFor(send[s])' = {} /\ send[s] # 0
       /\ ~ isSending[s] /\ ~ button[s]
  BY <1>4, <1>5, <1>7 DEF WorkerOK, Before
<1>9. ASSUME pc'[s] = "insert", RowsOf(cfg(s).server) = {}
      PROVE  WorkerOK(s)'
  <2>1. ~ sends[send[s]].known
    BY <1>5, <1>9 DEF IInv, SendOK, cfg
  <2> QED
    BY <1>9, <1>7, <1>8, <2>1 DEF WorkerOK, Before, Connected
<1>10. ASSUME pc'[s] = "configure", conn'[s] \in RowsOf(cfg(s).server)
      PROVE  WorkerOK(s)'
  <2>1. conn'[s] \in RowsOf(cfg(s).server)'
    BY <1>4, <1>10 DEF FindConnection, RowsOf, room
  <2> QED
    BY <1>10, <1>7, <1>8, <2>1 DEF WorkerOK, Before, Connected
<1>11. WorkerOK(s)'
  BY <1>9, <1>10 DEF IInv, Types, TypeOK, FindConnection, Goto
<1> QED
  BY <1>2, <1>3, <1>11, LocalStep DEF FindConnection

LEMMA ConfigureStep ==
    ASSUME IInv, NEW s \in Screens, Configure(s)
    PROVE  IInv'
<1> DEFINE made == [status |-> "FAILED", connectionId |-> conn[s], response |-> NoAnswer]
<1>1. made \in Message
  BY TableFacts DEF IInv, Types, TypeOK, Message
<1>2. Types'
  BY <1>1 DEF IInv, Types, TypeOK, Configure, Goto, Places, room
<1>3. \A t \in Screens \ {s} : Same(t)
  BY DEF IInv, Types, TypeOK, Configure, Goto, Same
<1>4. RowsFor(send[s])' = RowsFor(send[s]) /\ cfg(s)' = cfg(s)
  BY DEF Configure, RowsFor, cfg, room
<1>5. WorkerOK(s) /\ pc[s] = "configure" /\ pc'[s] = "send"
  BY DEF IInv, Configure, Goto, Types, TypeOK
<1>6. message'[s] = made /\ connector'[s] = Configured(cfg(s))
  BY DEF IInv, Configure, Types
<1>7. connector'[s] = Configured(cfg(s))'
  BY <1>4, <1>6 DEF Configured, Sanitized
<1>8. Matches(made, NoAnswer)
  BY DEF Matches, Answers, NoAnswer
<1>9. conn'[s] \in RowsOf(cfg(s).server)'
  BY <1>4, <1>5 DEF WorkerOK, Connected, Configure, RowsOf, room
<1>10. WorkerOK(s)'
  <2>1. sends[send[s]].answer = NoAnswer /\ sends[send[s]].request = NoRequest
    BY <1>5 DEF WorkerOK, Before
  <2>2. Matches(message[s], sends[send[s]].answer)'
    BY <1>6, <1>8, <2>1 DEF Configure, Matches
  <2>3. message'[s].connectionId = conn'[s]
    BY <1>6 DEF Configure
  <2>4. RowsFor(send[s])' = {}
    BY <1>4, <1>5 DEF WorkerOK, Before
  <2> HIDE DEF made
  <2> QED
    BY <1>1, <1>5, <1>6, <1>7, <1>9, <2>1, <2>2, <2>3, <2>4
    DEF WorkerOK, Before, Connected, Configure
<1> QED
  BY <1>2, <1>3, <1>10, LocalStep DEF Configure

LEMMA EnableButtonStep ==
    ASSUME IInv, NEW s \in Screens, EnableButton(s)
    PROVE  IInv'
<1>1. Types'
  BY DEF IInv, Types, TypeOK, EnableButton, Goto, Places, room
<1>2. \A t \in Screens \ {s} : Same(t)
  BY DEF IInv, Types, TypeOK, EnableButton, Goto, Same
<1>3. pc'[s] = "idle" /\ send'[s] = 0 /\ ~ isSending'[s]
  BY DEF IInv, Types, TypeOK, EnableButton, Goto, WorkerOK
<1>4. WorkerOK(s)'
  BY <1>3 DEF WorkerOK, Before, Connected
<1> QED
  BY <1>1, <1>2, <1>3, <1>4, LocalStep DEF EnableButton

LEMMA CreateStep ==
    ASSUME IInv, NEW s \in Screens, Create(s)
    PROVE  IInv'
<1>1. Types'
  BY DEF IInv, Types, TypeOK, Create, room
<1>2. \A t \in Screens \ {s} : Same(t)
  BY DEF IInv, Types, TypeOK, Create, Same
<1>3. pc'[s] = "idle" /\ send'[s] = 0 /\ send[s] = 0 /\ ~ isSending'[s]
  BY DEF IInv, Types, TypeOK, Create, WorkerOK
<1>4. WorkerOK(s)'
  BY <1>3 DEF WorkerOK, Before, Connected
<1> QED
  BY <1>1, <1>2, <1>3, <1>4, LocalStep DEF Create

--------------------------------------------------------------------------------
(***************************************************************************)
(* Steps that write into the send of their worker.                         *)
(***************************************************************************)
LEMMA UpdateSend ==
    ASSUME Types, NEW n \in DOMAIN sends, NEW rec \in SendRecord,
           sends' = [sends EXCEPT ![n] = rec]
    PROVE  /\ sends' \in Seq(SendRecord) /\ Len(sends') = Len(sends)
           /\ DOMAIN sends' = DOMAIN sends
           /\ \A k \in DOMAIN sends : sends'[k] = IF k = n THEN rec ELSE sends[k]
<1>1. sends \in Seq(SendRecord) /\ n \in 1 .. Len(sends) /\ DOMAIN sends = 1 .. Len(sends)
  BY TableFacts DEF Types
<1>2. /\ sends' \in Seq(SendRecord) /\ Len(sends') = Len(sends)
      /\ \A k \in 1 .. Len(sends) : sends'[k] = IF k = n THEN rec ELSE sends[k]
  BY <1>1, ExceptSeq
<1>3. DOMAIN sends' = 1 .. Len(sends')
  BY <1>2, LenProperties
<1> QED
  BY <1>1, <1>2, <1>3

LEMMA SendStep ==
    ASSUME IInv, NEW s \in Screens, \A t \in Screens \ {s} : Same(t), UNCHANGED room,
           NEW n \in DOMAIN sends, n = send[s], send'[s] = n,
           NEW rec \in SendRecord, sends' = [sends EXCEPT ![n] = rec],
           rec.config = sends[n].config, rec.known = sends[n].known,
           rec.answer = sends[n].answer \/ RowsFor(n) = {},
           sends' \in Seq(SendRecord) /\ Len(sends') = Len(sends) => Types',
           WorkerOK(s)', SendOK(n)'
    PROVE  IInv'
<1>1. /\ sends' \in Seq(SendRecord) /\ Len(sends') = Len(sends)
      /\ DOMAIN sends' = DOMAIN sends
      /\ \A k \in DOMAIN sends : sends'[k] = IF k = n THEN rec ELSE sends[k]
  BY UpdateSend DEF IInv
<1>2. Types' /\ Types
  BY <1>1 DEF IInv
<1>3. Extended
  BY DEF Extended, room
<1>4. \A k \in DOMAIN sends \ {n} : SameSend(k)
  BY <1>1 DEF SameSend, RowsFor, room
<1>5. /\ \A t \in Screens \ {s} : WorkerOK(t)'
      /\ OneWorkerEach'
      /\ \A k \in DOMAIN sends \ {n} : SendOK(k)'
  BY <1>3, <1>4, OwnStep
<1>6. \A k \in DOMAIN sends : sends'[k].config = sends[k].config /\ sends'[k].known = sends[k].known
  BY <1>1
<1>7. ASSUME NEW m \in DOMAIN messages'
      PROVE  RowOK(m)'
  <2>1. messages' = messages
    BY DEF room
  <2>2. PICK k : k = messages[m].send
    OBVIOUS
  <2>3. k \in DOMAIN sends
    BY <1>2, <2>1, <2>2, TableFacts DEF Row
  <2>4. k # n \/ RowsFor(n) # {}
    BY <2>1, <2>2 DEF RowsFor
  <2>5. sends'[k].answer = sends[k].answer
    BY <1>1, <2>3, <2>4
  <2> QED
    BY <1>2, <1>3, <1>6, <2>1, <2>2, <2>3, <2>5, RowKept DEF IInv
<1>8. KnownServerReused'
  <2>1. \A i \in DOMAIN connections : connections[i].send \in DOMAIN sends
    BY <1>2, TableFacts DEF Connection
  <2> QED
    BY <1>6, <2>1 DEF IInv, KnownServerReused, room
<1>9. RolesFirst'
  BY DEF IInv, RolesFirst, room
<1> QED
  BY <1>1, <1>2, <1>5, <1>7, <1>8, <1>9 DEF IInv

\* What the connector's fields describe is what the form said, whatever they held before:
\* sanitising twice is sanitising once.
LEMMA RequestPromised ==
    ASSUME NEW c \in Config
    PROVE  /\ RequestOf(Configured(c), Ssl(Configured(c))) = Promised(c)
           /\ Promised(c) \in Request
<1>1. c.saveToPath \in Names => sanitizeFilename[c.saveToPath] \in Names
  BY ClientAssumption
<1>2. c.saveToPath # NoName =>
        /\ Sanitized(Sanitized(c.saveToPath)) = sanitizeFilename[c.saveToPath]
        /\ sanitizeFilename[c.saveToPath] # NoName
  BY <1>1, ClientAssumption DEF Config, Sanitized
<1>3. c.saveToPath = NoName => Sanitized(Sanitized(c.saveToPath)) = NoName
  BY DEF Sanitized
<1>4. RequestOf(Configured(c), Ssl(Configured(c))) = Promised(c)
  BY <1>2, <1>3 DEF RequestOf, Configured, Promised, Ssl, Config
<1>5. Promised(c) \in Request
  BY <1>1 DEF Promised, Request, Config
<1> QED
  BY <1>4, <1>5

LEMMA StartSendingStep ==
    ASSUME IInv, NEW s \in Screens, StartSending(s)
    PROVE  IInv'
<1>1. PICK n : n = send[s]
  OBVIOUS
<1>2. WorkerOK(s) /\ pc[s] = "send" /\ pc'[s] = "execute" /\ isSending'[s]
  BY DEF IInv, StartSending, Goto, Types, TypeOK
<1>3. n \in DOMAIN sends /\ sends[n] \in SendRecord
  BY <1>1, <1>2, TableFacts DEF IInv, WorkerOK
<1> DEFINE req == Promised(sends[n].config)
           rec == [sends[n] EXCEPT !.request = req]
<1>4. RequestOf(connector[s], ClientFor(s)) = req /\ req \in Request
  <2>1. connector[s] = Configured(sends[n].config) /\ sends[n].config \in Config
    BY <1>1, <1>2, <1>3 DEF WorkerOK, cfg, SendRecord
  <2>2. ClientFor(s) = Ssl(connector[s])
    BY DEF ClientFor
  <2> QED
    BY <2>1, <2>2, RequestPromised
<1>5. sends' = [sends EXCEPT ![n] = rec]
  BY <1>1, <1>4 DEF StartSending
<1>6. req # NoRequest
  BY <1>4 DEF Request, NoRequest
<1> HIDE DEF req
<1>7. /\ rec \in SendRecord /\ rec.config = sends[n].config /\ rec.known = sends[n].known
      /\ rec.answer = sends[n].answer /\ rec.told = sends[n].told /\ rec.request = req
  BY <1>3, <1>4 DEF SendRecord
<1> HIDE DEF rec
<1>8. sends'[n] = rec
  BY <1>3, <1>5
<1>9. \A t \in Screens \ {s} : Same(t)
  BY DEF IInv, Types, TypeOK, StartSending, Goto, Same
<1>10. sends' \in Seq(SendRecord) /\ Len(sends') = Len(sends) => Types'
  <2> SUFFICES ASSUME sends' \in Seq(SendRecord), Len(sends') = Len(sends)
               PROVE  Types'
    OBVIOUS
  <2>1. ClientFor(s) \in {"plain", "ssl"}
    BY DEF ClientFor, Ssl
  <2>2. \A k \in DOMAIN sends' : sends'[k] \in SendRecord
    BY LenProperties, ElementOfSeq
  <2> QED
    BY <2>1, <2>2 DEF IInv, Types, TypeOK, StartSending, Goto, Places, room, SendRecord
<1>11. /\ RowsFor(n) = {} /\ RowsFor(n)' = {}
       /\ sends[n].told = "nothing" /\ sends[n].answer = NoAnswer
  BY <1>1, <1>2 DEF WorkerOK, Before, StartSending, RowsFor, room
<1>12. UNCHANGED <<button, send, conn, message, connections>>
  BY DEF StartSending, room
<1>13. WorkerOK(s)'
  <2>1. RowsFor(send[s])' = {}
    BY <1>1, <1>11, <1>12 DEF RowsFor
  <2>2. sends'[send'[s]] = rec
    BY <1>1, <1>8, <1>12
  <2>3. conn'[s] \in RowsOf(cfg(s).server)'
    BY <1>1, <1>2, <1>7, <1>12, <2>2 DEF WorkerOK, Connected, RowsOf, cfg
  <2>4. Matches(message[s], sends[send[s]].answer)'
    BY <1>1, <1>2, <1>7, <1>12, <2>2 DEF WorkerOK, Matches
  <2>5. /\ button'[s] = button[s] /\ send'[s] = send[s]
        /\ message'[s] = message[s] /\ conn'[s] = conn[s]
    BY <1>12
  <2> QED
    BY <1>1, <1>2, <1>6, <1>7, <1>11, <2>1, <2>2, <2>3, <2>4, <2>5 DEF WorkerOK, Before, Connected
<1>14. SendOK(n)'
  <2>1. sends[n].known => RowsOf(sends[n].config.server) # {}
    BY <1>3 DEF IInv, SendOK
  <2>2. Promised(sends[n].config)' = req
    BY <1>7, <1>8 DEF req, Promised
  <2> QED
    BY <1>7, <1>8, <1>11, <1>12, <2>1, <2>2 DEF SendOK, RowsOf
<1> QED
  BY <1>1, <1>3, <1>5, <1>7, <1>9, <1>10, <1>12, <1>13, <1>14, SendStep DEF StartSending

LEMMA ExecuteStep ==
    ASSUME IInv, NEW s \in Screens, Execute(s)
    PROVE  IInv'
<1>1. PICK n : n = send[s]
  OBVIOUS
<1>2. WorkerOK(s) /\ pc[s] = "execute" /\ pc'[s] = "record" /\ ~ isSending'[s]
  BY DEF IInv, Execute, Goto, Types, TypeOK
<1>3. n \in DOMAIN sends /\ sends[n] \in SendRecord
  BY <1>1, <1>2, TableFacts DEF IInv, WorkerOK
<1>4. /\ RowsFor(n) = {} /\ RowsFor(n)' = {} /\ sends[n].told = "nothing"
      /\ message[s] \in Message /\ message[s].connectionId = conn[s]
      /\ Matches(message[s], NoAnswer)
  BY <1>1, <1>2 DEF WorkerOK, Before, Execute, RowsFor, room
<1>5. PICK a \in Answers \cup {Failure} :
        /\ sends' = [sends EXCEPT ![n].answer = a]
        /\ message'[s] \in Message /\ message'[s].connectionId = conn[s]
        /\ Matches(message'[s], a)
        /\ message' = [message EXCEPT ![s] = message'[s]]
  <2>1. CASE \E a \in Answers :
               /\ message' = [message EXCEPT ![s].status = "SUCCESS", ![s].response = a]
               /\ sends' = [sends EXCEPT ![send[s]].answer = a]
    <3>1. PICK a \in Answers :
               /\ message' = [message EXCEPT ![s].status = "SUCCESS", ![s].response = a]
               /\ sends' = [sends EXCEPT ![send[s]].answer = a]
      BY <2>1
    <3> DEFINE m == [[message[s] EXCEPT !.status = "SUCCESS"] EXCEPT !.response = a]
    <3>2. m \in Message /\ m.connectionId = conn[s] /\ Matches(m, a)
      BY <1>4 DEF Message, Matches
    <3>3. message' = [message EXCEPT ![s] = m]
      BY <3>1 DEF IInv, Types
    <3> HIDE DEF m
    <3>4. message'[s] = m
      BY <3>3 DEF IInv, Types
    <3> QED
      BY <1>1, <3>1, <3>2, <3>3, <3>4
  <2>2. CASE sends' = [sends EXCEPT ![send[s]].answer = Failure] /\ message' = message
    <3>1. message' = [message EXCEPT ![s] = message'[s]]
      BY <2>2 DEF IInv, Types
    <3>2. Matches(message'[s], Failure)
      BY <1>4, <2>2 DEF Matches, Failure, Answers, NoAnswer
    <3> QED
      BY <1>1, <1>4, <2>2, <3>1, <3>2
  <2> QED
    BY <2>1, <2>2 DEF Execute
<1> DEFINE rec == [sends[n] EXCEPT !.answer = a]
<1>6. sends' = [sends EXCEPT ![n] = rec]
  BY <1>5
<1>7. /\ rec \in SendRecord /\ rec.config = sends[n].config /\ rec.known = sends[n].known
      /\ rec.request = sends[n].request /\ rec.told = sends[n].told /\ rec.answer = a
  BY <1>3, <1>5 DEF SendRecord
<1> HIDE DEF rec
<1>8. sends'[n] = rec
  BY <1>3, <1>6
<1>9. \A t \in Screens \ {s} : Same(t)
  BY <1>5 DEF IInv, Types, TypeOK, Execute, Goto, Same
<1>10. sends' \in Seq(SendRecord) /\ Len(sends') = Len(sends) => Types'
  <2> SUFFICES ASSUME sends' \in Seq(SendRecord), Len(sends') = Len(sends)
               PROVE  Types'
    OBVIOUS
  <2>1. \A k \in DOMAIN sends' : sends'[k] \in SendRecord
    BY LenProperties, ElementOfSeq
  <2>2. message' \in [Screens -> Message \cup {NoMessage}]
    BY <1>5 DEF IInv, Types
  <2> QED
    BY <2>1, <2>2 DEF IInv, Types, TypeOK, Execute, Goto, Places, room, SendRecord
<1>11. UNCHANGED <<button, send, conn, connections, room>>
  BY DEF Execute, room
<1>12. WorkerOK(s)'
  <2>1. RowsFor(send[s])' = {}
    BY <1>1, <1>4, <1>11 DEF RowsFor
  <2>2. sends'[send'[s]] = rec
    BY <1>1, <1>8, <1>11
  <2>3. conn'[s] \in RowsOf(cfg(s).server)'
    BY <1>1, <1>2, <1>7, <1>11, <2>2 DEF WorkerOK, Connected, RowsOf, cfg
  <2>4. Matches(message[s], sends[send[s]].answer)'
    BY <1>5, <1>7, <2>2 DEF Matches
  <2>5. button'[s] = button[s] /\ send'[s] = send[s] /\ conn'[s] = conn[s]
    BY <1>11
  <2> QED
    BY <1>1, <1>2, <1>4, <1>5, <1>7, <2>1, <2>2, <2>3, <2>4, <2>5
    DEF WorkerOK, Before, Connected
<1>13. SendOK(n)'
  <2>1. /\ sends[n].known => RowsOf(sends[n].config.server) # {}
        /\ sends[n].request # NoRequest => sends[n].request = Promised(sends[n].config)
    BY <1>3 DEF IInv, SendOK
  <2> QED
    BY <1>4, <1>7, <1>8, <1>11, <2>1 DEF SendOK, RowsOf, Promised
<1> QED
  BY <1>1, <1>3, <1>4, <1>6, <1>7, <1>9, <1>10, <1>11, <1>12, <1>13, SendStep

LEMMA ShowStep ==
    ASSUME IInv, NEW s \in Screens, Show(s)
    PROVE  IInv'
<1>1. PICK n : n = send[s]
  OBVIOUS
<1>2. WorkerOK(s) /\ pc[s] = "show" /\ pc'[s] = "enable"
  BY DEF IInv, Show, Goto, Types, TypeOK
<1>3. n \in DOMAIN sends /\ sends[n] \in SendRecord
  BY <1>1, <1>2, TableFacts DEF IInv, WorkerOK
<1> DEFINE told == IF ReadAsMessage(message[s]) THEN "response" ELSE "error"
           rec == [sends[n] EXCEPT !.told = told]
<1>4. sends' = [sends EXCEPT ![n] = rec]
  BY <1>1 DEF Show
<1>5. /\ rec \in SendRecord /\ rec.config = sends[n].config /\ rec.known = sends[n].known
      /\ rec.request = sends[n].request /\ rec.answer = sends[n].answer
  BY <1>3 DEF SendRecord
<1> HIDE DEF rec
<1>6. sends'[n] = rec
  BY <1>3, <1>4
<1>7. \A t \in Screens \ {s} : Same(t)
  BY DEF IInv, Types, TypeOK, Show, Goto, Same
<1>8. sends' \in Seq(SendRecord) /\ Len(sends') = Len(sends) => Types'
  <2> SUFFICES ASSUME sends' \in Seq(SendRecord), Len(sends') = Len(sends)
               PROVE  Types'
    OBVIOUS
  <2>1. \A k \in DOMAIN sends' : sends'[k] \in SendRecord
    BY LenProperties, ElementOfSeq
  <2> QED
    BY <2>1 DEF IInv, Types, TypeOK, Show, Goto, Places, room, SendRecord
<1>9. UNCHANGED <<button, send, isSending, room>>
  BY DEF Show
<1>10. Recorded(n)'
  <2>1. RowsFor(n)' = RowsFor(n) /\ messages' = messages
    BY <1>9 DEF RowsFor, room
  <2>2. Recorded(n)
    BY <1>1, <1>2 DEF WorkerOK
  <2> QED
    BY <1>5, <1>6, <2>1, <2>2 DEF Recorded
<1>11. WorkerOK(s)'
  <2>1. Recorded(send[s])'
    BY <1>1, <1>9, <1>10 DEF Recorded, RowsFor
  <2> QED
    BY <1>1, <1>2, <1>9, <2>1 DEF WorkerOK, Before, Connected
<1>12. SendOK(n)'
  <2>1. /\ sends[n].known => RowsOf(sends[n].config.server) # {}
        /\ sends[n].request # NoRequest => sends[n].request = Promised(sends[n].config)
    BY <1>3 DEF IInv, SendOK
  <2>2. sends[n].request # NoRequest => (told = "response" <=> sends[n].answer = "message")
    <3>1. sends[n].request # NoRequest => RowsFor(n) # {}
      BY <1>1, <1>2 DEF WorkerOK, Recorded, RowsFor
    <3>2. RowsFor(n) # {} => Matches(message[s], sends[n].answer)
      BY <1>1, <1>2 DEF WorkerOK, RowsFor
    <3> QED
      BY <1>3, <3>1, <3>2 DEF Matches, ReadAsMessage, SendRecord, Answers, NoAnswer, Failure
  <2>3. sends'[n].told = told
    BY <1>3, <1>6 DEF rec, SendRecord
  <2> QED
    BY <1>5, <1>6, <1>9, <1>10, <2>1, <2>2, <2>3 DEF SendOK, RowsOf, Promised, room
<1> QED
  BY <1>1, <1>3, <1>4, <1>5, <1>7, <1>8, <1>9, <1>11, <1>12, SendStep

--------------------------------------------------------------------------------
(***************************************************************************)
(* Steps that fill the database, and the process's end.                    *)
(***************************************************************************)
LEMMA SeedingStep ==
    ASSUME IInv, CreateDatabase \/ Seed
    PROVE  IInv'
<1>1. UNCHANGED <<button, pc, send, conn, message, connector, isSending, connections,
                  messages, sends>>
  BY DEF CreateDatabase, Seed, screenVars
<1>2. seeded \in 0 .. 4 /\ (seeder # "ended" => seeded < 4)
  BY SeedsLength DEF IInv, Types, TypeOK
<1>3. seeded' \in 0 .. 4 /\ seeded' >= seeded /\ (seeder' # "ended" => seeded' < 4)
  BY <1>2, SeedsLength DEF CreateDatabase, Seed
<1>4. Types'
  BY <1>1, <1>3, SeedsLength DEF IInv, Types, TypeOK, CreateDatabase, Seed, screenVars
<1>5. Extended /\ (\A t \in Screens : Same(t)) /\ (\A n \in DOMAIN sends : SameSend(n))
  BY <1>1 DEF Extended, Same, SameSend, RowsFor
<1>6. \A t \in Screens : WorkerOK(t)'
  <2>1. \A t \in Screens : send[t] # 0 => send[t] \in DOMAIN sends
    BY TableFacts DEF IInv
  <2> QED
    BY <1>5, <2>1, WorkerKept DEF IInv
<1>7. \A n \in DOMAIN sends' : SendOK(n)'
  BY <1>1, <1>5, SendKept DEF IInv
<1>8. \A m \in DOMAIN messages' : RowOK(m)'
  BY <1>1, <1>5, RowKept DEF IInv
<1>9. OneWorkerEach' /\ KnownServerReused'
  BY <1>1 DEF IInv, OneWorkerEach, KnownServerReused
<1>10. RolesFirst'
  BY <1>1, <1>2, <1>3, SeedsLength DEF IInv, RolesFirst
<1> QED
  BY <1>4, <1>6, <1>7, <1>8, <1>9, <1>10 DEF IInv

LEMMA KillStep ==
    ASSUME IInv, Kill
    PROVE  IInv'
<1>1. UNCHANGED <<seeded, connections, messages, sends>>
  BY DEF Kill
<1>2. Types'
  BY DEF IInv, Types, TypeOK, Kill, Places
<1>3. Extended /\ (\A n \in DOMAIN sends : SameSend(n))
  BY <1>1 DEF Extended, SameSend, RowsFor
<1>4. \A t \in Screens : WorkerOK(t)'
  <2>1. \A t \in Screens : pc'[t] = "idle" /\ send'[t] = 0 /\ ~ isSending'[t]
    BY DEF Kill
  <2> QED
    BY <2>1 DEF WorkerOK, Before, Connected
<1>5. OneWorkerEach'
  BY DEF Kill, OneWorkerEach
<1>6. \A n \in DOMAIN sends' : SendOK(n)'
  BY <1>1, <1>3, SendKept DEF IInv
<1>7. \A m \in DOMAIN messages' : RowOK(m)'
  BY <1>1, <1>3, RowKept DEF IInv
<1>8. KnownServerReused' /\ RolesFirst'
  BY <1>1 DEF IInv, KnownServerReused, RolesFirst
<1> QED
  BY <1>2, <1>4, <1>5, <1>6, <1>7, <1>8 DEF IInv

--------------------------------------------------------------------------------
(***************************************************************************)
(* Steps that add a click or a row.                                        *)
(***************************************************************************)
LEMMA ClickStep ==
    ASSUME IInv, NEW s \in Screens, NEW c \in Configs, Click(s, c)
    PROVE  IInv'
<1> DEFINE new == [config |-> c, known |-> RowsOf(c.server) # {}, request |-> NoRequest,
                   answer |-> NoAnswer, told |-> "nothing"]
           last == Len(sends) + 1
<1>1. new \in SendRecord
  BY ClientAssumption DEF SendRecord
<1>2. /\ new.request = NoRequest /\ new.answer = NoAnswer /\ new.told = "nothing"
      /\ new.config = c /\ (new.known => RowsOf(c.server) # {})
  OBVIOUS
<1>3. sends' = Append(sends, new) /\ send' = [send EXCEPT ![s] = Len(sends')]
  BY DEF Click
<1> HIDE DEF new
<1>4. Len(sends) \in Nat /\ DOMAIN sends = 1 .. Len(sends) /\ last \in Nat /\ last > 0
  BY TableFacts DEF IInv
<1>5. /\ sends' \in Seq(SendRecord) /\ Len(sends') = last
      /\ DOMAIN sends' = 1 .. last
      /\ \A n \in DOMAIN sends : sends'[n] = sends[n]
      /\ sends'[last] = new
  <2>1. sends \in Seq(SendRecord)
    BY DEF IInv, Types
  <2>2. sends' \in Seq(SendRecord)
    BY <1>1, <1>3, <2>1, AppendProperties
  <2> QED
    BY <1>1, <1>3, <1>4, <2>1, <2>2, AppendProperties, LenProperties
<1>6. UNCHANGED <<conn, message, connector, cachedSsl, isSending, seeder, seeded,
                  connections, messages>>
  BY DEF Click, room
<1>7. WorkerOK(s) /\ pc[s] = "idle" /\ send[s] = 0 /\ ~ isSending[s]
  BY DEF IInv, Click, WorkerOK
<1>8. pc'[s] = "validate" /\ send'[s] = last /\ ~ button'[s] /\ ~ isSending'[s]
  BY <1>3, <1>5, <1>6, <1>7 DEF IInv, Types, TypeOK, Click, Goto
<1>9. Types'
  <2>1. /\ button' \in [Screens -> BOOLEAN] /\ isSending' \in [Screens -> BOOLEAN]
        /\ pc' \in [Screens -> Places]
        /\ cachedSsl' \in [Screens -> {"none", "plain", "ssl"}]
        /\ message' \in [Screens -> Message \cup {NoMessage}] /\ DOMAIN connector' = Screens
        /\ seeder' \in {"notCreated", "running", "ended"} /\ seeded' \in 0 .. Len(Seeds)
        /\ (seeder' # "ended" => seeded' < Len(Seeds))
        /\ conn' \in [Screens -> 0 .. Len(connections')]
    BY <1>6 DEF IInv, Types, TypeOK, Click, Goto, Places
  <2>2. send' \in [Screens -> 0 .. Len(sends')]
    <3>1. \A t \in Screens : send[t] \in 0 .. last
      BY <1>4 DEF IInv, Types, TypeOK
    <3> QED
      BY <1>3, <1>4, <1>5, <3>1 DEF IInv, Types, TypeOK
  <2>3. /\ connections' \in Seq(Connection(Len(sends')))
        /\ messages' \in Seq(Row(Len(sends'), Len(connections')))
    <3>1. Len(connections) \in Nat /\ Len(connections) <= Len(connections)
      BY TableFacts DEF IInv
    <3> QED
      BY <1>4, <1>5, <1>6, <3>1, GrownTypes DEF IInv, Types
  <2>4. \A n \in DOMAIN sends' : sends'[n].config \in Config
    <3>1. \A n \in DOMAIN sends' : sends'[n] \in SendRecord
      BY <1>5, ElementOfSeq
    <3> QED
      BY <3>1 DEF SendRecord
  <2>5. Len(sends') <= MaxSends
    BY <1>4, <1>5, ClientAssumption DEF Click
  <2> QED
    BY <1>5, <2>1, <2>2, <2>3, <2>4, <2>5 DEF Types, TypeOK, Connection, Row
<1>10. \A t \in Screens \ {s} : Same(t)
  BY <1>3, <1>6 DEF IInv, Types, TypeOK, Click, Goto, Same
<1>11. Extended
  BY <1>6 DEF Extended
<1>12. \A n \in DOMAIN sends : SameSend(n)
  BY <1>4, <1>5, <1>6 DEF SameSend, RowsFor
<1>13. /\ \A t \in Screens \ {s} : WorkerOK(t)'
       /\ OneWorkerEach'
       /\ \A n \in DOMAIN sends : SendOK(n)'
  <2>1. send'[s] \notin DOMAIN sends /\ 0 \notin DOMAIN sends
    BY <1>4, <1>8
  <2> QED
    BY <1>7, <1>10, <1>11, <1>12, <2>1, OwnStep
<1>14. PICK n : n = last
  OBVIOUS
<1>15. RowsFor(n)' = {}
  <2>1. \A m \in DOMAIN messages : messages[m].send \in 1 .. Len(sends)
    BY TableFacts DEF IInv, Row
  <2>2. \A m \in DOMAIN messages : messages[m].send # last
    BY <1>4, <2>1
  <2> QED
    BY <1>6, <1>14, <2>2 DEF RowsFor
<1>16. WorkerOK(s)'
  <2>1. RowsFor(send[s])' = {}
    BY <1>8, <1>14, <1>15 DEF RowsFor
  <2>2. sends'[send'[s]] = new /\ send'[s] # 0
    BY <1>4, <1>5, <1>8
  <2> QED
    BY <1>2, <1>8, <2>1, <2>2 DEF WorkerOK, Before, Connected
<1>17. SendOK(n)'
  BY <1>2, <1>5, <1>6, <1>14 DEF SendOK, RowsOf
<1>18. \A k \in DOMAIN sends' : SendOK(k)'
  BY <1>4, <1>5, <1>13, <1>14, <1>17
<1>19. \A m \in DOMAIN messages' : RowOK(m)'
  <2>1. \A m \in DOMAIN messages : messages[m].send \in DOMAIN sends
    BY TableFacts DEF IInv, Row
  <2> QED
    BY <1>5, <1>6, <1>11, <2>1, RowKept DEF IInv
<1>20. KnownServerReused'
  <2>1. \A i \in DOMAIN connections : connections[i].send \in DOMAIN sends
    BY TableFacts DEF IInv, Connection
  <2> QED
    BY <1>5, <1>6, <2>1 DEF IInv, KnownServerReused
<1>21. RolesFirst'
  BY <1>6 DEF IInv, RolesFirst
<1> QED
  BY <1>9, <1>13, <1>16, <1>18, <1>19, <1>20, <1>21 DEF IInv

LEMMA InsertConnectionStep ==
    ASSUME IInv, NEW s \in Screens, InsertConnection(s)
    PROVE  IInv'
<1>1. UNCHANGED <<button, send, conn, message, connector, cachedSsl, isSending, seeder, seeded,
                  messages, sends>>
  BY DEF InsertConnection
<1>2. PICK n : n = send[s]
  OBVIOUS
<1>3. WorkerOK(s) /\ pc[s] = "insert" /\ n \in DOMAIN sends /\ sends[n] \in SendRecord
  BY <1>2, TableFacts DEF IInv, InsertConnection, WorkerOK
<1> DEFINE new == [server |-> cfg(s).server, send |-> n]
<1>4. new \in Connection(Len(sends)) /\ new.send = n
  BY <1>2, <1>3, TableFacts DEF IInv, Connection, SendRecord, Config, cfg
<1>5. connections \in Seq(Connection(Len(sends))) /\ Len(connections) \in Nat
      /\ DOMAIN connections = 1 .. Len(connections)
  BY TableFacts DEF IInv, Types, TypeOK, Connection
<1>6. \/ /\ connections' = Append(connections, new) /\ pc'[s] = "findAgain"
         /\ seeded = Len(Seeds)
      \/ connections' = connections /\ pc'[s] = "show"
  BY <1>2, SeededTables, SeedsLength DEF InsertConnection, Goto, IInv, Types, TypeOK
<1> HIDE DEF new
<1>7. /\ connections' \in Seq(Connection(Len(sends))) /\ Len(connections') \in Nat
      /\ Len(connections') >= Len(connections)
      /\ DOMAIN connections' = 1 .. Len(connections')
      /\ \A i \in DOMAIN connections : i \in DOMAIN connections' /\ connections'[i] = connections[i]
      /\ \A i \in DOMAIN connections' : i \in DOMAIN connections \/ connections'[i] = new
  <2>1. CASE connections' = Append(connections, new)
    <3>1. /\ connections' \in Seq(Connection(Len(sends)))
          /\ Len(connections') = Len(connections) + 1
          /\ \A i \in 1 .. Len(connections) : connections'[i] = connections[i]
          /\ connections'[Len(connections) + 1] = new
      BY <1>4, <1>5, <2>1, AppendProperties
    <3>2. DOMAIN connections' = 1 .. Len(connections')
      BY <3>1, LenProperties
    <3> QED
      BY <1>5, <3>1, <3>2
  <2>2. CASE connections' = connections
    BY <1>5, <2>2
  <2> QED
    BY <1>6, <2>1, <2>2
<1>8. Types'
  <2>1. /\ button' \in [Screens -> BOOLEAN] /\ isSending' \in [Screens -> BOOLEAN]
        /\ pc' \in [Screens -> Places]
        /\ cachedSsl' \in [Screens -> {"none", "plain", "ssl"}]
        /\ message' \in [Screens -> Message \cup {NoMessage}] /\ DOMAIN connector' = Screens
        /\ seeder' \in {"notCreated", "running", "ended"} /\ seeded' \in 0 .. Len(Seeds)
        /\ (seeder' # "ended" => seeded' < Len(Seeds))
        /\ send' \in [Screens -> 0 .. Len(sends')]
        /\ sends' \in Seq(SendRecord) /\ (\A k \in DOMAIN sends' : sends'[k].config \in Config)
        /\ Len(sends') <= MaxSends
    BY <1>1 DEF IInv, Types, TypeOK, InsertConnection, Goto, Places
  <2>2. conn' \in [Screens -> 0 .. Len(connections')]
    <3>1. conn \in [Screens -> 0 .. Len(connections)]
      BY DEF IInv, Types, TypeOK
    <3>2. 0 .. Len(connections) \subseteq 0 .. Len(connections')
      BY <1>5, <1>7
    <3> QED
      BY <1>1, <3>1, <3>2
  <2>3. messages' \in Seq(Row(Len(sends'), Len(connections')))
    <3>1. Len(sends) \in Nat /\ Len(sends) <= Len(sends)
      BY TableFacts DEF IInv
    <3> QED
      BY <1>1, <1>5, <1>7, <3>1, GrownTypes DEF IInv, Types
  <2> QED
    BY <1>1, <1>7, <2>1, <2>2, <2>3 DEF Types, TypeOK, Connection, Row
<1>9. \A t \in Screens \ {s} : Same(t)
  BY <1>1 DEF IInv, Types, TypeOK, InsertConnection, Goto, Same
<1>10. Extended
  BY <1>7 DEF Extended
<1>11. \A k \in DOMAIN sends : SameSend(k)
  BY <1>1 DEF SameSend, RowsFor
<1>12. /\ \A t \in Screens \ {s} : WorkerOK(t)'
       /\ OneWorkerEach'
  BY <1>1, <1>2, <1>9, <1>10, <1>11, OwnStep
<1>13. WorkerOK(s)'
  <2>1. /\ sends'[send'[s]] = sends[send[s]]
        /\ sends[send[s]].request = NoRequest /\ sends[send[s]].answer = NoAnswer
        /\ sends[send[s]].told = "nothing" /\ RowsFor(send[s])' = {} /\ send[s] # 0
        /\ ~ isSending[s] /\ ~ button[s]
    BY <1>1, <1>3 DEF WorkerOK, Before, RowsFor
  <2>2. Recorded(send[s])'
    BY <2>1 DEF Recorded
  <2> QED
    BY <1>1, <1>6, <2>1, <2>2 DEF WorkerOK, Before, Connected
<1>14. \A k \in DOMAIN sends' : SendOK(k)'
  BY <1>1, <1>10, <1>11, SendKept DEF IInv
<1>15. \A m \in DOMAIN messages' : RowOK(m)'
  BY <1>1, <1>10, RowKept DEF IInv
<1>16. KnownServerReused'
  <2>1. ~ sends[n].known
    BY <1>2, <1>3 DEF WorkerOK
  <2>2. \A i \in DOMAIN connections : ~ sends[connections[i].send].known
    BY DEF IInv, KnownServerReused
  <2>3. \A i \in DOMAIN connections' : ~ sends'[connections'[i].send].known
    BY <1>1, <1>4, <1>7, <2>1, <2>2
  <2> QED
    BY <2>3 DEF KnownServerReused
<1>17. RolesFirst'
  BY <1>1, <1>6 DEF IInv, RolesFirst
<1> QED
  BY <1>8, <1>12, <1>13, <1>14, <1>15, <1>16, <1>17 DEF IInv

\* A worker that has its Connection finds every reference table filled.
LEMMA ReferencesThere ==
    ASSUME IInv, NEW s \in Screens, pc[s] \in Connected
    PROVE  MessageReferences
<1>1. connections # <<>>
  BY DEF IInv, WorkerOK, RowsOf
<1> QED
  BY <1>1, SeededTables, SeedsLength DEF IInv, RolesFirst

LEMMA RecordStep ==
    ASSUME IInv, NEW s \in Screens, Record(s)
    PROVE  IInv'
<1>1. UNCHANGED <<button, send, conn, connector, cachedSsl, isSending, seeder, seeded,
                  connections, sends>>
  BY DEF Record
<1>2. PICK n : n = send[s]
  OBVIOUS
<1>3. WorkerOK(s) /\ pc[s] = "record" /\ pc'[s] = "show"
  BY DEF IInv, Record, Goto, Types, TypeOK
<1>4. n \in DOMAIN sends /\ n # 0
  BY <1>2, <1>3, TableFacts DEF IInv, WorkerOK
<1>5. MessageReferences
  BY <1>3, ReferencesThere DEF Connected
<1> DEFINE new == [send |-> n, connectionId |-> message[s].connectionId,
                   status |-> message[s].status, response |-> message[s].response]
<1>6. messages' = Append(messages, new) /\ message' = message
  BY <1>2, <1>5 DEF Record
<1>7. /\ message[s] \in Message /\ message[s].connectionId = conn[s]
      /\ Matches(message[s], sends[n].answer)
      /\ conn[s] \in DOMAIN connections /\ connections[conn[s]].server = sends[n].config.server
  BY <1>2, <1>3 DEF WorkerOK, Connected, RowsOf, cfg
<1>8. new \in Row(Len(sends), Len(connections))
  BY <1>4, <1>7, TableFacts DEF IInv, Row, Message
<1>9. new.send = n /\ new.connectionId = conn[s] /\ Matches(new, sends[n].answer)
  BY <1>7 DEF Matches
<1> HIDE DEF new
<1>10. PICK place : place = Len(messages) + 1
  OBVIOUS
<1>11. Len(messages) \in Nat /\ DOMAIN messages = 1 .. Len(messages) /\ place \notin DOMAIN messages
  BY <1>10, TableFacts DEF IInv
<1>12. /\ messages' \in Seq(Row(Len(sends), Len(connections)))
       /\ DOMAIN messages' = DOMAIN messages \cup {place}
       /\ \A m \in DOMAIN messages : messages'[m] = messages[m]
       /\ messages'[place] = new
  <2>1. messages \in Seq(Row(Len(sends), Len(connections)))
    BY DEF IInv, Types, TypeOK, Row
  <2>2. /\ messages' \in Seq(Row(Len(sends), Len(connections))) /\ Len(messages') = place
        /\ \A m \in 1 .. Len(messages) : messages'[m] = messages[m]
        /\ messages'[place] = new
    BY <1>6, <1>8, <1>10, <1>11, <2>1, AppendProperties
  <2>3. DOMAIN messages' = 1 .. place
    BY <2>2, LenProperties
  <2> QED
    BY <1>10, <1>11, <2>2, <2>3
<1>13. Types'
  BY <1>1, <1>6, <1>12 DEF IInv, Types, TypeOK, Record, Goto, Places, Row
<1>14. \A t \in Screens \ {s} : Same(t)
  BY <1>1, <1>6 DEF IInv, Types, TypeOK, Record, Goto, Same
<1>15. Extended
  BY <1>1 DEF Extended
<1>16. ASSUME NEW k \in DOMAIN sends \ {n}
       PROVE  SameSend(k)
  <2>1. RowsFor(k)' = RowsFor(k)
    BY <1>9, <1>12 DEF RowsFor
  <2> QED
    BY <1>1, <2>1 DEF SameSend
<1>17. /\ \A t \in Screens \ {s} : WorkerOK(t)'
       /\ OneWorkerEach'
       /\ \A k \in DOMAIN sends \ {n} : SendOK(k)'
  BY <1>1, <1>2, <1>14, <1>15, <1>16, OwnStep
<1>18. RowsFor(n)' = {place}
  <2>1. RowsFor(n) = {}
    BY <1>2, <1>3 DEF WorkerOK
  <2> QED
    BY <1>9, <1>12, <2>1 DEF RowsFor
<1>19. Recorded(n)'
  <2>1. sends'[n].request # NoRequest
    BY <1>1, <1>2, <1>3 DEF WorkerOK
  <2> QED
    BY <1>12, <1>18, <2>1 DEF Recorded
<1>20. WorkerOK(s)'
  <2>1. Recorded(send[s])'
    BY <1>1, <1>2, <1>19 DEF Recorded, RowsFor
  <2>2. Matches(message'[s], sends'[send'[s]].answer)
    BY <1>1, <1>2, <1>6, <1>7
  <2> QED
    BY <1>1, <1>2, <1>3, <1>4, <2>1, <2>2 DEF WorkerOK, Before, Connected
<1>21. SendOK(n)'
  <2>1. /\ sends[n].known => RowsOf(sends[n].config.server) # {}
        /\ sends[n].request # NoRequest => sends[n].request = Promised(sends[n].config)
    BY <1>4 DEF IInv, SendOK
  <2>2. sends[n].told = "nothing"
    BY <1>2, <1>3 DEF WorkerOK
  <2> QED
    BY <1>1, <1>19, <2>1, <2>2 DEF SendOK, RowsOf, Promised
<1>22. \A m \in DOMAIN messages' : RowOK(m)'
  <2>1. \A m \in DOMAIN messages : RowOK(m)'
    BY <1>1, <1>12, <1>15, RowKept DEF IInv
  <2>2. RowOK(place)'
    BY <1>1, <1>7, <1>9, <1>12 DEF RowOK, Matches
  <2> QED
    BY <1>12, <2>1, <2>2
<1>23. KnownServerReused' /\ RolesFirst'
  BY <1>1 DEF IInv, KnownServerReused, RolesFirst
<1>24. \A k \in DOMAIN sends' : SendOK(k)'
  BY <1>1, <1>17, <1>21
<1> QED
  BY <1>13, <1>17, <1>20, <1>22, <1>23, <1>24 DEF IInv

--------------------------------------------------------------------------------
(***************************************************************************)
(* The invariant and what follows from it.                                 *)
(***************************************************************************)
LEMMA InitInvariant == Init => IInv
<1> SUFFICES ASSUME Init
             PROVE  IInv
  OBVIOUS
<1>1. Types
  <2>1. /\ connections \in Seq(Connection(0)) /\ messages \in Seq(Row(0, 0))
        /\ sends \in Seq(SendRecord) /\ Len(sends) = 0 /\ Len(connections) = 0
        /\ DOMAIN sends = {}
    BY EmptySeq, LenProperties DEF Init
  <2> QED
    BY <2>1, SeedsLength, ClientAssumption DEF Init, Types, TypeOK, Places, Connection, Row
<1>2. \A s \in Screens : WorkerOK(s)
  BY DEF Init, WorkerOK, Before, Connected
<1>3. OneWorkerEach
  BY DEF Init, OneWorkerEach
<1>4. DOMAIN sends = {} /\ DOMAIN messages = {} /\ DOMAIN connections = {} /\ connections = <<>>
  BY DEF Init
<1> QED
  BY <1>1, <1>2, <1>3, <1>4 DEF IInv, KnownServerReused, RolesFirst

LEMMA Stutter == IInv /\ UNCHANGED vars => IInv'
<1> SUFFICES ASSUME IInv, UNCHANGED vars
             PROVE  IInv'
  OBVIOUS
<1>1. UNCHANGED <<button, pc, send, conn, message, connector, cachedSsl, isSending, seeder,
                  seeded, connections, messages, sends>>
  BY DEF vars, screenVars, room
<1>2. Types'
  BY <1>1 DEF IInv, Types, TypeOK
<1>3. Extended /\ (\A t \in Screens : Same(t)) /\ (\A n \in DOMAIN sends : SameSend(n))
  BY <1>1 DEF Extended, Same, SameSend, RowsFor
<1>4. \A t \in Screens : WorkerOK(t)'
  <2>1. \A t \in Screens : send[t] # 0 => send[t] \in DOMAIN sends
    BY TableFacts DEF IInv
  <2> QED
    BY <1>3, <2>1, WorkerKept DEF IInv
<1>5. \A n \in DOMAIN sends' : SendOK(n)'
  BY <1>1, <1>3, SendKept DEF IInv
<1>6. \A m \in DOMAIN messages' : RowOK(m)'
  BY <1>1, <1>3, RowKept DEF IInv
<1>7. OneWorkerEach' /\ KnownServerReused' /\ RolesFirst'
  BY <1>1 DEF IInv, OneWorkerEach, KnownServerReused, RolesFirst
<1> QED
  BY <1>2, <1>4, <1>5, <1>6, <1>7 DEF IInv

\* One step of Next for each lemma above.
LEMMA Invariance == Spec => []IInv
<1>1. IInv /\ [Next]_vars => IInv'
  <2> SUFFICES ASSUME IInv, [Next]_vars
               PROVE  IInv'
    OBVIOUS
  <2>1. CASE CreateDatabase \/ Seed
    BY <2>1, SeedingStep
  <2>2. CASE Kill
    BY <2>2, KillStep
  <2>3. ASSUME NEW s \in Screens, Create(s)
        PROVE  IInv'
    BY <2>3, CreateStep
  <2>4. ASSUME NEW s \in Screens, SendData(s)
        PROVE  IInv'
    BY <2>4, ValidateStep, FindConnectionStep, InsertConnectionStep, ConfigureStep,
       StartSendingStep, ExecuteStep, RecordStep DEF SendData
  <2>5. ASSUME NEW s \in Screens, Show(s) \/ EnableButton(s)
        PROVE  IInv'
    BY <2>5, ShowStep, EnableButtonStep
  <2>6. ASSUME NEW s \in Screens, NEW c \in Configs, Click(s, c)
        PROVE  IInv'
    BY <2>6, ClickStep
  <2>7. CASE UNCHANGED vars
    BY <2>7, Stutter
  <2> QED
    BY <2>1, <2>2, <2>3, <2>4, <2>5, <2>6, <2>7 DEF Next, Worker
<1> QED
  BY <1>1, InitInvariant, PTL DEF Spec

\* However many sends there are, the tables keep their types and their references.
THEOREM TypeInvariant == Spec => []TypeOK
<1>1. IInv => TypeOK
  BY DEF IInv, Types
<1> QED
  BY <1>1, Invariance, PTL

\* A screen whose button can be used has no worker, and its connector is not sending.
THEOREM ButtonInvariant == Spec => []ButtonGuardsWorker
<1>1. IInv => ButtonGuardsWorker
  BY DEF IInv, WorkerOK, ButtonGuardsWorker
<1> QED
  BY <1>1, Invariance, PTL

\* Whatever was sent before, and from whichever screen, a request says what its form said.
THEOREM RequestsFaithful == Spec => []TransmitsItsForm
<1>1. IInv => TransmitsItsForm
  BY DEF IInv, SendOK, TransmitsItsForm
<1> QED
  BY <1>1, Invariance, PTL

\* However many workers insert Connections, a row is about the server its send went to.
THEOREM RowsNameServers == Spec => []RowNamesItsServer
<1>1. IInv => RowNamesItsServer
  BY DEF IInv, RowOK, RowNamesItsServer
<1> QED
  BY <1>1, Invariance, PTL

\* A row says of its send what became of it, and no later send changes that.
THEOREM RowsMatch == Spec => []RowMatchesExchange
<1>1. IInv => RowMatchesExchange
  BY DEF IInv, RowOK, Matches, RowMatchesExchange
<1> QED
  BY <1>1, Invariance, PTL

\* What the user was told about is in the history, once.
THEOREM HistoryInvariant == Spec => []HistoryComplete
<1>1. ASSUME IInv, NEW n \in DOMAIN sends, sends[n].told # "nothing"
      PROVE  Cardinality(RowsFor(n)) = IF sends[n].request = NoRequest THEN 0 ELSE 1
  <2>1. Recorded(n)
    BY <1>1 DEF IInv, SendOK
  <2>2. CASE sends[n].request = NoRequest
    BY <2>1, <2>2, FS_EmptySet DEF Recorded
  <2>3. CASE sends[n].request # NoRequest
    BY <2>1, <2>3, FS_Singleton DEF Recorded
  <2> QED
    BY <2>2, <2>3
<1>2. IInv => HistoryComplete
  BY <1>1 DEF HistoryComplete
<1> QED
  BY <1>2, Invariance, PTL

\* A send to a server with a row adds none, in this process or a later one.
THEOREM KnownServers == Spec => []KnownServerReused
<1>1. IInv => KnownServerReused
  BY DEF IInv
<1> QED
  BY <1>1, Invariance, PTL

\* Wherever a kill cut the filling of the reference tables short, no INSERT of a message is
\* refused.
THEOREM RecordsAccepted == Spec => []RecordNeverRefused
<1>1. IInv => RecordNeverRefused
  BY ReferencesThere DEF RecordNeverRefused, Connected
<1> QED
  BY <1>1, Invariance, PTL

\* SuccessIsWhatWasTold without the server's Error bodies, which are all that breaks it:
\* the row of such a send says SUCCESS, while its user is told of an error
\* (Connector.java:396-398, ServerResponse.java).
DivergesOnErrorsOnly ==
    \A m \in DOMAIN messages :
        LET was == sends[messages[m].send]
        IN  was.told # "nothing" =>
                IF was.answer = "error"
                THEN messages[m].status = "SUCCESS" /\ was.told = "error"
                ELSE messages[m].status = "SUCCESS" <=> was.told = "response"

\* What a user was told and what the history keeps differ for those sends only.
THEOREM HistoryDivergence == Spec => []DivergesOnErrorsOnly
<1>1. ASSUME IInv, NEW m \in DOMAIN messages, NEW n, n = messages[m].send,
             sends[n].told # "nothing"
      PROVE  IF sends[n].answer = "error"
             THEN messages[m].status = "SUCCESS" /\ sends[n].told = "error"
             ELSE messages[m].status = "SUCCESS" <=> sends[n].told = "response"
  <2>1. n \in DOMAIN sends /\ sends[n] \in SendRecord
    BY <1>1, TableFacts DEF IInv, Row
  <2>2. sends[n].request # NoRequest
    BY <1>1, <2>1 DEF IInv, SendOK, Recorded, RowsFor
  <2>3. sends[n].told = "response" <=> sends[n].answer = "message"
    BY <1>1, <2>1, <2>2 DEF IInv, SendOK
  <2>4. Matches(messages[m], sends[n].answer)
    BY <1>1 DEF IInv, RowOK, Matches
  <2> QED
    BY <1>1, <2>1, <2>3, <2>4 DEF Matches, SendRecord, Answers, NoAnswer, Failure
<1>2. IInv => DivergesOnErrorsOnly
  BY <1>1 DEF DivergesOnErrorsOnly
<1> QED
  BY <1>2, Invariance, PTL

--------------------------------------------------------------------------------
(***************************************************************************)
(* The phone's history implements MessageLog.                              *)
(***************************************************************************)
SenderOf == [n \in 1 .. MaxSends |-> IF Clicked(n) THEN sends[n].config.server ELSE NoName]
ToldOf == [n \in 1 .. MaxSends |-> IF Clicked(n) THEN sends[n].told ELSE "nothing"]

\* A row's entry, whatever rows and connections come after it.
EntryOf(m) ==
    [request |-> messages[m].send, peer |-> connections[messages[m].connectionId].server,
     response |-> IF ReadAsMessage(messages[m]) THEN "response" ELSE "error"]

LEMMA EntryKept ==
    ASSUME Types, Extended, NEW m \in DOMAIN messages, messages'[m] = messages[m]
    PROVE  EntryOf(m)' = EntryOf(m)
<1>1. messages[m].connectionId \in DOMAIN connections
  BY TableFacts DEF Row
<1> QED
  BY <1>1 DEF EntryOf, Extended, ReadAsMessage

LEMMA HistoryEntries ==
    /\ PhoneHistory = [m \in DOMAIN messages |-> EntryOf(m)]
    /\ \A n : Phone!EntriesOf(n) = RowsFor(n)
BY DEF PhoneHistory, EntryOf, RowsFor, Phone!EntriesOf

\* What neither clicks, records nor shows is not seen in the history.
LEMMA PhoneSteady ==
    ASSUME Types, Extended, messages' = messages, DOMAIN sends' = DOMAIN sends,
           \A n \in DOMAIN sends : /\ sends'[n].config = sends[n].config
                                   /\ sends'[n].told = sends[n].told
    PROVE  UNCHANGED Phone!vars
<1>1. SenderOf' = SenderOf /\ ToldOf' = ToldOf
  BY DEF SenderOf, ToldOf, Clicked
<1>2. PhoneHistory' = PhoneHistory
  <2>1. \A m \in DOMAIN messages : EntryOf(m)' = EntryOf(m)
    BY EntryKept
  <2> QED
    BY <2>1 DEF PhoneHistory, EntryOf
<1> QED
  BY <1>1, <1>2 DEF Phone!vars, SenderOf, ToldOf

LEMMA PhoneInit == Init => Phone!Init
BY DEF Init, Phone!Init, PhoneHistory, Clicked

LEMMA ClickArrives ==
    ASSUME IInv, NEW s \in Screens, NEW c \in Configs, Click(s, c)
    PROVE  Phone!Next
<1>0. PICK n : n = Len(sends) + 1
  OBVIOUS
<1>1. /\ DOMAIN sends = 1 .. Len(sends) /\ Len(sends) \in Nat
      /\ DOMAIN sends' = 1 .. n /\ n \in 1 .. MaxSends
      /\ \A k \in DOMAIN sends : sends'[k] = sends[k]
      /\ sends'[n].config = c /\ sends'[n].told = "nothing"
  BY <1>0, TableFacts, ClientAssumption DEF IInv, Types, Click
<1>2. c.server \in Servers
  BY ClientAssumption DEF Config
<1>3. /\ \A k \in DOMAIN sends : Clicked(k) /\ Clicked(k)' /\ sends'[k] = sends[k]
      /\ ~ Clicked(n) /\ Clicked(n)' /\ sends'[n].config.server = c.server
      /\ \A k \in 1 .. MaxSends \ ({n} \cup DOMAIN sends) : ~ Clicked(k) /\ ~ Clicked(k)'
  <2>1. n \notin DOMAIN sends /\ DOMAIN sends' = DOMAIN sends \cup {n}
    BY <1>0, <1>1
  <2> QED
    BY <1>1, <2>1 DEF Clicked
<1>4. /\ SenderOf[n] = NoName /\ SenderOf' = [SenderOf EXCEPT ![n] = c.server]
      /\ ToldOf' = ToldOf
  BY <1>1, <1>3 DEF SenderOf, ToldOf
<1>5. PhoneHistory' = PhoneHistory
  BY DEF Click, room, PhoneHistory, ReadAsMessage
<1>6. Phone!Arrive(n, c.server)
  BY <1>4, <1>5 DEF Phone!Arrive, SenderOf, ToldOf
<1> QED
  BY <1>1, <1>2, <1>6 DEF Phone!Next

LEMMA RecordRecords ==
    ASSUME IInv, NEW s \in Screens, Record(s)
    PROVE  Phone!Next
<1>1. UNCHANGED <<connections, sends>>
  BY DEF Record
<1>2. PICK n : n = send[s]
  OBVIOUS
<1>3. WorkerOK(s) /\ pc[s] = "record"
  BY DEF IInv, Record
<1>4. n \in DOMAIN sends /\ n \in 1 .. MaxSends
  <2>1. n # 0
    BY <1>2, <1>3 DEF WorkerOK
  <2> QED
    BY <1>2, <2>1, TableFacts, ClientAssumption DEF IInv, Types
<1>5. PICK row : row = [send |-> n, connectionId |-> message[s].connectionId,
                        status |-> message[s].status, response |-> message[s].response]
  OBVIOUS
<1>6. messages' = Append(messages, row)
  BY <1>2, <1>3, <1>5, ReferencesThere DEF Record, Connected
<1>7. /\ sends[n].told = "nothing" /\ RowsFor(n) = {}
      /\ message[s].connectionId = conn[s] /\ conn[s] \in DOMAIN connections
      /\ connections[conn[s]].server = sends[n].config.server
  BY <1>2, <1>3 DEF WorkerOK, Connected, RowsOf, cfg, RowsFor
<1>8. PICK a : a = IF ReadAsMessage(row) THEN "response" ELSE "error"
  OBVIOUS
<1>9. PICK e : e = [request |-> n, peer |-> SenderOf[n], response |-> a]
  OBVIOUS
<1>10. PICK place : place = Len(messages) + 1
  OBVIOUS
<1>11. /\ DOMAIN messages = 1 .. Len(messages) /\ Len(messages) \in Nat
       /\ DOMAIN messages' = 1 .. place
       /\ \A m \in DOMAIN messages : messages'[m] = messages[m]
       /\ messages'[place] = row
  <2>1. messages \in Seq(Row(Len(sends), Len(connections)))
    BY DEF IInv, Types, TypeOK, Row
  <2>2. DOMAIN messages = 1 .. Len(messages) /\ Len(messages) \in Nat
    BY TableFacts DEF IInv
  <2> QED
    BY <1>6, <1>10, <2>1, <2>2
<1>12. PhoneHistory' = Append(PhoneHistory, e)
  <2>1. \A m \in DOMAIN messages : EntryOf(m)' = EntryOf(m)
    BY <1>1, <1>11, EntryKept DEF IInv, Extended
  <2>2. EntryOf(place)' = e
    BY <1>1, <1>4, <1>5, <1>7, <1>8, <1>9, <1>11 DEF EntryOf, SenderOf, Clicked
  <2>3. PhoneHistory = [m \in DOMAIN messages |-> EntryOf(m)] /\ Len(PhoneHistory) = Len(messages)
    BY <1>11, HistoryEntries
  <2>4. PhoneHistory' = [m \in 1 .. place |-> IF m = place THEN e ELSE PhoneHistory[m]]
    <3>1. PhoneHistory' = [m \in DOMAIN messages' |-> EntryOf(m)']
      BY DEF PhoneHistory, EntryOf
    <3> QED
      BY <1>10, <1>11, <2>1, <2>2, <2>3, <3>1
  <2>5. Append(PhoneHistory, e) = [m \in 1 .. place |-> IF m = place THEN e ELSE PhoneHistory[m]]
    BY <1>10, <1>11, <2>3
  <2> QED
    BY <2>4, <2>5
<1>13. SenderOf[n] # NoName
  <2>1. sends[n].config.server \in Servers
    BY <1>4, TableFacts DEF IInv, SendRecord, Config
  <2> QED
    BY <1>4, <2>1, ClientAssumption DEF SenderOf, Clicked
<1>14. ToldOf[n] = "nothing" /\ SenderOf' = SenderOf /\ ToldOf' = ToldOf
  BY <1>1, <1>4, <1>7 DEF ToldOf, SenderOf, Clicked
<1>15. Phone!EntriesOf(n) = {}
  BY <1>7, HistoryEntries
<1>16. Phone!Record(n, a)
  BY <1>9, <1>12, <1>13, <1>14, <1>15 DEF Phone!Record, SenderOf, ToldOf
<1> QED
  BY <1>4, <1>8, <1>16 DEF Phone!Next

LEMMA ShowAnswers ==
    ASSUME IInv, NEW s \in Screens, Show(s)
    PROVE  Phone!Next
<1>1. UNCHANGED <<connections, messages>>
  BY DEF Show, room
<1>2. PICK n : n = send[s]
  OBVIOUS
<1>3. WorkerOK(s) /\ pc[s] = "show"
  BY DEF IInv, Show
<1>4. n \in DOMAIN sends /\ n \in 1 .. MaxSends
  <2>1. n # 0
    BY <1>2, <1>3 DEF WorkerOK
  <2> QED
    BY <1>2, <2>1, TableFacts, ClientAssumption DEF IInv, Types
<1>5. PICK a : a = IF ReadAsMessage(message[s]) THEN "response" ELSE "error"
  OBVIOUS
<1>6. sends' = [sends EXCEPT ![n].told = a]
  BY <1>2, <1>5 DEF Show
<1>7. /\ DOMAIN sends' = DOMAIN sends /\ sends'[n].told = a
      /\ \A k \in DOMAIN sends : sends'[k].config = sends[k].config
      /\ \A k \in DOMAIN sends \ {n} : sends'[k] = sends[k]
  <2>1. \A k \in DOMAIN sends : sends[k] \in SendRecord
    BY TableFacts DEF IInv
  <2> QED
    BY <1>4, <1>6, <2>1 DEF SendRecord
<1>8. /\ SenderOf' = SenderOf /\ SenderOf[n] # NoName
      /\ ToldOf[n] = "nothing" /\ ToldOf' = [ToldOf EXCEPT ![n] = a]
  <2>1. sends[n].config.server \in Servers
    BY <1>4, TableFacts DEF IInv, SendRecord, Config
  <2>2. sends[n].told = "nothing"
    BY <1>2, <1>3 DEF WorkerOK
  <2> QED
    BY <1>4, <1>7, <2>1, <2>2, ClientAssumption DEF SenderOf, ToldOf, Clicked
<1>9. PhoneHistory' = PhoneHistory
  BY <1>1 DEF PhoneHistory, ReadAsMessage
<1>10. ASSUME NEW m \in RowsFor(n)
       PROVE  PhoneHistory[m].response = a
  <2>1. m \in DOMAIN messages /\ messages[m].send = n
    BY DEF RowsFor
  <2>2. Matches(message[s], sends[n].answer)
    BY <1>2, <1>3 DEF WorkerOK, RowsFor
  <2>3. Matches(messages[m], sends[n].answer)
    BY <2>1 DEF IInv, RowOK, Matches
  <2>4. ReadAsMessage(messages[m]) <=> ReadAsMessage(message[s])
    BY <2>2, <2>3 DEF Matches, ReadAsMessage
  <2> QED
    BY <1>5, <2>1, <2>4, HistoryEntries DEF EntryOf
<1>11. Phone!Answer(n, a)
  BY <1>8, <1>9, <1>10, HistoryEntries DEF Phone!Answer, SenderOf, ToldOf
<1> QED
  BY <1>4, <1>5, <1>11 DEF Phone!Next

\* The other steps of a worker, its screen and the database.
LEMMA QuietSteps ==
    ASSUME IInv,
           \/ UNCHANGED vars
           \/ CreateDatabase
           \/ Seed
           \/ Kill
           \/ \E s \in Screens : Create(s) \/ Validate(s) \/ FindConnection(s) \/ Configure(s)
                                 \/ StartSending(s) \/ Execute(s) \/ EnableButton(s)
    PROVE  UNCHANGED Phone!vars
<1>1. connections' = connections /\ messages' = messages
  BY DEF vars, screenVars, room, CreateDatabase, Seed, Kill, Create, Validate, FindConnection,
         Configure, StartSending, Execute, EnableButton
<1>2. \A k \in DOMAIN sends : sends[k] \in SendRecord
  BY TableFacts DEF IInv
<1>3. /\ DOMAIN sends' = DOMAIN sends
      /\ \A k \in DOMAIN sends : sends'[k].config = sends[k].config /\ sends'[k].told = sends[k].told
  <2>1. CASE sends' = sends
    BY <2>1
  <2>2. ASSUME NEW s \in Screens, StartSending(s) \/ Execute(s)
        PROVE  <1>3
    <3>1. PICK n : n = send[s]
      OBVIOUS
    <3>2. \/ \E v : sends' = [sends EXCEPT ![n].request = v]
          \/ \E v : sends' = [sends EXCEPT ![n].answer = v]
      BY <2>2, <3>1 DEF StartSending, Execute
    <3> QED
      BY <1>2, <3>2 DEF SendRecord
  <2>3. \/ sends' = sends
        \/ \E s \in Screens : StartSending(s) \/ Execute(s)
    BY DEF vars, CreateDatabase, Seed, Kill, Create, Validate, FindConnection, Configure,
           EnableButton
  <2> QED
    BY <2>1, <2>2, <2>3
<1>4. Extended
  BY <1>1 DEF Extended
<1> QED
  BY <1>1, <1>3, <1>4, PhoneSteady DEF IInv

LEMMA InsertQuiet ==
    ASSUME IInv, NEW s \in Screens, InsertConnection(s)
    PROVE  UNCHANGED Phone!vars
<1>1. messages' = messages /\ sends' = sends
  BY DEF InsertConnection
<1>2. Extended
  <2>1. connections' = connections \/ \E row : connections' = Append(connections, row)
    BY DEF InsertConnection
  <2>2. connections \in Seq(Connection(Len(sends)))
    BY DEF IInv, Types, TypeOK, Connection
  <2> QED
    BY <2>1, <2>2 DEF Extended
<1> QED
  BY <1>1, <1>2, PhoneSteady DEF IInv

LEMMA PhoneStep == IInv /\ [Next]_vars => [Phone!Next]_(Phone!vars)
<1> SUFFICES ASSUME IInv, [Next]_vars
             PROVE  [Phone!Next]_(Phone!vars)
  OBVIOUS
<1>1. ASSUME NEW s \in Screens, NEW c \in Configs, Click(s, c)
      PROVE  Phone!Next
  BY <1>1, ClickArrives
<1>2. ASSUME NEW s \in Screens, Record(s)
      PROVE  Phone!Next
  BY <1>2, RecordRecords
<1>3. ASSUME NEW s \in Screens, Show(s)
      PROVE  Phone!Next
  BY <1>3, ShowAnswers
<1>4. ASSUME NEW s \in Screens, InsertConnection(s)
      PROVE  UNCHANGED Phone!vars
  BY <1>4, InsertQuiet
<1> QED
  BY <1>1, <1>2, <1>3, <1>4, QuietSteps DEF Next, Worker, SendData

\* However often the process is killed and however many screens send, the history the
\* phone keeps is one MessageLog allows: a send is recorded once, before its user is
\* told, under its own server and with what the user is told.
THEOREM PhoneRefinement == Spec => ImplementsMessageLog
BY PhoneInit, PhoneStep, Invariance, PTL DEF Spec, ImplementsMessageLog, Phone!Spec
================================================================================
