------------------------ MODULE RequestHandlersProofs --------------------------
(***************************************************************************)
(* Theorems of RequestHandlers, for any number of requests, peers and      *)
(* worker threads, any set of calls and any faults.                        *)
(***************************************************************************)
EXTENDS RequestHandlers, TLAPS

--------------------------------------------------------------------------------
(***************************************************************************)
(* Data.                                                                   *)
(***************************************************************************)

\* What a call carries, whichever handler it is for.
LEMMA CallFields ==
    ASSUME NEW c \in Calls
    PROVE  /\ c # NoCall
           /\ c.peer \in Peers
           /\ c.handler \in {"send", "upload"}
BY HandlersAssumption DEF CallSpace

\* Every answer the handlers build is one of Responses.
LEMMA BuiltResponses ==
    /\ Response(200, "OK") \in Responses
    /\ Response(200, "File saved") \in Responses
    /\ Response(200, "File(s) received") \in Responses
    /\ Response(400, "Invalid Content-Length") \in Responses
    /\ Response(400, "Incomplete body") \in Responses
    /\ Response(400, "JSON parse error") \in Responses
    /\ Response(400, "Missing 'data'") \in Responses
    /\ Response(400, "Form parse error") \in Responses
    /\ Response(400, "No file part") \in Responses
    /\ Response(405, "POST required") \in Responses
    /\ Response(500, "Memory error") \in Responses
    /\ Response(500, "Cannot save file") \in Responses
    /\ Response(500, "Data base error") \in Responses
    /\ Response(200, "damaged") \in Responses
    /\ Response(400, "damaged") \in Responses
    /\ Response(405, "damaged") \in Responses
    /\ Response(500, "damaged") \in Responses
BY DEF Response, Responses

\* The texts of the early returns.
LEMMA RefusalTexts ==
    \A b \in RefusedBodies \cup RefusedForms : Response(400, Refusal(b)) \in Responses
<1> SUFFICES ASSUME NEW b \in RefusedBodies \cup RefusedForms
             PROVE  Response(400, Refusal(b)) \in Responses
  OBVIOUS
<1>1. b \in {"badLength", "incomplete", "badJson", "noData", "badForm", "noFile"}
  BY DEF RefusedBodies, RefusedForms
<1>2. CASE b = "badLength"
  BY <1>2 DEF Refusal, Response, Responses
<1>3. CASE b = "incomplete"
  BY <1>3 DEF Refusal, Response, Responses
<1>4. CASE b = "badJson"
  BY <1>4 DEF Refusal, Response, Responses
<1>5. CASE b = "noData"
  BY <1>5 DEF Refusal, Response, Responses
<1>6. CASE b = "badForm"
  BY <1>6 DEF Refusal, Response, Responses
<1>7. CASE b = "noFile"
  BY <1>7 DEF Refusal, Response, Responses
<1> QED
  BY <1>1, <1>2, <1>3, <1>4, <1>5, <1>6, <1>7

\* Whatever memory does to a response, it stays one of Responses, with its status.
LEMMA JsonType ==
    ASSUME NEW a \in Responses, NEW json \in Json(a)
    PROVE  json \in Responses /\ json.status = a.status
<1>1. CASE json = a
  BY <1>1
<1>2. CASE json = Response(a.status, "damaged")
  <2>1. a.status \in {200, 400, 405, 500}
    BY DEF Responses
  <2>2. json.status = a.status
    BY <1>2 DEF Response
  <2>3. json \in Responses
    <3>1. CASE a.status = 200
      BY <1>2, <3>1, BuiltResponses
    <3>2. CASE a.status = 400
      BY <1>2, <3>2, BuiltResponses
    <3>3. CASE a.status = 405
      BY <1>2, <3>3, BuiltResponses
    <3>4. CASE a.status = 500
      BY <1>2, <3>4, BuiltResponses
    <3> QED
      BY <2>1, <3>1, <3>2, <3>3, <3>4
  <2> QED
    BY <2>2, <2>3
<1> QED
  BY <1>1, <1>2 DEF Json

\* What http_send_error sends.
LEMMA ErrorAnswer ==
    ASSUME NEW r \in Requests, NEW status, NEW data, Response(status, data) \in Responses,
           SendError(r, status, data)
    PROVE  \E a \in Responses : Send(r, a) /\ a.status = status
<1>1. PICK json \in Json(Response(status, data)) : Send(r, json)
  BY DEF SendError
<1>2. json \in Responses /\ json.status = Response(status, data).status
  BY JsonType
<1>3. Response(status, data).status = status
  BY DEF Response
<1> QED
  BY <1>1, <1>2, <1>3

\* What an early return of /api/send answers.
LEMMA EarlyAnswer ==
    ASSUME NEW r \in Requests, RejectBody(r)
    PROVE  \E a \in Responses : Send(r, a)
<1>1. CASE call[r].body \in RefusedBodies /\ SendError(r, 400, Refusal(call[r].body))
  <2>1. Response(400, Refusal(call[r].body)) \in Responses
    BY <1>1, RefusalTexts
  <2> QED
    BY <1>1, <2>1, ErrorAnswer
<1>2. CASE SendError(r, 500, "Memory error")
  <2>1. Response(500, "Memory error") \in Responses
    BY BuiltResponses
  <2> QED
    BY <1>2, <2>1, ErrorAnswer
<1>3. CASE SendError(r, 400, "JSON parse error")
  <2>1. Response(400, "JSON parse error") \in Responses
    BY BuiltResponses
  <2> QED
    BY <1>3, <2>1, ErrorAnswer
<1> QED
  BY <1>1, <1>2, <1>3 DEF RejectBody

\* A refused form is answered 400.
LEMMA FormAnswer ==
    ASSUME NEW r \in Requests, RejectForm(r)
    PROVE  \E a \in Responses : Send(r, a) /\ a.status = 400
<1>1. Response(400, Refusal(call[r].body)) \in Responses
  BY RefusalTexts DEF RejectForm
<1> QED
  BY <1>1, ErrorAnswer DEF RejectForm

\* What is built, for the history and the wire.
LEMMA BuiltJson ==
    ASSUME NEW r \in Requests, NEW a \in Responses, BuildResponse(r, a)
    PROVE  \E json \in Responses :
              json.status = a.status /\ built' = [built EXCEPT ![r] = json]
BY JsonType DEF BuildResponse

LEMMA ReceivedJson ==
    ASSUME NEW r \in Requests,
           \E json \in Json(Response(200, "File(s) received")) :
              built' = [built EXCEPT ![r] = json]
    PROVE  \E json \in Responses :
              json.status = 200 /\ built' = [built EXCEPT ![r] = json]
<1>1. Response(200, "File(s) received") \in Responses
  BY BuiltResponses
<1>2. Response(200, "File(s) received").status = 200
  BY DEF Response
<1>3. PICK json \in Json(Response(200, "File(s) received")) :
        built' = [built EXCEPT ![r] = json]
  OBVIOUS
<1>4. json \in Responses /\ json.status = Response(200, "File(s) received").status
  BY <1>1, JsonType
<1> QED
  BY <1>2, <1>3, <1>4

\* What a text that was logged or saved is answered.
LEMMA TextAnswer ==
    ASSUME NEW r \in Requests, LogText(r) \/ SaveText(r)
    PROVE  \E a \in Responses : BuildResponse(r, a)
<1>1. /\ Response(200, "OK") \in Responses
      /\ Response(200, "File saved") \in Responses
      /\ Response(500, "Cannot save file") \in Responses
  BY BuiltResponses
<1>2. \/ BuildResponse(r, Response(200, "OK"))
      \/ BuildResponse(r, Response(200, "File saved"))
      \/ BuildResponse(r, Response(500, "Cannot save file"))
  BY DEF LogText, SaveText
<1> QED
  BY <1>1, <1>2

--------------------------------------------------------------------------------
(***************************************************************************)
(* Type correctness.                                                       *)
(***************************************************************************)

\* Answering, and what save_connection's return leaves, is well typed.
LEMMA SendType ==
    ASSUME TypeOK, NEW r \in Requests, NEW a \in Responses \cup {NoReply}, Send(r, a)
    PROVE  /\ pc' \in [Requests -> Working \cup {"waiting", "done"}]
           /\ reply' \in [Requests -> Responses \cup {NoReply}]
BY DEF TypeOK, Send, Goto

LEMMA SaveConnectionReturnsType ==
    ASSUME TypeOK, NEW r \in Requests, NEW id \in (Nat \ {0}) \cup {NoId},
           SaveConnectionReturns(r, id)
    PROVE  /\ pc' \in [Requests -> Working \cup {"waiting", "done"}]
           /\ connectionId' \in [Requests -> (Nat \ {0}) \cup {NoId}]
           /\ built' \in [Requests -> Responses \cup {NoReply}]
           /\ reply' \in [Requests -> Responses \cup {NoReply}]
           /\ UNCHANGED <<call, stored>>
<1>1. connectionId' \in [Requests -> (Nat \ {0}) \cup {NoId}]
  BY DEF TypeOK, SaveConnectionReturns
<1>2. CASE /\ call[r].handler = "send"
           /\ Goto(r, "body")
           /\ UNCHANGED <<built, reply>>
  BY <1>1, <1>2 DEF TypeOK, SaveConnectionReturns, Goto, Working
<1>3. CASE SendError(r, 500, "Data base error") /\ UNCHANGED built
  <2>0. Response(500, "Data base error") \in Responses
    BY BuiltResponses
  <2>1. PICK a \in Responses : Send(r, a)
    BY <1>3, <2>0, ErrorAnswer
  <2>2. /\ pc' \in [Requests -> Working \cup {"waiting", "done"}]
        /\ reply' \in [Requests -> Responses \cup {NoReply}]
    BY <1>3, <2>1, SendType
  <2> QED
    BY <1>1, <1>3, <2>2 DEF TypeOK, SaveConnectionReturns
<1>4. CASE /\ \E json \in Json(Response(200, "File(s) received")) :
                 built' = [built EXCEPT ![r] = json]
           /\ Goto(r, "openForMessage")
           /\ UNCHANGED reply
  <2>1. PICK json \in Responses : built' = [built EXCEPT ![r] = json]
    BY <1>4, ReceivedJson
  <2> QED
    BY <1>1, <1>4, <2>1 DEF TypeOK, SaveConnectionReturns, Goto, Working
<1> QED
  BY <1>2, <1>3, <1>4 DEF SaveConnectionReturns

\* A row of table Message, and the request it records.
LEMMA RowType ==
    ASSUME TypeOK, NEW m \in DOMAIN message
    PROVE  message[m] \in Row /\ message[m].request \in Requests
<1>1. message[m] \in Row
  BY DEF TypeOK
<1> QED
  BY <1>1 DEF Row

\* A served request's peer is one of Peers.
LEMMA CalledPeer ==
    ASSUME IInv, NEW r \in Requests, pc[r] # "waiting"
    PROVE  call[r] \in Calls /\ call[r].peer \in Peers
BY CallFields DEF IInv, TypeOK, CalledWhenServed

\* Every step is well typed.  The invariant is needed where types alone say too
\* little: the rowid that is read is a row's, the peer inserted is a peer.
LEMMA TypeStep == IInv /\ [Next]_vars => TypeOK'
<1> SUFFICES ASSUME IInv, [Next]_vars PROVE TypeOK'
  OBVIOUS
<1> TypeOK
  BY DEF IInv
<1>1. CASE UNCHANGED vars
  BY <1>1 DEF vars, db, TypeOK
<1>2. CASE \E r \in Requests : Accept(r) \/ Handle(r)
  <2>1. PICK r \in Requests : Accept(r) \/ Handle(r)
    BY <1>2
  <2>2. CASE Accept(r)
    BY <2>2 DEF Accept, TypeOK, Goto, Working, db
  <2>3. CASE CheckMethod(r)
    <3>1. CASE SendError(r, 405, "POST required")
      <4>1. PICK a \in Responses : Send(r, a)
        BY <3>1, BuiltResponses, ErrorAnswer
      <4> QED
        BY <2>3, <3>1, <4>1, SendType DEF CheckMethod, TypeOK, db
    <3>2. CASE /\ Goto(r, IF call[r].handler = "send" THEN "openForConnection" ELSE "form")
               /\ UNCHANGED reply
      BY <2>3, <3>2 DEF CheckMethod, Goto, TypeOK, db, Working
    <3> QED
      BY <2>3, <3>1, <3>2 DEF CheckMethod
  <2>4. CASE BeginWrite(r)
    BY <2>4 DEF BeginWrite, TypeOK, db
  <2>5. CASE OpenForConnection(r)
    BY <2>5 DEF OpenForConnection, Commit, Goto, TypeOK, db, Working
  <2>6. CASE FindConnection(r)
    <3>1. ASSUME NEW i \in RowsOf(call[r].peer), SaveConnectionReturns(r, i)
          PROVE  TypeOK'
      <4>1. i \in Nat \ {0}
        BY DEF RowsOf, TypeOK
      <4> QED
        BY <2>6, <3>1, <4>1, SaveConnectionReturnsType DEF FindConnection, TypeOK, db
    <3>2. CASE /\ Goto(r, "insertConnection")
               /\ UNCHANGED <<call, connectionId, built, stored, reply>>
      BY <2>6, <3>2 DEF FindConnection, Goto, TypeOK, db, Working
    <3> QED
      BY <2>6, <3>1, <3>2 DEF FindConnection
  <2>7. CASE InsertConnection(r)
    <3>1. CASE RowsOf(call[r].peer) = {}
      <4>1. call[r].peer \in Peers
        BY <2>7, CalledPeer DEF InsertConnection
      <4>2. /\ connection' = Append(connection, call[r].peer)
            /\ lastRowid' = [lastRowid EXCEPT ![r] = Len(connection) + 1]
            /\ Goto(r, "rowid")
            /\ UNCHANGED <<call, connectionId, built, stored, reply, message>>
            /\ writer' = NoRequest
        BY <2>7, <3>1 DEF InsertConnection, Commit
      <4>3. connection' \in Seq(Peers) /\ Len(connection) \in Nat
        BY <4>1, <4>2 DEF TypeOK
      <4> QED
        BY <4>2, <4>3 DEF Goto, TypeOK, Working
    <3>2. CASE RowsOf(call[r].peer) # {}
      BY <2>7, <3>2, SaveConnectionReturnsType DEF InsertConnection, Commit, TypeOK
    <3> QED
      BY <3>1, <3>2
  <2>8. CASE ReturnRowid(r)
    <3>1. lastRowid[r] \in Nat \ {0}
      BY <2>8 DEF ReturnRowid, IInv, RowidIsOwn, RowsOf, TypeOK
    <3> QED
      BY <2>8, <3>1, SaveConnectionReturnsType DEF ReturnRowid, TypeOK, db
  <2>9. CASE SaveConnectionFails(r)
    BY <2>9, SaveConnectionReturnsType DEF SaveConnectionFails, StatementFails, TypeOK, db
  <2>10. CASE RejectBody(r)
    <3>1. PICK a \in Responses : Send(r, a)
      BY <2>10, EarlyAnswer
    <3> QED
      BY <2>10, <3>1, SendType DEF RejectBody, TypeOK, db
  <2>11. CASE LogText(r) \/ SaveText(r)
    <3>1. PICK a \in Responses : BuildResponse(r, a)
      BY <2>11, TextAnswer
    <3>2. stored' \in [Requests -> BOOLEAN]
      BY <2>11 DEF LogText, SaveText, TypeOK
    <3>3. built' \in [Requests -> Responses \cup {NoReply}]
      BY <3>1, BuiltJson DEF TypeOK
    <3> QED
      BY <3>1, <3>2, <3>3 DEF BuildResponse, Goto, TypeOK, db, Working
  <2>12. CASE RejectForm(r)
    <3>1. PICK a \in Responses : Send(r, a)
      BY <2>12, FormAnswer
    <3>2. stored' \in [Requests -> BOOLEAN]
      BY <2>12 DEF RejectForm, TypeOK
    <3> QED
      BY <2>12, <3>1, <3>2, SendType DEF RejectForm, TypeOK, db
  <2>13. CASE StoreFile(r)
    BY <2>13 DEF StoreFile, Goto, TypeOK, db, Working
  <2>14. CASE OpenForMessage(r)
    BY <2>14 DEF OpenForMessage, Commit, Goto, TypeOK, db, Working
  <2>15. CASE InsertMessage(r)
    <3>1. RowFor(r) \in Row
      BY <2>15 DEF InsertMessage, RowFor, Row, IInv, ReadyToRecord, TypeOK
    <3>2. message' \in Seq(Row)
      BY <2>15, <3>1 DEF InsertMessage, TypeOK
    <3> QED
      BY <2>15, <3>2 DEF InsertMessage, Commit, Goto, TypeOK, Working
  <2>16. CASE SaveMessageFails(r)
    BY <2>16 DEF SaveMessageFails, StatementFails, Goto, TypeOK, db, Working
  <2>17. CASE SendReply(r)
    BY <2>17, SendType DEF SendReply, TypeOK, db
  <2> QED
    BY <2>1, <2>2, <2>3, <2>4, <2>5, <2>6, <2>7, <2>8, <2>9, <2>10, <2>11, <2>12,
       <2>13, <2>14, <2>15, <2>16, <2>17 DEF Handle
<1> QED
  BY <1>1, <1>2 DEF Next, Idle

--------------------------------------------------------------------------------
(***************************************************************************)
(* The inductive invariant.  All steps but three (a request is accepted, a *)
(* Connection or a Message row is inserted) change variables of their own  *)
(* handler only: OwnStep says what such a step must keep to.               *)
(***************************************************************************)
Others(r) ==
    \A q \in Requests \ {r} :
        /\ pc'[q] = pc[q]
        /\ lastRowid'[q] = lastRowid[q]
        /\ connectionId'[q] = connectionId[q]
        /\ built'[q] = built[q]
        /\ reply'[q] = reply[q]

\* r's handler moves, and is ready for what it moves to.
Moves(r) ==
    /\ pc[r] \notin {"waiting", "done"}
    /\ pc'[r] \notin {"waiting", "rowid"}
    /\ connectionId'[r] \in {connectionId[r], NoId} \cup RowsOf(call[r].peer)
    /\ pc'[r] \in {"openForMessage", "insertMessage"} => connectionId'[r] # NoId
    /\ pc'[r] \in {"openForMessage", "insertMessage", "reply"} => built'[r] # NoReply
    /\ built'[r] # NoReply =>
            pc'[r] \in {"openForMessage", "insertMessage", "reply", "done"}
    /\ reply'[r] # NoReply =>
            /\ pc'[r] = "done"
            /\ built'[r] # NoReply => reply'[r] = built'[r]
    /\ pc[r] = "reply" =>
            /\ pc'[r] \in {"reply", "done"}
            /\ connectionId'[r] = connectionId[r]
            /\ built'[r] = built[r]

OwnStep(r) ==
    /\ UNCHANGED <<call, db>>
    /\ Others(r)
    /\ Moves(r)

\* A step of one handler's own variables keeps the invariant.
LEMMA OwnStepInvariant ==
    ASSUME IInv, TypeOK', NEW r \in Requests, OwnStep(r)
    PROVE  IInv'
<1> USE DEF OwnStep, db
<1>1. CalledWhenServed'
  BY DEF IInv, CalledWhenServed, Others, Moves, TypeOK
<1>2. UniquePeer'
  BY DEF IInv, UniquePeer
<1>3. RowidIsOwn'
  BY DEF IInv, RowidIsOwn, RowsOf, Others, Moves
<1>4. IdIsOwn'
  BY DEF IInv, IdIsOwn, RowsOf, Others, Moves
<1>5. ReadyToRecord'
  BY DEF IInv, ReadyToRecord, Others, Moves
<1>6. RowsAreFinal'
  <2> SUFFICES ASSUME NEW m \in DOMAIN message
               PROVE  LET q == message[m].request
                      IN  /\ pc'[q] \in {"reply", "done"}
                          /\ connectionId'[q] # NoId
                          /\ built'[q] # NoReply
                          /\ message[m] = RowFor(q)'
    BY DEF RowsAreFinal
  <2> DEFINE q == message[m].request
  <2>1. q \in Requests
    BY RowType DEF IInv, Row
  <2>2. /\ pc[q] \in {"reply", "done"}
        /\ connectionId[q] # NoId
        /\ built[q] # NoReply
        /\ message[m] = RowFor(q)
    BY DEF IInv, RowsAreFinal
  <2>3. /\ pc'[q] \in {"reply", "done"}
        /\ connectionId'[q] = connectionId[q]
        /\ built'[q] = built[q]
    BY <2>1, <2>2 DEF Others, Moves
  <2> QED
    BY <2>2, <2>3 DEF RowFor
<1>7. OneRowPerRequest'
  BY DEF IInv, OneRowPerRequest
<1>8. AnswerIsLast'
  BY DEF IInv, AnswerIsLast, Others, Moves
<1> QED
  BY <1>1, <1>2, <1>3, <1>4, <1>5, <1>6, <1>7, <1>8 DEF IInv

\* What save_connection's return is to the handler.
LEMMA SaveConnectionReturnsOwn ==
    ASSUME IInv, NEW r \in Requests, NEW id, id = NoId \/ id \in RowsOf(call[r].peer),
           pc[r] \in {"openForConnection", "find", "insertConnection", "rowid"},
           UNCHANGED <<db, lastRowid>>, SaveConnectionReturns(r, id)
    PROVE  OwnStep(r)
<1>1. built[r] = NoReply /\ reply[r] = NoReply /\ pc[r] \in Working
  BY DEF IInv, ReadyToRecord, AnswerIsLast, Working
<1>2. Others(r) /\ UNCHANGED <<call, db>>
  <2>0. PICK label : Goto(r, label)
    BY DEF SaveConnectionReturns, SendError, Send
  <2>1. \A q \in Requests \ {r} : pc'[q] = pc[q] /\ connectionId'[q] = connectionId[q]
    BY <2>0 DEF SaveConnectionReturns, Goto, IInv, TypeOK
  <2>2. \A q \in Requests \ {r} : built'[q] = built[q] /\ reply'[q] = reply[q]
    BY DEF SaveConnectionReturns, SendError, Send, IInv, TypeOK
  <2> QED
    BY <2>1, <2>2 DEF SaveConnectionReturns, Others
<1>3. connectionId'[r] = id
  BY DEF SaveConnectionReturns, IInv, TypeOK
<1>4. CASE /\ Goto(r, "body")
           /\ UNCHANGED <<built, reply>>
  BY <1>1, <1>2, <1>3, <1>4 DEF Goto, OwnStep, Moves, IInv, TypeOK
<1>5. CASE /\ SendError(r, 500, "Data base error")
           /\ UNCHANGED built
  BY <1>1, <1>2, <1>3, <1>5 DEF SendError, Send, Goto, OwnStep, Moves, IInv, TypeOK
<1>6. CASE /\ id # NoId
           /\ \E json \in Json(Response(200, "File(s) received")) :
                 built' = [built EXCEPT ![r] = json]
           /\ Goto(r, "openForMessage")
           /\ UNCHANGED reply
  <2>1. PICK json \in Responses : built' = [built EXCEPT ![r] = json]
    BY <1>6, ReceivedJson
  <2>2. built'[r] = json
    BY <2>1 DEF IInv, TypeOK
  <2>3. built'[r] # NoReply
    BY <2>1, <2>2, HandlersAssumption
  <2> QED
    BY <1>1, <1>2, <1>3, <1>6, <2>3 DEF Goto, OwnStep, Moves, IInv, TypeOK
<1> QED
  BY <1>4, <1>5, <1>6 DEF SaveConnectionReturns

\* An early answer ends a request that has nothing built.
LEMMA RefusalOwn ==
    ASSUME IInv, NEW r \in Requests, NEW a, pc[r] \in {"method", "form", "body"},
           UNCHANGED <<call, db, lastRowid, connectionId, built>>, Send(r, a)
    PROVE  OwnStep(r)
<1>1. built[r] = NoReply
  BY DEF IInv, ReadyToRecord
<1> QED
  BY <1>1 DEF Send, Goto, OwnStep, Others, Moves, IInv, TypeOK

\* The handler goes on with nothing but its program counter (and what the
\* invariant does not speak of).
LEMMA GotoOwn ==
    ASSUME IInv, NEW r \in Requests, NEW label, pc[r] \notin {"waiting", "done", "reply"},
           UNCHANGED <<call, db, connectionId, built, reply>>, Goto(r, label),
           \A q \in Requests \ {r} : lastRowid'[q] = lastRowid[q],
           \/ /\ label \in {"form", "openForConnection", "find", "insertConnection"}
              /\ pc[r] \in {"method", "form", "openForConnection", "find"}
           \/ /\ label \in {"insertMessage", "reply"}
              /\ pc[r] \in {"openForMessage", "insertMessage"}
    PROVE  OwnStep(r)
<1>1. pc'[r] = label /\ \A q \in Requests \ {r} : pc'[q] = pc[q]
  BY DEF Goto, IInv, TypeOK
<1>2. reply[r] = NoReply
  BY DEF IInv, AnswerIsLast
<1>3. CASE label \in {"form", "openForConnection", "find", "insertConnection"}
  <2>1. built[r] = NoReply
    BY <1>3 DEF IInv, ReadyToRecord
  <2> QED
    BY <1>1, <1>2, <1>3, <2>1 DEF OwnStep, Others, Moves
<1>4. CASE label \in {"insertMessage", "reply"}
  <2>1. built[r] # NoReply /\ connectionId[r] # NoId
    BY <1>4 DEF IInv, ReadyToRecord
  <2> QED
    BY <1>1, <1>2, <1>4, <2>1 DEF OwnStep, Others, Moves
<1> QED
  BY <1>3, <1>4

\* A response is built from the body.
LEMMA BuildOwn ==
    ASSUME IInv, NEW r \in Requests, NEW a \in Responses, pc[r] = "body",
           BuildResponse(r, a)
    PROVE  OwnStep(r)
<1>1. built'[r] # NoReply /\ \A q \in Requests \ {r} : built'[q] = built[q]
  BY BuiltJson, HandlersAssumption DEF IInv, TypeOK
<1>2. reply[r] = NoReply
  BY DEF IInv, AnswerIsLast
<1>3. pc'[r] = (IF connectionId[r] # NoId THEN "openForMessage" ELSE "reply")
        /\ \A q \in Requests \ {r} : pc'[q] = pc[q]
  BY DEF BuildResponse, Goto, IInv, TypeOK
<1> QED
  BY <1>1, <1>2, <1>3 DEF BuildResponse, OwnStep, Others, Moves

\* Every handler step but the two INSERTs is of this kind.  BeginWrite leaves all
\* these variables alone and is treated with the stuttering steps.
LEMMA HandlerOwn ==
    ASSUME IInv, NEW r \in Requests,
           \/ CheckMethod(r) \/ OpenForConnection(r) \/ FindConnection(r)
           \/ ReturnRowid(r) \/ SaveConnectionFails(r) \/ RejectBody(r) \/ LogText(r)
           \/ SaveText(r) \/ RejectForm(r) \/ StoreFile(r) \/ OpenForMessage(r)
           \/ SaveMessageFails(r) \/ SendReply(r)
           \/ InsertConnection(r) /\ RowsOf(call[r].peer) # {}
    PROVE  OwnStep(r)
<1>1. CASE CheckMethod(r)
  <2>1. CASE SendError(r, 405, "POST required")
    <3>1. /\ pc[r] = "method"
          /\ UNCHANGED <<call, db, lastRowid, connectionId, built>>
      BY <1>1 DEF CheckMethod
    <3>2. PICK a : Send(r, a)
      BY <2>1 DEF SendError
    <3> QED
      BY <3>1, <3>2, RefusalOwn
  <2>2. CASE /\ Goto(r, IF call[r].handler = "send" THEN "openForConnection" ELSE "form")
             /\ UNCHANGED reply
    BY <1>1, <2>2, GotoOwn DEF CheckMethod
  <2> QED
    BY <1>1, <2>1, <2>2 DEF CheckMethod
<1>2. CASE OpenForConnection(r)
  <2>1. \A q \in Requests \ {r} : lastRowid'[q] = lastRowid[q]
    BY <1>2 DEF OpenForConnection, IInv, TypeOK
  <2> QED
    BY <1>2, <2>1, GotoOwn DEF OpenForConnection
<1>3. CASE FindConnection(r)
  <2>1. ASSUME NEW i \in RowsOf(call[r].peer), SaveConnectionReturns(r, i)
        PROVE  OwnStep(r)
    BY <1>3, <2>1, SaveConnectionReturnsOwn DEF FindConnection
  <2>2. CASE /\ Goto(r, "insertConnection")
             /\ UNCHANGED <<call, connectionId, built, stored, reply>>
    BY <1>3, <2>2, GotoOwn DEF FindConnection
  <2> QED
    BY <1>3, <2>1, <2>2 DEF FindConnection
<1>4. CASE ReturnRowid(r)
  <2>1. lastRowid[r] \in RowsOf(call[r].peer)
    BY <1>4 DEF ReturnRowid, IInv, RowidIsOwn
  <2> QED
    BY <1>4, <2>1, SaveConnectionReturnsOwn DEF ReturnRowid
<1>5. CASE SaveConnectionFails(r)
  BY <1>5, SaveConnectionReturnsOwn DEF SaveConnectionFails, StatementFails
<1>6. CASE RejectBody(r)
  <2>1. PICK a : Send(r, a)
    BY <1>6, EarlyAnswer
  <2>2. pc[r] = "body" /\ UNCHANGED <<call, db, lastRowid, connectionId, built>>
    BY <1>6 DEF RejectBody
  <2> QED
    BY <2>1, <2>2, RefusalOwn
<1>7. CASE LogText(r) \/ SaveText(r)
  <2>1. PICK a \in Responses : BuildResponse(r, a)
    BY <1>7, TextAnswer
  <2>2. pc[r] = "body"
    BY <1>7 DEF LogText, SaveText
  <2> QED
    BY <2>1, <2>2, BuildOwn
<1>8. CASE RejectForm(r)
  <2>1. PICK a : Send(r, a)
    BY <1>8, FormAnswer
  <2>2. pc[r] = "form" /\ UNCHANGED <<call, db, lastRowid, connectionId, built>>
    BY <1>8 DEF RejectForm
  <2> QED
    BY <2>1, <2>2, RefusalOwn
<1>9. CASE StoreFile(r)
  BY <1>9, GotoOwn DEF StoreFile
<1>10. CASE OpenForMessage(r)
  <2>1. \A q \in Requests \ {r} : lastRowid'[q] = lastRowid[q]
    BY <1>10 DEF OpenForMessage, IInv, TypeOK
  <2> QED
    BY <1>10, <2>1, GotoOwn DEF OpenForMessage
<1>11. CASE SaveMessageFails(r)
  BY <1>11, GotoOwn DEF SaveMessageFails, StatementFails
<1>12. CASE SendReply(r)
  BY <1>12 DEF SendReply, Send, Goto, OwnStep, Others, Moves, IInv, TypeOK, ReadyToRecord
<1>13. CASE InsertConnection(r) /\ RowsOf(call[r].peer) # {}
  BY <1>13, SaveConnectionReturnsOwn DEF InsertConnection, db
<1> QED
  BY <1>1, <1>2, <1>3, <1>4, <1>5, <1>6, <1>7, <1>8, <1>9, <1>10, <1>11, <1>12, <1>13

\* A request is accepted: it has no row, no id and no answer yet.
LEMMA AcceptInvariant ==
    ASSUME IInv, TypeOK', NEW r \in Requests, Accept(r)
    PROVE  IInv'
<1> USE DEF Accept, Goto, db
<1>1. \A q \in Requests \ {r} : call'[q] = call[q] /\ pc'[q] = pc[q]
  BY DEF IInv, TypeOK
<1>2. pc'[r] = "method" /\ call'[r] \in Calls
  BY DEF IInv, TypeOK
<1>3. connectionId[r] = NoId
  BY DEF IInv, CalledWhenServed
<1>4. CalledWhenServed' /\ UniquePeer'
  BY <1>1, <1>2, CallFields DEF IInv, CalledWhenServed, UniquePeer
<1>5. RowidIsOwn' /\ IdIsOwn' /\ ReadyToRecord' /\ AnswerIsLast'
  BY <1>1, <1>2, <1>3 DEF IInv, RowidIsOwn, IdIsOwn, RowsOf, ReadyToRecord, AnswerIsLast
<1>6. RowsAreFinal' /\ OneRowPerRequest'
  BY <1>1, <1>2, RowType DEF IInv, RowsAreFinal, RowFor, OneRowPerRequest
<1> QED
  BY <1>4, <1>5, <1>6 DEF IInv

\* A Connection row is inserted for a peer that has none: ids handed out before stay
\* their peers', and the new rowid is the handle's own.
LEMMA InsertConnectionInvariant ==
    ASSUME IInv, TypeOK', NEW r \in Requests, InsertConnection(r),
           RowsOf(call[r].peer) = {}
    PROVE  IInv'
<1> DEFINE id == Len(connection) + 1
<1>1. /\ connection' = Append(connection, call[r].peer)
      /\ lastRowid' = [lastRowid EXCEPT ![r] = id]
      /\ Goto(r, "rowid")
      /\ pc[r] = "insertConnection"
      /\ UNCHANGED <<call, connectionId, built, reply, message>>
  BY DEF InsertConnection
<1>2. /\ \A q \in Requests \ {r} : pc'[q] = pc[q] /\ lastRowid'[q] = lastRowid[q]
      /\ pc'[r] = "rowid"
      /\ lastRowid'[r] = id
  BY <1>1 DEF Goto, IInv, TypeOK
<1>3. /\ Len(connection) \in Nat
      /\ DOMAIN connection = 1 .. Len(connection)
      /\ DOMAIN connection' = 1 .. id
      /\ \A i \in DOMAIN connection : connection'[i] = connection[i]
      /\ connection'[id] = call[r].peer
  BY <1>1, CalledPeer DEF IInv, TypeOK
<1>4. \A p : RowsOf(p) \subseteq RowsOf(p)'
  BY <1>3 DEF RowsOf
<1>5. CalledWhenServed' /\ ReadyToRecord' /\ AnswerIsLast'
  BY <1>1, <1>2 DEF IInv, CalledWhenServed, ReadyToRecord, AnswerIsLast
<1>6. UniquePeer'
  BY <1>3 DEF IInv, UniquePeer, RowsOf
<1>7. RowidIsOwn'
  <2>1. id \in RowsOf(call[r].peer)'
    BY <1>1, <1>3 DEF RowsOf
  <2> QED
    BY <1>1, <1>2, <1>4, <2>1 DEF IInv, RowidIsOwn, RowsOf
<1>8. IdIsOwn'
  BY <1>1, <1>3 DEF IInv, IdIsOwn, RowsOf
<1>9. RowsAreFinal' /\ OneRowPerRequest'
  BY <1>1, <1>2, RowType DEF IInv, RowsAreFinal, RowFor, OneRowPerRequest
<1> QED
  BY <1>5, <1>6, <1>7, <1>8, <1>9 DEF IInv

\* A Message row is inserted: it is the request's first, and its handler only
\* answers from here on.
LEMMA InsertMessageInvariant ==
    ASSUME IInv, TypeOK', NEW r \in Requests, InsertMessage(r)
    PROVE  /\ IInv'
           /\ message' = Append(message, RowFor(r))
           /\ \A m \in DOMAIN message : message[m].request # r
<1>1. /\ pc[r] = "insertMessage"
      /\ Goto(r, "reply")
      /\ UNCHANGED <<call, connection, lastRowid, connectionId, built, reply>>
  BY DEF InsertMessage
<1>2. connectionId[r] # NoId /\ built[r] # NoReply
  BY <1>1 DEF IInv, ReadyToRecord
<1>3. message' = Append(message, RowFor(r))
  BY <1>2 DEF InsertMessage, IInv, IdIsOwn, RowsOf
<1>4. /\ \A q \in Requests \ {r} : pc'[q] = pc[q]
      /\ pc'[r] = "reply"
  BY <1>1 DEF Goto, IInv, TypeOK
<1>5. \A m \in DOMAIN message : message[m].request # r
  BY <1>1 DEF IInv, RowsAreFinal
<1>6. /\ Len(message) \in Nat
      /\ DOMAIN message = 1 .. Len(message)
      /\ DOMAIN message' = 1 .. Len(message) + 1
      /\ \A m \in DOMAIN message : message'[m] = message[m]
      /\ message'[Len(message) + 1] = RowFor(r)
  BY <1>3 DEF IInv, TypeOK
<1>7. RowFor(r).request = r
  BY DEF RowFor
<1>8. CalledWhenServed' /\ UniquePeer' /\ RowidIsOwn' /\ IdIsOwn'
  BY <1>1, <1>4 DEF IInv, CalledWhenServed, UniquePeer, RowidIsOwn, IdIsOwn, RowsOf
<1>9. ReadyToRecord' /\ AnswerIsLast'
  BY <1>1, <1>2, <1>4 DEF IInv, ReadyToRecord, AnswerIsLast
<1>10. RowsAreFinal'
  <2> SUFFICES ASSUME NEW m \in DOMAIN message',
                      NEW q, q = message'[m].request
               PROVE  /\ pc'[q] \in {"reply", "done"}
                      /\ connectionId'[q] # NoId
                      /\ built'[q] # NoReply
                      /\ message'[m] = RowFor(q)
    BY <1>1 DEF RowsAreFinal, RowFor
  <2>1. CASE m = Len(message) + 1
    BY <1>1, <1>2, <1>4, <1>6, <1>7, <2>1
  <2>2. CASE m \in DOMAIN message
    <3>1. q = message[m].request /\ q \in Requests \ {r}
      BY <1>5, <1>6, <2>2, RowType DEF IInv
    <3> QED
      BY <1>1, <1>4, <1>6, <2>2, <3>1 DEF IInv, RowsAreFinal
  <2> QED
    BY <1>6, <2>1, <2>2
<1>11. OneRowPerRequest'
  BY <1>5, <1>6, <1>7 DEF IInv, OneRowPerRequest
<1> QED
  BY <1>3, <1>5, <1>8, <1>9, <1>10, <1>11 DEF IInv

\* What a step of the system can be, as far as the tables are concerned.
LEMMA StepKinds ==
    ASSUME IInv, [Next]_vars
    PROVE  \/ UNCHANGED <<pc, call, db, lastRowid, connectionId, built, reply>>
           \/ \E r \in Requests :
                \/ Accept(r)
                \/ OwnStep(r)
                \/ InsertConnection(r) /\ RowsOf(call[r].peer) = {}
                \/ InsertMessage(r)
<1>1. CASE UNCHANGED vars
  BY <1>1 DEF vars, db
<1>2. CASE \E r \in Requests : Accept(r) \/ Handle(r)
  <2>1. PICK r \in Requests : Accept(r) \/ Handle(r)
    BY <1>2
  <2>2. CASE BeginWrite(r)
    BY <2>2 DEF BeginWrite
  <2> QED
    BY <2>1, <2>2, HandlerOwn DEF Handle
<1> QED
  BY <1>1, <1>2 DEF Next, Idle

LEMMA InitialInvariant == Init => IInv
<1> SUFFICES ASSUME Init PROVE IInv
  OBVIOUS
<1>1. TypeOK
  BY DEF Init, TypeOK, NoId
<1>2. UniquePeer /\ RowsAreFinal /\ OneRowPerRequest
  BY DEF Init, UniquePeer, RowsAreFinal, OneRowPerRequest
<1>3. CalledWhenServed /\ RowidIsOwn /\ IdIsOwn /\ ReadyToRecord /\ AnswerIsLast
  BY DEF Init, CalledWhenServed, RowidIsOwn, IdIsOwn, ReadyToRecord, AnswerIsLast
<1> QED
  BY <1>1, <1>2, <1>3 DEF IInv

LEMMA InductiveStep == IInv /\ [Next]_vars => IInv'
<1> SUFFICES ASSUME IInv, [Next]_vars PROVE IInv'
  OBVIOUS
<1>1. TypeOK'
  BY TypeStep
<1>2. CASE UNCHANGED <<pc, call, db, lastRowid, connectionId, built, reply>>
  BY <1>1, <1>2 DEF IInv, db, CalledWhenServed, UniquePeer, RowidIsOwn, IdIsOwn, RowsOf,
     ReadyToRecord, RowsAreFinal, RowFor, OneRowPerRequest, AnswerIsLast
<1>3. ASSUME NEW r \in Requests,
             \/ Accept(r)
             \/ OwnStep(r)
             \/ InsertConnection(r) /\ RowsOf(call[r].peer) = {}
             \/ InsertMessage(r)
      PROVE  IInv'
  BY <1>1, <1>3, AcceptInvariant, OwnStepInvariant, InsertConnectionInvariant,
     InsertMessageInvariant
<1> QED
  BY <1>2, <1>3, StepKinds

\* The handlers keep the inductive invariant.
THEOREM Invariance == Spec => []IInv
  BY InitialInvariant, InductiveStep, PTL DEF Spec

--------------------------------------------------------------------------------
(***************************************************************************)
(* The properties.                                                         *)
(***************************************************************************)

\* Every variable of the handlers and their database keeps its type.
THEOREM TypeInvariant == Spec => []TypeOK
<1>1. IInv => TypeOK
  BY DEF IInv
<1> QED
  BY <1>1, Invariance, PTL

\* connection_get_or_create never gives a peer a second row.
THEOREM UniquePeerInvariant == Spec => []UniquePeer
<1>1. IInv => UniquePeer
  BY DEF IInv
<1> QED
  BY <1>1, Invariance, PTL

\* A Message row hangs under the peer that sent the request.
THEOREM RowsAttributedInvariant == Spec => []RowsAttributed
<1>1. IInv => RowsAttributed
  BY RowType DEF IInv, RowsAttributed, RowsAreFinal, RowFor, IdIsOwn, RowsOf
<1> QED
  BY <1>1, Invariance, PTL

\* The history and the wire agree.
THEOREM RowMatchesReplyInvariant == Spec => []RowMatchesReply
<1>1. ASSUME IInv PROVE RowMatchesReply
  <2> SUFFICES ASSUME NEW m \in DOMAIN message, NEW r, r = message[m].request
               PROVE  /\ reply[r] # NoReply => reply[r] = message[m].response
                      /\ (message[m].messageStatusId = "SUCCESS")
                           <=> (message[m].response.status = 200)
    BY DEF RowMatchesReply
  <2>1. r \in Requests /\ built[r] # NoReply /\ message[m] = RowFor(r)
    BY <1>1, RowType DEF IInv, RowsAreFinal
  <2> QED
    BY <1>1, <2>1 DEF RowFor, IInv, AnswerIsLast
<1> QED
  BY <1>1, Invariance, PTL

\* A request is recorded at most once.
THEOREM OneRowPerRequestInvariant == Spec => []OneRowPerRequest
<1>1. IInv => OneRowPerRequest
  BY DEF IInv
<1> QED
  BY <1>1, Invariance, PTL

\* A row is inserted before its client is answered, never after.
THEOREM PersistedBeforeReply == Spec => PersistBeforeReply
<1> DEFINE Before == \A m \in DOMAIN message' \ DOMAIN message :
                        reply[message'[m].request] = NoReply
<1>1. ASSUME IInv, [Next]_vars PROVE Before
  <2>1. CASE UNCHANGED message
    BY <2>1
  <2>2. ASSUME NEW r \in Requests, InsertMessage(r) PROVE Before
    <3>1. message' = Append(message, RowFor(r)) /\ reply[r] = NoReply
      BY <1>1, <2>2, TypeStep, InsertMessageInvariant
         DEF InsertMessage, IInv, AnswerIsLast
    <3>2. \A m \in DOMAIN message' \ DOMAIN message : message'[m] = RowFor(r)
      BY <1>1, <3>1 DEF IInv, TypeOK
    <3> QED
      BY <3>1, <3>2 DEF RowFor
  <2> QED
    BY <1>1, <2>1, <2>2, StepKinds DEF Accept, OwnStep, InsertConnection, db
<1>2. IInv /\ [Next]_vars => [Before]_vars
  BY <1>1
<1> QED
  BY <1>2, Invariance, PTL DEF Spec, PersistBeforeReply

--------------------------------------------------------------------------------
(***************************************************************************)
(* The handlers implement MessageLog.                                      *)
(***************************************************************************)
Sender == [r \in Requests |-> IF call[r] = NoCall THEN NoCall ELSE call[r].peer]

\* The abstract view moves only with calls, rows, their connections and answers.
LEMMA ViewUnchanged ==
    ASSUME UNCHANGED <<call, db, reply>>
    PROVE  UNCHANGED Log!vars
BY DEF Log!vars, History, db

\* The history is a sequence of as many entries as there are rows.
LEMMA HistoryFields ==
    ASSUME IInv
    PROVE  /\ DOMAIN History = DOMAIN message
           /\ \A m \in DOMAIN message :
                /\ History[m].request = message[m].request
                /\ History[m].response = message[m].response
                /\ History[m].peer = connection[message[m].connectionId]
BY DEF History

\* A recorded row's entry does not change when connections or other rows are added.
LEMMA HistoryStable ==
    ASSUME IInv, call' = call, message' = message, NEW p, connection' = Append(connection, p)
    PROVE  History' = History
<1>1. \A m \in DOMAIN message : message[m].connectionId \in DOMAIN connection
  BY RowType DEF IInv, RowsAreFinal, RowFor, IdIsOwn, RowsOf
<1>2. \A i \in DOMAIN connection : connection'[i] = connection[i]
  BY DEF IInv, TypeOK
<1> QED
  BY <1>1, <1>2 DEF History

LEMMA LogInit == Init => Log!Init
BY DEF Init, Log!Init, History

LEMMA LogStep == IInv /\ [Next]_vars => [Log!Next]_(Log!vars)
<1> SUFFICES ASSUME IInv, [Next]_vars PROVE [Log!Next]_(Log!vars)
  OBVIOUS
<1>1. TypeOK'
  BY TypeStep
<1>2. CASE UNCHANGED <<pc, call, db, lastRowid, connectionId, built, reply>>
  BY <1>2, ViewUnchanged
<1>3. ASSUME NEW r \in Requests, Accept(r) PROVE Log!Next
  <2>1. /\ call[r] = NoCall
        /\ call'[r] \in Calls
        /\ call' = [call EXCEPT ![r] = call'[r]]
        /\ UNCHANGED <<connection, message, reply>>
    BY <1>3 DEF Accept, IInv, TypeOK, CalledWhenServed, db
  <2>2. Sender[r] = NoCall /\ Sender' = [Sender EXCEPT ![r] = call'[r].peer]
    BY <2>1, CallFields DEF Sender, IInv, TypeOK
  <2>3. PICK p \in Peers : p = call'[r].peer
    BY <2>1, CallFields
  <2>4. Log!Arrive(r, p)
    BY <2>1, <2>2, <2>3 DEF Log!Arrive, Sender, History
  <2> QED
    BY <2>4 DEF Log!Next
<1>4. ASSUME NEW r \in Requests, OwnStep(r) PROVE [Log!Next]_(Log!vars)
  <2>1. CASE reply' = reply
    BY <1>4, <2>1, ViewUnchanged DEF OwnStep
  <2>2. CASE reply' # reply
    <3>1. /\ reply' = [reply EXCEPT ![r] = reply'[r]]
          /\ pc[r] \notin {"waiting", "done"}
          /\ reply[r] = NoReply
      BY <1>1, <1>4, <2>2 DEF OwnStep, Others, Moves, IInv, TypeOK, AnswerIsLast
    <3>2. reply'[r] \in Responses
      BY <1>1, <2>2, <3>1 DEF TypeOK, IInv
    <3>3. ASSUME NEW m \in DOMAIN message, message[m].request = r
          PROVE  message[m].response = reply'[r]
      <4>1. pc[r] = "reply" /\ built[r] # NoReply /\ message[m] = RowFor(r)
        BY <3>1, <3>3 DEF IInv, RowsAreFinal
      <4> QED
        BY <1>4, <3>2, <4>1, HandlersAssumption DEF OwnStep, Moves, RowFor
    <3>4. Sender[r] # NoCall
      BY <3>1, CalledPeer, HandlersAssumption DEF Sender, IInv, CalledWhenServed, TypeOK
    <3>5. Log!Answer(r, reply'[r])
      BY <1>4, <3>1, <3>3, <3>4, HistoryFields
         DEF Log!Answer, Log!EntriesOf, Sender, OwnStep, db, History
    <3> QED
      BY <3>2, <3>5 DEF Log!Next
  <2> QED
    BY <2>1, <2>2
<1>5. ASSUME NEW r \in Requests, InsertConnection(r), RowsOf(call[r].peer) = {}
      PROVE  UNCHANGED Log!vars
  <2>1. /\ connection' = Append(connection, call[r].peer)
        /\ UNCHANGED <<call, message, reply>>
    BY <1>5 DEF InsertConnection
  <2>2. History' = History
    BY <2>1, HistoryStable
  <2> QED
    BY <2>1, <2>2 DEF Log!vars
<1>6. ASSUME NEW r \in Requests, InsertMessage(r) PROVE Log!Next
  <2>1. /\ message' = Append(message, RowFor(r))
        /\ \A m \in DOMAIN message : message[m].request # r
        /\ UNCHANGED <<call, connection, reply>>
        /\ pc[r] = "insertMessage"
    BY <1>1, <1>6, InsertMessageInvariant DEF InsertMessage
  <2>2. /\ call[r] # NoCall
        /\ Sender[r] = call[r].peer
        /\ Sender[r] # NoCall
    BY <2>1, CalledPeer, CallFields, HandlersAssumption DEF Sender
  <2>3. /\ built[r] \in Responses
        /\ reply[r] = NoReply
        /\ connection[connectionId[r]] = call[r].peer
    BY <2>1 DEF IInv, TypeOK, ReadyToRecord, AnswerIsLast, IdIsOwn, RowsOf
  <2>4. History' = Append(History, [request |-> r, peer |-> Sender[r], response |-> built[r]])
    <3>1. /\ Len(message) \in Nat
          /\ DOMAIN message = 1 .. Len(message)
          /\ DOMAIN message' = 1 .. Len(message) + 1
          /\ \A m \in DOMAIN message : message'[m] = message[m]
          /\ message'[Len(message) + 1] = RowFor(r)
      BY <2>1 DEF IInv, TypeOK
    <3>2. History' = [m \in 1 .. Len(message) + 1 |->
                        [request  |-> message'[m].request,
                         peer     |-> connection[message'[m].connectionId],
                         response |-> message'[m].response]]
      BY <2>1, <3>1 DEF History
    <3>3. Len(History) = Len(message)
      BY <3>1 DEF History
    <3> DEFINE e == [request |-> r, peer |-> Sender[r], response |-> built[r]]
    <3>4. Append(History, e) = [m \in 1 .. Len(message) + 1 |->
                                  IF m = Len(message) + 1 THEN e ELSE History[m]]
      BY <3>1, <3>3 DEF History
    <3>5. \A m \in 1 .. Len(message) + 1 :
            [request  |-> message'[m].request,
             peer     |-> connection[message'[m].connectionId],
             response |-> message'[m].response]
              = IF m = Len(message) + 1 THEN e ELSE History[m]
      BY <2>2, <2>3, <3>1 DEF History, RowFor
    <3> QED
      BY <3>2, <3>4, <3>5
  <2>5. Log!Record(r, built[r])
    BY <2>1, <2>2, <2>3, <2>4, HistoryFields
       DEF Log!Record, Log!EntriesOf, Sender
  <2> QED
    BY <2>3, <2>5 DEF Log!Next
<1> QED
  BY <1>2, <1>3, <1>4, <1>5, <1>6, StepKinds

\* Whatever the workers, the database and the file system do, the history the server
\* keeps is one MessageLog allows.
THEOREM Refinement == Spec => ImplementsMessageLog
  BY LogInit, LogStep, Invariance, PTL DEF Spec, ImplementsMessageLog, Log!Spec
================================================================================
