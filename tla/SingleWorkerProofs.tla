-------------------------- MODULE SingleWorkerProofs ---------------------------
(***************************************************************************)
(* What RequestHandlers keeps when CivetWeb has one worker and the         *)
(* database does not fail by itself, for any number of requests and peers  *)
(* and any calls.  With several workers SQLITE_BUSY breaks both properties *)
(* (run handlers_unrecorded).                                              *)
(***************************************************************************)
EXTENDS RequestHandlersProofs, FiniteSetTheorems

OneWorker == NumThreads = 1 /\ "database" \notin Faults

\* One request is served at a time, and only its handle writes.
ServedAlone ==
    /\ IsFiniteSet(Busy)
    /\ \A q, r \in Busy : q = r
    /\ writer # NoRequest => pc[writer] \in WritePoints

\* A peer that is about to be inserted still has no row: nobody else could insert it.
PeerIsNew(r) == pc[r] = "insertConnection" => RowsOf(call[r].peer) = {}

\* save_connection has returned a row's id.
IdIsKnown(r) == pc[r] = "body" => connectionId[r] # NoId

\* A response that was built is on its way to the history, or there.
BuiltIsRecorded(r) ==
    built[r] # NoReply /\ pc[r] \notin {"openForMessage", "insertMessage"} => Recorded(r)

\* A file is stored by an upload on its way to the database, or a 200 has been built, or
\* its form broke off behind it and the answer is a 400.
StoredForSuccess(r) ==
    /\ pc[r] = "form" => call[r].handler = "upload"
    /\ stored[r] =>
        \/ /\ call[r].handler = "upload"
           /\ pc[r] \in {"openForConnection", "find", "insertConnection", "rowid"}
        \/ built[r] # NoReply /\ built[r].status = 200
        \/ /\ pc[r] = "done"
           /\ built[r] = NoReply
           /\ reply[r] # NoReply /\ reply[r].status = 400

NothingLost(r) == PeerIsNew(r) /\ IdIsKnown(r) /\ BuiltIsRecorded(r) /\ StoredForSuccess(r)

SInv == ServedAlone /\ \A r \in Requests : NothingLost(r)

--------------------------------------------------------------------------------
\* The handler that moves is the only one at work, and its statements do not fail.
LEMMA Alone ==
    ASSUME IInv, ServedAlone, OneWorker, NEW r \in Requests, pc[r] \in Working
    PROVE  /\ \A q \in Requests \ {r} : pc[q] \in {"waiting", "done"}
           /\ writer \in {r, NoRequest}
           /\ ~ StatementFails(r)
<1>1. \A q \in Requests \ {r} : pc[q] \notin Working
  BY DEF ServedAlone, Busy
<1>2. \A q \in Requests \ {r} : pc[q] \in {"waiting", "done"}
  BY <1>1 DEF IInv, TypeOK
<1>3. writer \in {r, NoRequest}
  BY <1>1 DEF ServedAlone, IInv, TypeOK, WritePoints, Working
<1> QED
  BY <1>2, <1>3 DEF StatementFails, OneWorker

\* A step of r's handler is r's: the others keep what they have.
LEMMA OneMoves ==
    ASSUME IInv, NEW r \in Requests, Handle(r)
    PROVE  /\ pc[r] \in Working
           /\ call' = call
           /\ pc'[r] \in Working \cup {"done"}
           /\ \A q \in Requests \ {r} :
                /\ pc'[q] = pc[q]
                /\ connectionId'[q] = connectionId[q]
                /\ built'[q] = built[q]
                /\ stored'[q] = stored[q]
                /\ reply'[q] = reply[q]
<1> USE DEF Goto, Send, SendError, SaveConnectionReturns, BuildResponse, Working
<1>1. CASE CheckMethod(r)
  BY <1>1 DEF CheckMethod, IInv, TypeOK
<1>2. CASE BeginWrite(r)
  BY <1>2 DEF BeginWrite, WritePoints
<1>3. CASE OpenForConnection(r)
  BY <1>3 DEF OpenForConnection, IInv, TypeOK
<1>4. CASE FindConnection(r)
  BY <1>4 DEF FindConnection, IInv, TypeOK
<1>5. CASE InsertConnection(r)
  BY <1>5 DEF InsertConnection, IInv, TypeOK
<1>6. CASE ReturnRowid(r)
  BY <1>6 DEF ReturnRowid, IInv, TypeOK
<1>7. CASE SaveConnectionFails(r)
  BY <1>7 DEF SaveConnectionFails, IInv, TypeOK
<1>8. CASE RejectBody(r)
  BY <1>8 DEF RejectBody, IInv, TypeOK
<1>9. CASE LogText(r)
  BY <1>9 DEF LogText, IInv, TypeOK
<1>10. CASE SaveText(r)
  BY <1>10 DEF SaveText, IInv, TypeOK
<1>11. CASE RejectForm(r)
  BY <1>11 DEF RejectForm, IInv, TypeOK
<1>12. CASE StoreFile(r)
  BY <1>12 DEF StoreFile, IInv, TypeOK
<1>13. CASE OpenForMessage(r)
  BY <1>13 DEF OpenForMessage, IInv, TypeOK
<1>14. CASE InsertMessage(r)
  BY <1>14 DEF InsertMessage, IInv, TypeOK
<1>15. CASE SaveMessageFails(r)
  BY <1>15 DEF SaveMessageFails, IInv, TypeOK
<1>16. CASE SendReply(r)
  BY <1>16 DEF SendReply, IInv, TypeOK
<1> QED
  BY <1>1, <1>2, <1>3, <1>4, <1>5, <1>6, <1>7, <1>8, <1>9, <1>10, <1>11, <1>12, <1>13,
     <1>14, <1>15, <1>16 DEF Handle

\* What the step of r's handler does to the write lock.
LEMMA WriterAtWork ==
    ASSUME IInv, ServedAlone, OneWorker, NEW r \in Requests, Handle(r)
    PROVE  writer' # NoRequest => writer' = r /\ pc'[r] \in WritePoints
<1>1. writer \in {r, NoRequest} /\ ~ StatementFails(r)
  BY Alone, OneMoves
<1>2. CASE BeginWrite(r)
  BY <1>2 DEF BeginWrite
<1>3. CASE OpenForConnection(r) \/ InsertConnection(r) \/ OpenForMessage(r) \/ InsertMessage(r)
  BY <1>3 DEF OpenForConnection, InsertConnection, OpenForMessage, InsertMessage, Commit
<1>4. CASE UNCHANGED writer /\ pc[r] \notin WritePoints
  BY <1>1, <1>4 DEF ServedAlone
<1>5. ~ SaveConnectionFails(r) /\ ~ SaveMessageFails(r)
  BY <1>1 DEF SaveConnectionFails, SaveMessageFails
<1> QED
  BY <1>2, <1>3, <1>4, <1>5 DEF Handle, CheckMethod, FindConnection, ReturnRowid, RejectBody,
     LogText, SaveText, BuildResponse, RejectForm, StoreFile, SendReply, WritePoints

LEMMA ServedAloneStep ==
    ASSUME IInv, ServedAlone, OneWorker, NEW r \in Requests, Accept(r) \/ Handle(r)
    PROVE  ServedAlone'
<1>1. CASE Accept(r)
  <2>1. Busy = {}
    <3>1. Cardinality(Busy) \in Nat /\ Cardinality(Busy) < 1
      BY <1>1, FS_CardinalityType DEF Accept, OneWorker, ServedAlone
    <3>2. Cardinality(Busy) = 0
      BY <3>1
    <3> QED
      BY <3>2, FS_EmptySet DEF ServedAlone
  <2>2. Busy' \subseteq {r}
    BY <1>1, <2>1 DEF Accept, Busy, Goto, IInv, TypeOK
  <2>3. IsFiniteSet(Busy')
    BY <2>2, FS_Singleton, FS_Subset
  <2>4. writer = NoRequest
    BY <2>1 DEF ServedAlone, Busy, IInv, TypeOK, WritePoints, Working
  <2> QED
    BY <1>1, <2>2, <2>3, <2>4 DEF ServedAlone, Accept
<1>2. CASE Handle(r)
  <2>1. Busy' \subseteq Busy
    BY <1>2, OneMoves DEF Busy
  <2>2. IsFiniteSet(Busy')
    BY <2>1, FS_Subset DEF ServedAlone
  <2>3. writer' # NoRequest => pc'[writer'] \in WritePoints
    BY <1>2, WriterAtWork
  <2> QED
    BY <2>1, <2>2, <2>3 DEF ServedAlone
<1> QED
  BY <1>1, <1>2

--------------------------------------------------------------------------------
\* A row stays.
LEMMA RecordedStays ==
    ASSUME IInv, IInv', NEW q \in Requests, Recorded(q),
           \/ UNCHANGED message
           \/ \E row : message' = Append(message, row)
    PROVE  Recorded(q)'
<1>1. CASE UNCHANGED message
  BY <1>1 DEF Recorded
<1>2. ASSUME NEW row, message' = Append(message, row)
      PROVE  Recorded(q)'
  <2>1. message \in Seq(Row)
    BY DEF IInv, TypeOK
  <2>2. DOMAIN message \subseteq DOMAIN message'
        /\ \A m \in DOMAIN message : message'[m] = message[m]
    BY <1>2, <2>1
  <2> QED
    BY <2>2 DEF Recorded
<1> QED
  BY <1>1, <1>2

\* Handlers change table Message by appending to it.
LEMMA MessageGrows ==
    ASSUME NEW r \in Requests, Accept(r) \/ Handle(r)
    PROVE  UNCHANGED message \/ \E row : message' = Append(message, row)
BY DEF Accept, Handle, CheckMethod, BeginWrite, OpenForConnection, FindConnection,
   InsertConnection, ReturnRowid, SaveConnectionFails, RejectBody, LogText, SaveText,
   BuildResponse, RejectForm, StoreFile, OpenForMessage, InsertMessage, SaveMessageFails,
   SendReply, StatementFails, db

\* A request nobody works at keeps what it has.
LEMMA RestingKept ==
    ASSUME IInv, IInv', NEW r \in Requests, Accept(r) \/ Handle(r),
           NEW q \in Requests, pc[q] \in {"waiting", "done"}, NothingLost(q),
           pc'[q] = pc[q], call'[q] = call[q], built'[q] = built[q], stored'[q] = stored[q],
           reply'[q] = reply[q]
    PROVE  NothingLost(q)'
<1>1. Recorded(q) => Recorded(q)'
  BY RecordedStays, MessageGrows
<1> QED
  BY <1>1 DEF NothingLost, PeerIsNew, IdIsKnown, BuiltIsRecorded, StoredForSuccess

\* save_connection returns the id of a row.
LEMMA ReturnsId ==
    ASSUME IInv, IInv', NEW r \in Requests, NothingLost(r), ServedAlone,
           pc[r] \in {"find", "rowid"}, NEW id \in Nat \ {0}, SaveConnectionReturns(r, id)
    PROVE  NothingLost(r)'
<1>1. id # NoId
  BY DEF NoId
<1>2. built[r] = NoReply
  BY DEF IInv, ReadyToRecord
<1>3. CASE call[r].handler = "send"
  <2>1. ~ stored[r]
    BY <1>2, <1>3 DEF NothingLost, StoredForSuccess
  <2>2. pc'[r] = "body" /\ connectionId'[r] = id /\ built'[r] = NoReply /\ ~ stored'[r]
    BY <1>2, <1>3, <2>1 DEF SaveConnectionReturns, Goto, IInv, TypeOK
  <2> QED
    BY <1>1, <2>2 DEF NothingLost, PeerIsNew, IdIsKnown, BuiltIsRecorded, StoredForSuccess
<1>4. CASE call[r].handler = "upload"
  <2>1. PICK json \in Responses : json.status = 200 /\ built' = [built EXCEPT ![r] = json]
    BY <1>1, <1>4, ReceivedJson DEF SaveConnectionReturns
  <2>2. pc'[r] = "openForMessage" /\ built'[r] = json
    <3>1. Goto(r, "openForMessage")
      BY <1>1, <1>4 DEF SaveConnectionReturns
    <3> QED
      BY <2>1, <3>1 DEF Goto, IInv, TypeOK
  <2>3. built'[r] # NoReply /\ built'[r].status = 200
    BY <2>1, <2>2, HandlersAssumption
  <2> QED
    BY <2>2, <2>3 DEF NothingLost, PeerIsNew, IdIsKnown, BuiltIsRecorded,
       StoredForSuccess
<1> QED
  BY <1>3, <1>4 DEF SaveConnectionReturns

\* The response to a text is built under an id.
LEMMA BuildsResponse ==
    ASSUME IInv, NEW r \in Requests, NothingLost(r), pc[r] = "body",
           NEW a \in Responses, BuildResponse(r, a),
           stored'[r] => a.status = 200
    PROVE  NothingLost(r)'
<1>1. connectionId[r] # NoId
  BY DEF NothingLost, IdIsKnown
<1>2. PICK json \in Responses : json.status = a.status /\ built' = [built EXCEPT ![r] = json]
  BY BuiltJson
<1>3. pc'[r] = "openForMessage" /\ built'[r] = json
  BY <1>1, <1>2 DEF BuildResponse, Goto, IInv, TypeOK
<1>4. json # NoReply
  BY HandlersAssumption
<1> QED
  BY <1>2, <1>3, <1>4 DEF NothingLost, PeerIsNew, IdIsKnown, BuiltIsRecorded, StoredForSuccess

\* The handler that moves keeps its promises.
LEMMA HandledKept ==
    ASSUME IInv, IInv', ServedAlone, OneWorker, NEW r \in Requests, NothingLost(r), Handle(r)
    PROVE  NothingLost(r)'
<1> USE DEF NothingLost, PeerIsNew, IdIsKnown, BuiltIsRecorded, StoredForSuccess
<1>1. /\ pc[r] \in Working /\ call' = call
      /\ ~ StatementFails(r)
      /\ Recorded(r) => Recorded(r)'
      /\ call[r] \in Calls
  <2>1. pc[r] \in Working /\ call' = call /\ ~ StatementFails(r)
    BY OneMoves, Alone
  <2>2. Recorded(r) => Recorded(r)'
    BY RecordedStays, MessageGrows
  <2>3. call[r] \in Calls
    BY <2>1, CalledPeer DEF Working
  <2> QED
    BY <2>1, <2>2, <2>3
<1>2. CASE CheckMethod(r)
  <2>1. built[r] = NoReply /\ ~ stored[r]
    BY <1>2 DEF CheckMethod, IInv, ReadyToRecord
  <2>2. call[r].handler # "send" => call[r].handler = "upload"
    BY <1>1, CallFields
  <2>3. pc \in [Requests -> Working \cup {"waiting", "done"}]
    BY DEF IInv, TypeOK
  <2>4. CASE SendError(r, 405, "POST required")
    <3>1. PICK a : Send(r, a)
      BY <2>4 DEF SendError
    <3>2. pc'[r] = "done"
      BY <2>3, <3>1 DEF Send, Goto
    <3> QED
      BY <1>1, <1>2, <2>1, <3>2 DEF CheckMethod
  <2>5. CASE Goto(r, IF call[r].handler = "send" THEN "openForConnection" ELSE "form")
    <3>1. pc'[r] = IF call[r].handler = "send" THEN "openForConnection" ELSE "form"
      BY <2>3, <2>5 DEF Goto
    <3> QED
      BY <1>1, <1>2, <2>1, <2>2, <3>1 DEF CheckMethod
  <2> QED
    BY <1>2, <2>4, <2>5 DEF CheckMethod
<1>3. CASE BeginWrite(r)
  BY <1>1, <1>3 DEF BeginWrite, db, RowsOf
<1>4. CASE OpenForConnection(r)
  <2>1. built[r] = NoReply /\ pc'[r] = "find"
    BY <1>4 DEF OpenForConnection, IInv, ReadyToRecord, Goto, TypeOK
  <2> QED
    BY <1>1, <1>4, <2>1 DEF OpenForConnection
<1>5. CASE FindConnection(r)
  <2>1. ASSUME NEW i \in RowsOf(call[r].peer), SaveConnectionReturns(r, i)
        PROVE  NothingLost(r)'
    <3>1. i \in Nat \ {0} /\ pc[r] = "find"
      BY <1>5 DEF RowsOf, IInv, TypeOK, FindConnection
    <3> QED
      BY <2>1, <3>1, ReturnsId
  <2>2. CASE RowsOf(call[r].peer) = {} /\ Goto(r, "insertConnection")
             /\ UNCHANGED <<call, connectionId, built, stored, reply>>
    <3>1. built[r] = NoReply /\ pc'[r] = "insertConnection" /\ pc[r] = "find"
      BY <1>5, <2>2 DEF FindConnection, IInv, ReadyToRecord, Goto, TypeOK
    <3>2. RowsOf(call[r].peer)' = {}
      BY <1>5, <2>2 DEF FindConnection, RowsOf, db
    <3> QED
      BY <1>1, <2>2, <3>1, <3>2
  <2> QED
    BY <1>5, <2>1, <2>2 DEF FindConnection, OneWorker
<1>6. CASE InsertConnection(r)
  <2>1. RowsOf(call[r].peer) = {} /\ pc[r] = "insertConnection"
    BY <1>6 DEF InsertConnection
  <2>2. /\ Goto(r, "rowid")
        /\ UNCHANGED <<call, connectionId, built, stored, reply>>
    BY <1>6, <2>1 DEF InsertConnection
  <2>3. built[r] = NoReply /\ pc'[r] = "rowid"
    BY <2>1, <2>2 DEF IInv, ReadyToRecord, Goto, TypeOK
  <2> QED
    BY <1>1, <2>1, <2>2, <2>3
<1>7. CASE ReturnRowid(r)
  <2>1. pc[r] = "rowid" /\ SaveConnectionReturns(r, lastRowid[r])
    BY <1>7 DEF ReturnRowid
  <2>2. lastRowid[r] \in Nat \ {0}
    BY <2>1 DEF IInv, RowidIsOwn, RowsOf, TypeOK
  <2> QED
    BY <2>1, <2>2, ReturnsId
<1>8. ~ SaveConnectionFails(r) /\ ~ SaveMessageFails(r)
  BY <1>1 DEF SaveConnectionFails, SaveMessageFails
<1>9. CASE RejectBody(r)
  <2>1. built[r] = NoReply /\ ~ stored[r]
    BY <1>9 DEF RejectBody, IInv, ReadyToRecord
  <2>2. PICK a : Send(r, a)
    BY <1>9, EarlyAnswer
  <2>3. UNCHANGED <<built, stored>>
    BY <1>9 DEF RejectBody
  <2>4. pc'[r] = "done"
    BY <2>2 DEF Send, Goto, IInv, TypeOK
  <2> QED
    BY <1>1, <2>1, <2>3, <2>4
<1>16. CASE RejectForm(r)
  <2>1. built[r] = NoReply /\ built' = built
    BY <1>16 DEF RejectForm, IInv, ReadyToRecord
  <2>2. PICK a \in Responses : Send(r, a) /\ a.status = 400
    BY <1>16, FormAnswer
  <2>3. pc'[r] = "done" /\ reply'[r] = a
    BY <2>2 DEF Send, Goto, IInv, TypeOK
  <2>4. reply'[r] # NoReply /\ reply'[r].status = 400
    BY <2>2, <2>3, HandlersAssumption
  <2> QED
    BY <1>1, <2>1, <2>3, <2>4
<1>10. CASE LogText(r)
  <2>1. pc[r] = "body" /\ BuildResponse(r, Response(200, "OK"))
        /\ Response(200, "OK").status = 200
    BY <1>10 DEF LogText, Response
  <2> QED
    BY <2>1, BuiltResponses, BuildsResponse
<1>11. CASE SaveText(r)
  <2>1. pc[r] = "body"
    BY <1>11 DEF SaveText
  <2>2. ~ stored[r]
    BY <2>1 DEF IInv, ReadyToRecord
  <2>3. CASE BuildResponse(r, Response(200, "File saved"))
    <3>1. Response(200, "File saved").status = 200
      BY DEF Response
    <3> QED
      BY <2>1, <2>3, <3>1, BuiltResponses, BuildsResponse
  <2>4. CASE BuildResponse(r, Response(500, "Cannot save file")) /\ UNCHANGED stored
    BY <2>1, <2>2, <2>4, BuiltResponses, BuildsResponse
  <2> QED
    BY <1>11, <2>3, <2>4 DEF SaveText
<1>12. CASE StoreFile(r)
  <2>1. pc[r] = "form" /\ pc'[r] = "openForConnection" /\ built'[r] = built[r]
    BY <1>12 DEF StoreFile, Goto, IInv, TypeOK
  <2>2. built[r] = NoReply
    BY <2>1 DEF IInv, ReadyToRecord
  <2> QED
    BY <1>1, <2>1, <2>2
<1>13. CASE OpenForMessage(r)
  <2>1. pc[r] = "openForMessage" /\ pc'[r] = "insertMessage" /\ UNCHANGED <<built, stored>>
    BY <1>13 DEF OpenForMessage, Goto, IInv, TypeOK
  <2> QED
    BY <1>1, <2>1
<1>14. CASE InsertMessage(r)
  <2>1. pc[r] = "insertMessage" /\ pc'[r] = "reply" /\ UNCHANGED <<built, stored>>
    BY <1>14 DEF InsertMessage, Goto, IInv, TypeOK
  <2>2. Recorded(r)'
    <3>1. connectionId[r] \in DOMAIN connection
      BY <2>1 DEF IInv, ReadyToRecord, IdIsOwn, RowsOf
    <3>2. message' = Append(message, RowFor(r)) /\ message \in Seq(Row)
      BY <1>14, <3>1 DEF InsertMessage, IInv, TypeOK
    <3>3. Len(message) + 1 \in DOMAIN message' /\ message'[Len(message) + 1] = RowFor(r)
      BY <3>2
    <3>4. RowFor(r).request = r
      BY DEF RowFor
    <3> QED
      BY <3>3, <3>4 DEF Recorded
  <2> QED
    BY <1>1, <2>1, <2>2
<1>15. CASE SendReply(r)
  <2>1. pc[r] = "reply" /\ pc'[r] = "done" /\ UNCHANGED <<built, stored>>
    BY <1>15 DEF SendReply, Send, Goto, IInv, TypeOK
  <2> QED
    BY <1>1, <2>1
<1> QED
  BY <1>2, <1>3, <1>4, <1>5, <1>6, <1>7, <1>8, <1>9, <1>10, <1>11, <1>12, <1>13, <1>14,
     <1>15, <1>16 DEF Handle

\* A request that is accepted owes nothing yet.
LEMMA AcceptedKept ==
    ASSUME IInv, NEW r \in Requests, NothingLost(r), Accept(r)
    PROVE  NothingLost(r)'
<1>1. built[r] = NoReply /\ ~ stored[r]
  BY DEF Accept, IInv, ReadyToRecord, NothingLost, StoredForSuccess
<1>2. pc'[r] = "method" /\ UNCHANGED <<built, stored>>
  BY DEF Accept, Goto, IInv, TypeOK
<1> QED
  BY <1>1, <1>2 DEF NothingLost, PeerIsNew, IdIsKnown, BuiltIsRecorded, StoredForSuccess

LEMMA SoleStep ==
    ASSUME OneWorker, IInv, IInv', SInv, [Next]_vars
    PROVE  SInv'
<1>1. CASE UNCHANGED vars
  BY <1>1 DEF vars, db, SInv, ServedAlone, Busy, NothingLost, PeerIsNew, RowsOf, IdIsKnown,
     BuiltIsRecorded, Recorded, StoredForSuccess
<1>2. ASSUME NEW r \in Requests, Accept(r) \/ Handle(r)
      PROVE  SInv'
  <2>1. ServedAlone'
    BY <1>2, ServedAloneStep DEF SInv
  <2>2. NothingLost(r)'
    BY <1>2, AcceptedKept, HandledKept DEF SInv
  <2>3. ASSUME NEW q \in Requests \ {r}
        PROVE  NothingLost(q)'
    <3>1. pc[q] \in {"waiting", "done"}
      <4>1. CASE Accept(r)
        <5>1. Cardinality(Busy) \in Nat /\ Cardinality(Busy) < 1
          BY <4>1, FS_CardinalityType DEF Accept, OneWorker, SInv, ServedAlone
        <5>2. Cardinality(Busy) = 0
          BY <5>1
        <5>3. Busy = {}
          BY <5>2, FS_EmptySet DEF SInv, ServedAlone
        <5> QED
          BY <5>3 DEF Busy, IInv, TypeOK
      <4>2. CASE Handle(r)
        BY <4>2, OneMoves, Alone DEF SInv
      <4> QED
        BY <1>2, <4>1, <4>2
    <3>2. /\ pc'[q] = pc[q] /\ call'[q] = call[q]
          /\ built'[q] = built[q] /\ stored'[q] = stored[q] /\ reply'[q] = reply[q]
      BY <1>2, OneMoves DEF Accept, Goto, IInv, TypeOK
    <3> QED
      BY <1>2, <3>1, <3>2, RestingKept DEF SInv
  <2> QED
    BY <2>1, <2>2, <2>3 DEF SInv
<1> QED
  BY <1>1, <1>2 DEF Next, Idle

LEMMA SoleStart == Init => SInv
<1> SUFFICES ASSUME Init PROVE SInv
  OBVIOUS
<1>1. Busy = {}
  BY DEF Init, Busy, Working
<1>2. ServedAlone
  BY <1>1, FS_EmptySet DEF ServedAlone, Init
<1>3. \A r \in Requests : NothingLost(r)
  BY DEF Init, NothingLost, PeerIsNew, IdIsKnown, BuiltIsRecorded, StoredForSuccess
<1> QED
  BY <1>2, <1>3 DEF SInv

\* One worker keeps SInv.
LEMMA SoleInvariance == ASSUME OneWorker PROVE Spec => []SInv
<1>1. Init => SInv
  BY SoleStart
<1>2. IInv /\ IInv' /\ SInv /\ [Next]_vars => SInv'
  BY SoleStep
<1> QED
  BY <1>1, <1>2, Invariance, PTL DEF Spec

--------------------------------------------------------------------------------
\* Served by one worker, a request whose response was built for the history is in it
\* when its client is answered (api_send.c:122-124): no other handle can be writing.
THEOREM AnsweredIsRecordedInvariant == ASSUME OneWorker PROVE Spec => []AnsweredIsRecorded
<1>1. IInv /\ SInv => AnsweredIsRecorded
  BY DEF IInv, SInv, NothingLost, BuiltIsRecorded, AnsweredIsRecorded, AnswerIsLast
<1> QED
  BY <1>1, Invariance, SoleInvariance, PTL

\* Served by one worker, a request that ends in a server error left no file behind: what
\* is stored before the database is asked (api_upload.c:196-224) gets its id and its row.
THEOREM ErrorLeavesNoFileInvariant == ASSUME OneWorker PROVE Spec => []ErrorLeavesNoFile
<1>1. ASSUME IInv, SInv, NEW r \in Requests, reply[r] # NoReply, stored[r]
      PROVE  reply[r].status \in {200, 400}
  <2>1. pc[r] = "done"
    BY <1>1 DEF IInv, AnswerIsLast
  <2>2. CASE built[r] # NoReply /\ built[r].status = 200
    BY <1>1, <2>2 DEF IInv, AnswerIsLast
  <2>3. CASE reply[r].status = 400
    BY <2>3
  <2>4. StoredForSuccess(r)
    BY <1>1 DEF SInv, NothingLost
  <2> QED
    BY <1>1, <2>1, <2>2, <2>3, <2>4 DEF StoredForSuccess
<1>2. ASSUME IInv, SInv, NEW r \in Requests, reply[r] # NoReply, reply[r].status = 500
      PROVE  ~ stored[r]
  <2> SUFFICES ASSUME stored[r] PROVE FALSE
    OBVIOUS
  <2> QED
    BY <1>1, <1>2
<1>3. IInv /\ SInv => ErrorLeavesNoFile
  BY <1>2 DEF ErrorLeavesNoFile
<1> QED
  BY <1>3, Invariance, SoleInvariance, PTL
================================================================================
