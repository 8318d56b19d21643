-------------------------- MODULE SaveDirectoryProofs --------------------------
(***************************************************************************)
(* Theorems of SaveDirectory, for any number of requests, any file names,  *)
(* forms of any length, and any faults unless one says otherwise.          *)
(***************************************************************************)
EXTENDS SaveDirectory, FiniteSetTheorems, TLAPS

--------------------------------------------------------------------------------
(***************************************************************************)
(* Data.                                                                   *)
(***************************************************************************)

\* What a job carries.
LEMMA JobFields ==
    ASSUME NEW j \in Jobs
    PROVE  /\ j # NoJob
           /\ j.handler \in {"send", "upload"}
           /\ j.parts \in Seq(Part)
           /\ 1 \in DOMAIN j.parts
           /\ j.handler = "send" => DOMAIN j.parts = {1}
<1>1. j \in JobSpace /\ Len(j.parts) > 0 /\ (j.handler = "send" => Len(j.parts) = 1)
  BY SaveDirectoryAssumption
<1>2. j.parts \in Seq(Part) /\ j.handler \in {"send", "upload"}
  BY <1>1 DEF JobSpace
<1>3. j # NoJob
  BY SaveDirectoryAssumption
<1> QED
  BY <1>1, <1>2, <1>3

\* The part a request is at.
LEMMA CurrentPart ==
    ASSUME TypeOK, Served, NEW r \in Requests, pc[r] # "waiting"
    PROVE  /\ job[r] \in Jobs
           /\ ThisPart(r) \in Part
           /\ Name(r) \in Names
           /\ ThisPart(r).size \in 1 .. MaxChunks
           /\ part[r] \in Nat \ {0}
           /\ Wants(r, Name(r))
<1>1. job[r] \in Jobs /\ part[r] \in DOMAIN job[r].parts
  BY DEF TypeOK, Served
<1>2. ThisPart(r) \in Part
  BY <1>1, JobFields DEF ThisPart
<1>3. part[r] \in Nat \ {0}
  BY DEF TypeOK
<1> QED
  BY <1>1, <1>2, <1>3, JobFields DEF Part, Name, ThisPart, Wants

\* What Truncate does to the directory, in the terms the invariant uses.
LEMMA TruncateEffect ==
    ASSUME TypeOK, StreamsReach, NEW n \in Names, Truncate(n)
    PROVE  /\ inode' \in [Names -> Nat]
           /\ data' \in [Names -> [Chunks -> (Requests \X (Nat \ {0})) \cup {Nobody}]]
           /\ inodes' \in Nat /\ inodes <= inodes'
           /\ inode'[n] # 0
           /\ inode[n] # 0 => inode'[n] = inode[n]
           /\ inode[n] = 0 => inode'[n] > inodes
           /\ data'[n] = Empty
           /\ \A m \in Names \ {n} : inode'[m] = inode[m] /\ data'[m] = data[m]
           /\ \A m \in Names : inode'[m] <= inodes'
           /\ \A m, k \in Names : inode'[m] = inode'[k] /\ inode'[m] # 0 => m = k
<1>1. /\ inode' \in [Names -> Nat]
      /\ inodes' \in Nat /\ inodes <= inodes'
      /\ inode'[n] # 0
      /\ inode[n] # 0 => inode'[n] = inode[n]
      /\ inode[n] = 0 => inode'[n] > inodes
      /\ \A m \in Names \ {n} : inode'[m] = inode[m]
      /\ \A m \in Names : inode'[m] <= inodes'
  BY DEF Truncate, TypeOK, StreamsReach
<1>2. /\ data' \in [Names -> [Chunks -> (Requests \X (Nat \ {0})) \cup {Nobody}]]
      /\ data'[n] = Empty
      /\ \A m \in Names \ {n} : data'[m] = data[m]
  BY DEF Truncate, TypeOK, Empty
<1>3. \A m, k \in Names : inode'[m] = inode'[k] /\ inode'[m] # 0 => m = k
  BY <1>1 DEF StreamsReach, TypeOK
<1> QED
  BY <1>1, <1>2, <1>3

--------------------------------------------------------------------------------
(***************************************************************************)
(* Type correctness.                                                       *)
(***************************************************************************)
LEMMA TypeStep == IInv /\ [Next]_vars => TypeOK'
<1> SUFFICES ASSUME IInv, [Next]_vars PROVE TypeOK'
  OBVIOUS
<1> USE DEF directory, upload
<1>0. TypeOK /\ Served /\ StreamsReach
  BY DEF IInv
<1>1. CASE UNCHANGED vars
  BY <1>0, <1>1 DEF vars, TypeOK
<1>2. CASE \E r \in Requests : Start(r) \/ Handle(r)
  <2>1. PICK r \in Requests : Start(r) \/ Handle(r)
    BY <1>2
  <2>2. CASE Start(r)
    BY <1>0, <2>2 DEF Start, Goto, TypeOK
  <2>3. CASE MakeDir(r)
    BY <1>0, <2>3 DEF MakeDir, Goto, TypeOK
  <2>4. CASE Lock(r)
    BY <1>0, <2>4 DEF Lock, Goto, TypeOK
  <2>5. CASE WriteChunk(r)
    <3>1. Writer(r) \in Requests \X (Nat \ {0})
      BY <1>0, <2>5, CurrentPart DEF WriteChunk, Writer
    <3>2. written' \in [Requests -> 0 .. MaxChunks]
      <4>1. ThisPart(r).size \in 1 .. MaxChunks /\ MaxChunks \in Nat
        BY <1>0, <2>5, CurrentPart, SaveDirectoryAssumption DEF WriteChunk
      <4>2. written[r] \in 0 .. MaxChunks /\ written[r] < ThisPart(r).size
        BY <1>0, <2>5 DEF WriteChunk, TypeOK
      <4>3. written[r] + 1 \in 0 .. MaxChunks
        BY <4>1, <4>2
      <4> QED
        BY <1>0, <2>5, <4>3 DEF WriteChunk, TypeOK
    <3>3. data' \in [Names -> [Chunks -> (Requests \X (Nat \ {0})) \cup {Nobody}]]
      BY <1>0, <2>5, <3>1 DEF WriteChunk, TypeOK
    <3> QED
      BY <1>0, <2>5, <3>2, <3>3 DEF WriteChunk, TypeOK
  <2>6. CASE OpenText(r)
    <3>1. CASE /\ Truncate(Name(r))
               /\ stream' = [stream EXCEPT ![r] = inode'[Name(r)]]
               /\ Goto(r, "write")
               /\ UNCHANGED <<mtx_fprint, outcome>>
      BY <1>0, <2>6, <3>1, CurrentPart, TruncateEffect DEF OpenText, Goto, TypeOK
    <3>2. CASE /\ Unlock(r)
               /\ Finish(r, "failed")
               /\ UNCHANGED <<directory, stream>>
      BY <1>0, <2>6, <3>2 DEF OpenText, Unlock, Finish, Goto, TypeOK
    <3> QED
      BY <2>6, <3>1, <3>2 DEF OpenText
  <2>7. CASE CloseText(r)
    BY <1>0, <2>7 DEF CloseText, Unlock, Finish, Goto, TypeOK
  <2>8. CASE OpenPart(r)
    <3>1. leaked' \in [Requests -> Nat] /\ mtx_fprint' \in Requests \cup {NoRequest}
      BY <1>0, <2>8 DEF OpenPart, Unlock, TypeOK
    <3>2. CASE /\ Truncate(Name(r))
               /\ fp' = [fp EXCEPT ![r] = TRUE]
               /\ Goto(r, "stream")
      BY <1>0, <2>8, <3>1, <3>2, CurrentPart, TruncateEffect DEF OpenPart, Goto, TypeOK
    <3>3. CASE /\ fp' = [fp EXCEPT ![r] = FALSE]
               /\ Goto(r, "return")
               /\ UNCHANGED directory
      BY <1>0, <2>8, <3>1, <3>3 DEF OpenPart, Goto, TypeOK
    <3> QED
      BY <2>8, <3>2, <3>3 DEF OpenPart
  <2>9. CASE OpenStream(r)
    <3>1. written' \in [Requests -> 0 .. MaxChunks]
      BY <1>0, <2>9, SaveDirectoryAssumption DEF OpenStream, TypeOK
    <3>2. CASE /\ Truncate(Name(r))
               /\ stream' = [stream EXCEPT ![r] = inode'[Name(r)]]
               /\ Goto(r, "write")
      BY <1>0, <2>9, <3>1, <3>2, CurrentPart, TruncateEffect DEF OpenStream, Goto, TypeOK
    <3>3. CASE /\ Goto(r, "part")
               /\ UNCHANGED <<directory, stream>>
      BY <1>0, <2>9, <3>1, <3>3 DEF OpenStream, Goto, TypeOK
    <3> QED
      BY <2>9, <3>2, <3>3 DEF OpenStream
  <2>10. CASE AbandonPart(r)
    BY <1>0, <2>10 DEF AbandonPart, RemovePath, Goto, TypeOK, Empty
  <2>11. CASE CloseStream(r)
    BY <1>0, <2>11 DEF CloseStream, Goto, TypeOK
  <2>12. CASE FieldStore(r)
    BY <1>0, <2>12 DEF FieldStore, Goto, TypeOK
  <2>13. CASE NextPart(r)
    <3>1. part' \in [Requests -> Nat \ {0}]
      <4>1. part[r] + 1 \in Nat \ {0}
        BY <1>0 DEF TypeOK
      <4> QED
        BY <1>0, <2>13, <4>1 DEF NextPart, TypeOK
    <3>2. pc' = [pc EXCEPT ![r] = "mkdir"] \/ pc' = [pc EXCEPT ![r] = "return"]
      BY <2>13 DEF NextPart, Goto
    <3> QED
      BY <1>0, <2>13, <3>1, <3>2 DEF NextPart, TypeOK
  <2>14. CASE Return(r)
    BY <1>0, <2>14 DEF Return, Finish, Goto, TypeOK
  <2> QED
    BY <2>1, <2>2, <2>3, <2>4, <2>5, <2>6, <2>7, <2>8, <2>9, <2>10, <2>11, <2>12,
       <2>13, <2>14 DEF Handle
<1> QED
  BY <1>1, <1>2 DEF Next, Idle

--------------------------------------------------------------------------------
(***************************************************************************)
(* The initial states.                                                     *)
(***************************************************************************)
LEMMA InitialInvariant == Init => IInv
<1> SUFFICES ASSUME Init PROVE IInv
  OBVIOUS
<1>1. TypeOK
  BY SaveDirectoryAssumption DEF Init, TypeOK, Empty
<1>2. Served /\ TextPath
  BY DEF Init, Served, TextPath
<1>3. MutexHeld
  BY SaveDirectoryAssumption DEF Init, MutexHeld
<1>4. StreamsReach
  BY DEF Init, StreamsReach
<1>5. TextFiles
  BY DEF Init, TextFiles, TextFile
<1>6. HandlesCounted
  <2>1. \A r \in Requests : Skipped(r) = {}
    BY DEF Init, Skipped
  <2> QED
    BY <2>1, FS_EmptySet, SMTT(30) DEF Init, HandlesCounted, HandleCounted
<1>7. PartsKept
  BY DEF Init, PartsKept, PartKept
<1> QED
  BY <1>1, <1>2, <1>3, <1>4, <1>5, <1>6, <1>7 DEF IInv

--------------------------------------------------------------------------------
(***************************************************************************)
(* The control of the handlers.                                            *)
(***************************************************************************)
LEMMA ControlStep == IInv /\ [Next]_vars => Served' /\ TextPath' /\ MutexHeld'
<1> SUFFICES ASSUME IInv, [Next]_vars PROVE Served' /\ TextPath' /\ MutexHeld'
  OBVIOUS
<1> USE DEF directory, upload, Goto
<1>0. TypeOK /\ Served /\ TextPath /\ MutexHeld
  BY DEF IInv
<1>1. CASE UNCHANGED vars
  BY <1>0, <1>1 DEF vars, Served, TextPath, MutexHeld
<1>2. CASE \E r \in Requests : Start(r) \/ Handle(r)
  <2>1. PICK r \in Requests : Start(r) \/ Handle(r)
    BY <1>2
  <2>0. NoRequest \notin Requests
    BY SaveDirectoryAssumption
  <2> USE <1>0, <2>0 DEF TypeOK, Served, TextPath, MutexHeld
  <2>2. CASE Start(r)
    <3>1. PICK j \in Jobs : job' = [job EXCEPT ![r] = j]
      BY <2>2 DEF Start
    <3> QED
      BY <2>2, <3>1, JobFields DEF Start
  <2>3. CASE MakeDir(r)
    BY <2>3 DEF MakeDir
  <2>4. CASE Lock(r)
    BY <2>4 DEF Lock
  <2>5. CASE WriteChunk(r)
    BY <2>5 DEF WriteChunk
  <2>6. CASE OpenText(r)
    BY <2>6 DEF OpenText, Unlock, Finish
  <2>7. CASE CloseText(r)
    BY <2>7 DEF CloseText, Unlock, Finish
  <2>8. CASE OpenPart(r)
    BY <2>8 DEF OpenPart, Unlock
  <2>9. CASE OpenStream(r)
    BY <2>9 DEF OpenStream
  <2>10. CASE AbandonPart(r)
    BY <2>10 DEF AbandonPart
  <2>11. CASE CloseStream(r)
    BY <2>11 DEF CloseStream
  <2>12. CASE FieldStore(r)
    BY <2>12 DEF FieldStore
  <2>13. CASE NextPart(r)
    <3>1. job[r] \in Jobs /\ job[r].handler # "send"
      BY <2>13, CurrentPart DEF NextPart
    <3>2. job[r].parts \in Seq(Part) /\ part[r] \in Nat \ {0}
      BY <3>1, JobFields
    <3>3. Served'
      <4>1. CASE part[r] < Len(job[r].parts) /\ part' = [part EXCEPT ![r] = @ + 1]
        <5>1. part[r] + 1 \in DOMAIN job[r].parts
          BY <3>2, <4>1
        <5>2. part'[r] = part[r] + 1 /\ pc'[r] # "waiting" /\ job' = job
          BY <2>13, <4>1 DEF NextPart
        <5> QED
          BY <2>13, <4>1, <5>1, <5>2 DEF NextPart
      <4>2. CASE UNCHANGED part
        BY <2>13, <4>2 DEF NextPart
      <4> QED
        BY <2>13, <4>1, <4>2 DEF NextPart
    <3>4. TextPath' /\ MutexHeld'
      BY <2>13, <3>1 DEF NextPart
    <3> QED
      BY <3>3, <3>4
  <2>14. CASE Return(r)
    BY <2>14 DEF Return, Finish
  <2> QED
    BY <2>1, <2>2, <2>3, <2>4, <2>5, <2>6, <2>7, <2>8, <2>9, <2>10, <2>11, <2>12,
       <2>13, <2>14 DEF Handle
<1> QED
  BY <1>1, <1>2 DEF Next, Idle

--------------------------------------------------------------------------------
(***************************************************************************)
(* Streams and the directory.                                              *)
(***************************************************************************)

\* Opening a path and starting to write to it.
LEMMA OpenedReaches ==
    ASSUME IInv, TypeOK', NEW r \in Requests, Truncate(Name(r)), pc[r] # "waiting",
           stream' = [stream EXCEPT ![r] = inode'[Name(r)]],
           pc' = [pc EXCEPT ![r] = "write"], job' = job, part' = part
    PROVE  StreamsReach'
<1>0. TypeOK /\ Served /\ StreamsReach
  BY DEF IInv
<1>1. Name(r) \in Names
  BY <1>0, CurrentPart
<1>2. /\ \A n \in Names : inode'[n] <= inodes'
      /\ \A n, m \in Names : inode'[n] = inode'[m] /\ inode'[n] # 0 => n = m
  BY <1>0, <1>1, TruncateEffect
<1>3. \A q \in Requests : Name(q)' = Name(q)
  BY DEF Name, ThisPart
<1>4. ASSUME NEW q \in Requests
      PROVE  /\ stream'[q] # 0 <=> pc'[q] = "write"
             /\ stream'[q] <= inodes'
             /\ \A n \in Names : stream'[q] # 0 /\ inode'[n] = stream'[q] => n = Name(q)'
  <2>1. CASE q = r
    BY <1>0, <1>1, <1>2, <1>3, <2>1, TruncateEffect DEF TypeOK
  <2>2. CASE q # r
    <3>1. stream'[q] = stream[q] /\ (pc'[q] = "write" <=> pc[q] = "write")
      BY <1>0, <2>2 DEF TypeOK
    <3>2. stream[q] \in Nat /\ stream[q] <= inodes /\ inodes <= inodes' /\ inodes \in Nat
          /\ inodes' \in Nat
      BY <1>0, <1>1, TruncateEffect DEF StreamsReach, TypeOK
    <3>3. \A n \in Names : inode'[n] = inode[n] \/ inode'[n] > inodes
      BY <1>0, <1>1, TruncateEffect
    <3> QED
      BY <1>0, <1>3, <3>1, <3>2, <3>3 DEF StreamsReach, TypeOK
  <2> QED
    BY <2>1, <2>2
<1> QED
  BY <1>2, <1>4 DEF StreamsReach

LEMMA StreamsReachStep == IInv /\ [Next]_vars => StreamsReach'
<1> SUFFICES ASSUME IInv, [Next]_vars PROVE StreamsReach'
  OBVIOUS
<1> USE DEF directory, upload, Goto
<1>0. TypeOK /\ Served /\ StreamsReach
  BY DEF IInv
<1>t. TypeOK'
  BY TypeStep
<1>1. CASE UNCHANGED vars
  BY <1>0, <1>1 DEF vars, StreamsReach, Name, ThisPart
<1>2. CASE \E r \in Requests : Start(r) \/ Handle(r)
  <2>1. PICK r \in Requests : Start(r) \/ Handle(r)
    BY <1>2
  \* Most steps leave the directory alone and do not move a request that writes.
  <2>f. ASSUME inode' = inode, inodes' = inodes, stream' = stream,
               \A q \in Requests : (pc'[q] = "write" <=> pc[q] = "write"),
               \A q \in Requests : pc[q] = "write" =>
                    job'[q] = job[q] /\ part'[q] = part[q]
        PROVE  StreamsReach'
    BY <1>0, <2>f DEF StreamsReach, Name, ThisPart
  <2>2. CASE Start(r)
    BY <1>0, <2>2, <2>f DEF Start, TypeOK
  <2>3. CASE MakeDir(r)
    BY <1>0, <2>3, <2>f DEF MakeDir, TypeOK
  <2>4. CASE Lock(r)
    BY <1>0, <2>4, <2>f DEF Lock, TypeOK
  <2>5. CASE WriteChunk(r)
    BY <1>0, <2>5, <2>f DEF WriteChunk, TypeOK
  <2>6. CASE OpenText(r)
    <3>1. CASE /\ Truncate(Name(r))
               /\ stream' = [stream EXCEPT ![r] = inode'[Name(r)]]
               /\ Goto(r, "write")
      BY <1>t, <2>6, <3>1, OpenedReaches DEF OpenText
    <3>2. CASE Finish(r, "failed") /\ UNCHANGED <<directory, stream>>
      BY <1>0, <2>6, <2>f, <3>2 DEF OpenText, Finish, TypeOK
    <3> QED
      BY <2>6, <3>1, <3>2 DEF OpenText
  <2>7. CASE CloseText(r)
    BY <1>0, <2>7 DEF CloseText, Finish, StreamsReach, Name, ThisPart, TypeOK
  <2>8. CASE OpenPart(r)
    <3>1. CASE Truncate(Name(r)) /\ Goto(r, "stream")
      <4>1. Name(r) \in Names
        BY <1>0, <2>8, CurrentPart DEF OpenPart
      <4>2. \A n \in Names : inode'[n] = inode[n] \/ inode'[n] > inodes
        BY <1>0, <3>1, <4>1, TruncateEffect
      <4>3. inodes <= inodes' /\ inodes \in Nat /\ inodes' \in Nat
        BY <1>0, <1>t, <3>1, <4>1, TruncateEffect DEF TypeOK
      <4>4. /\ \A n \in Names : inode'[n] <= inodes'
            /\ \A n, m \in Names : inode'[n] = inode'[m] /\ inode'[n] # 0 => n = m
        BY <1>0, <3>1, <4>1, TruncateEffect
      <4>5. \A q \in Requests : Name(q)' = Name(q)
        BY <2>8 DEF OpenPart, Name, ThisPart
      <4>6. stream' = stream /\ \A q \in Requests : pc'[q] = "write" <=> pc[q] = "write"
        BY <1>0, <2>8, <3>1 DEF OpenPart, TypeOK
      <4> QED
        BY <1>0, <4>2, <4>3, <4>4, <4>5, <4>6 DEF StreamsReach, TypeOK
    <3>2. CASE Goto(r, "return") /\ UNCHANGED directory
      BY <1>0, <2>8, <2>f, <3>2 DEF OpenPart, TypeOK
    <3> QED
      BY <2>8, <3>1, <3>2 DEF OpenPart
  <2>9. CASE OpenStream(r)
    <3>1. CASE /\ Truncate(Name(r))
               /\ stream' = [stream EXCEPT ![r] = inode'[Name(r)]]
               /\ Goto(r, "write")
      BY <1>t, <2>9, <3>1, OpenedReaches DEF OpenStream
    <3>2. CASE Goto(r, "part") /\ UNCHANGED <<directory, stream>>
      BY <1>0, <2>9, <2>f, <3>2 DEF OpenStream, TypeOK
    <3> QED
      BY <2>9, <3>1, <3>2 DEF OpenStream
  <2>10. CASE AbandonPart(r)
    <3>1. \A n \in Names : inode'[n] = inode[n] \/ inode'[n] = 0
      BY <1>0, <2>10 DEF AbandonPart, RemovePath, TypeOK
    <3>2. /\ inodes' = inodes /\ stream' = [stream EXCEPT ![r] = 0]
          /\ job' = job /\ part' = part
          /\ \A q \in Requests : pc'[q] = "write" <=> pc[q] = "write" /\ q # r
      <4>1. Goto(r, "part") \/ Goto(r, "return")
        BY <2>10 DEF AbandonPart
      <4> QED
        BY <1>0, <2>10, <4>1 DEF AbandonPart, RemovePath, TypeOK
    <3> QED
      BY <1>0, <3>1, <3>2 DEF StreamsReach, Name, ThisPart, TypeOK
  <2>11. CASE CloseStream(r)
    BY <1>0, <2>11 DEF CloseStream, StreamsReach, Name, ThisPart, TypeOK
  <2>12. CASE FieldStore(r)
    BY <1>0, <2>12, <2>f DEF FieldStore, TypeOK
  <2>13. CASE NextPart(r)
    BY <1>0, <2>13, <2>f DEF NextPart, TypeOK
  <2>14. CASE Return(r)
    BY <1>0, <2>14, <2>f DEF Return, Finish, TypeOK
  <2> QED
    BY <2>1, <2>2, <2>3, <2>4, <2>5, <2>6, <2>7, <2>8, <2>9, <2>10, <2>11, <2>12,
       <2>13, <2>14 DEF Handle
<1> QED
  BY <1>1, <1>2 DEF Next, Idle

--------------------------------------------------------------------------------
(***************************************************************************)
(* Files of texts.                                                         *)
(***************************************************************************)

\* What has been written grows by one chunk.
LEMMA ChunkWritten ==
    ASSUME NEW r \in Requests, NEW m \in Names, written[r] \in Nat,
           written'[r] = written[r] + 1, part' = part, data[m] = Written(r),
           data'[m] = [data[m] EXCEPT ![written[r] + 1] = Writer(r)]
    PROVE  data'[m] = Written(r)'
<1>1. Writer(r)' = Writer(r)
  BY DEF Writer
<1>2. data'[m] = [[k \in Chunks |-> IF k <= written[r] THEN Writer(r) ELSE Nobody]
                      EXCEPT ![written[r] + 1] = Writer(r)]
  BY DEF Written
<1>3. data'[m] = [k \in Chunks |-> IF k = written[r] + 1 THEN Writer(r)
                      ELSE IF k <= written[r] THEN Writer(r) ELSE Nobody]
  BY <1>2, Zenon
<1>4. \A k \in Chunks : k <= written[r] + 1 <=> k = written[r] + 1 \/ k <= written[r]
  BY DEF Chunks
<1>5. Written(r)' = [k \in Chunks |-> IF k <= written[r] + 1 THEN Writer(r) ELSE Nobody]
  BY <1>1 DEF Written
<1> QED
  BY <1>3, <1>4, <1>5

\* The mutex: nobody else writes a text file that r has opened or is about to.
LEMMA OneWriter ==
    ASSUME IInv, NEW r \in Requests, pc[r] \in {"open", "write"}, OnlyTexts(Name(r)),
           NEW q \in Requests, Writing(q, Name(r))
    PROVE  q = r
<1>0. TypeOK /\ Served /\ MutexHeld
  BY DEF IInv
<1>1. job[r].handler = "send" /\ job[q].handler = "send"
  BY <1>0, CurrentPart DEF OnlyTexts, Writing
<1>2. mtx_fprint = r /\ mtx_fprint = q
  BY <1>0, <1>1 DEF MutexHeld, Writing
<1> QED
  BY <1>2

\* A step of an upload says nothing about the name it is at: that is no text file.
LEMMA UploadsName ==
    ASSUME IInv, NEW r \in Requests, pc[r] # "waiting", job[r].handler # "send", job' = job,
           NEW n \in Names, n = Name(r)
    PROVE  TextFile(n)'
<1>0. TypeOK /\ Served
  BY DEF IInv
<1>1. ~ OnlyTexts(n)
  BY <1>0, CurrentPart DEF OnlyTexts
<1>2. ~ OnlyTexts(n)'
  BY <1>1 DEF OnlyTexts, Wants
<1> QED
  BY <1>2 DEF TextFile

\* A step of r that touches neither the file called n nor whether r writes it.
LEMMA OtherFile ==
    ASSUME IInv, NEW r \in Requests, NEW n \in Names, job' = job, pc[r] # "done",
           inode'[n] = inode[n], data'[n] = data[n],
           ~ Writing(r, n), ~ Writing(r, n)',
           \A q \in Requests \ {r} :
                /\ pc'[q] = pc[q] /\ part'[q] = part[q] /\ outcome'[q] = outcome[q]
                /\ stream'[q] = stream[q] /\ written'[q] = written[q]
    PROVE  TextFile(n)'
<1>1. TextFile(n)
  BY DEF IInv, TextFiles
<1>2. OnlyTexts(n)' = OnlyTexts(n)
  BY DEF OnlyTexts, Wants
<1>3. ASSUME NEW q \in Requests, SavedText(q, n) PROVE SavedText(q, n)'
  <2>1. q # r
    BY <1>3 DEF SavedText, IInv, TextPath
  <2> QED
    BY <1>3, <2>1 DEF SavedText, Wants, Written, Writer, ThisPart
<1>4. \A q \in Requests \ {r} :
          /\ Writing(q, n)' = Writing(q, n)
          /\ Written(q)' = Written(q)
  BY DEF Writing, Name, ThisPart, Written, Writer
<1> QED
  BY <1>1, <1>2, <1>3, <1>4 DEF TextFile

\* A step of r between writings.
LEMMA Quiet ==
    ASSUME IInv, NEW r \in Requests, job' = job, inode' = inode, data' = data,
           pc[r] \notin {"write", "done"}, pc'[r] # "write",
           \A q \in Requests \ {r} :
                /\ pc'[q] = pc[q] /\ part'[q] = part[q] /\ outcome'[q] = outcome[q]
                /\ stream'[q] = stream[q] /\ written'[q] = written[q]
    PROVE  TextFiles'
<1>1. ASSUME NEW n \in Names PROVE TextFile(n)'
  BY OtherFile DEF Writing
<1> QED
  BY <1>1 DEF TextFiles

LEMMA TextFilesStep == IInv /\ [Next]_vars => TextFiles'
<1> SUFFICES ASSUME IInv, [Next]_vars PROVE TextFiles'
  OBVIOUS
<1> USE DEF directory, upload, Goto
<1>0. TypeOK /\ Served /\ TextPath /\ MutexHeld /\ StreamsReach /\ TextFiles
  BY DEF IInv
<1>t. TypeOK'
  BY TypeStep
<1>1. CASE UNCHANGED vars
  BY <1>0, <1>1 DEF vars, TextFiles, TextFile, OnlyTexts, SavedText, Wants,
                    Writing, Written, Writer, Name, ThisPart
<1>2. CASE \E r \in Requests : Start(r) \/ Handle(r)
  <2>1. PICK r \in Requests : Start(r) \/ Handle(r)
    BY <1>2
  \* A job appears; the files of texts it does not want are as they were.
  <2>2. CASE Start(r)
    <3>1. pc[r] = "waiting" /\ job[r] = NoJob /\ pc'[r] = "mkdir"
      BY <1>0, <2>2 DEF Start, Served, TypeOK
    <3>2. \A q \in Requests \ {r} : job'[q] = job[q] /\ pc'[q] = pc[q]
      BY <1>0, <2>2 DEF Start, TypeOK
    <3>3. ASSUME NEW n \in Names PROVE TextFile(n)'
      <4>1. TextFile(n)
        BY <1>0 DEF TextFiles
      <4>2. OnlyTexts(n)' => OnlyTexts(n)
        BY <3>1, <3>2 DEF OnlyTexts, Wants
      <4>3. ASSUME NEW q \in Requests, SavedText(q, n) PROVE SavedText(q, n)'
        <5>1. q # r
          BY <3>1, <4>3 DEF SavedText, Wants
        <5> QED
          BY <2>2, <3>2, <4>3, <5>1 DEF Start, SavedText, Wants, Written, Writer, ThisPart
      <4>4. \A q \in Requests \ {r} : Writing(q, n)' = Writing(q, n)
        BY <2>2, <3>2 DEF Start, Writing, Name, ThisPart
      <4>5. ~ Writing(r, n) /\ ~ Writing(r, n)'
        BY <3>1 DEF Writing
      <4>6. \A q \in Requests : Written(q)' = Written(q)
        BY <2>2 DEF Start, Written, Writer
      <4> QED
        BY <2>2, <4>1, <4>2, <4>3, <4>4, <4>5, <4>6 DEF Start, TextFile
    <3> QED
      BY <3>3 DEF TextFiles
  <2>3. CASE MakeDir(r)
    BY <1>0, <2>3, Quiet DEF MakeDir, TypeOK
  <2>4. CASE Lock(r)
    BY <1>0, <2>4, Quiet DEF Lock, TypeOK
  <2>5. CASE WriteChunk(r)
    <3>1. PICK m \in Names : m = Name(r)
      BY <1>0, <2>5, CurrentPart DEF WriteChunk
    <3>2. stream[r] # 0 /\ \A n \in Names \ {m} : inode[n] # stream[r]
      BY <1>0, <2>5, <3>1 DEF WriteChunk, StreamsReach
    <3>3. ASSUME NEW n \in Names \ {m} PROVE TextFile(n)'
      <4>1. data'[n] = data[n] /\ inode'[n] = inode[n] /\ job' = job
        BY <2>5, <3>2 DEF WriteChunk
      <4>2. ~ Writing(r, n) /\ ~ Writing(r, n)'
        BY <2>5, <3>1 DEF WriteChunk, Writing, Name, ThisPart
      <4> QED
        BY <1>0, <2>5, <4>1, <4>2, OtherFile DEF WriteChunk, TypeOK
    <3>4. TextFile(m)'
      <4>1. CASE ~ OnlyTexts(m) \/ inode[m] = 0
        BY <2>5, <4>1 DEF WriteChunk, TextFile, OnlyTexts, Wants
      <4>2. CASE OnlyTexts(m) /\ inode[m] # 0
        <5>1. Writing(r, m) /\ Writing(r, m)'
          BY <2>5, <3>1 DEF WriteChunk, Writing, Name, ThisPart
        <5>2. stream[r] = inode[m] /\ data[m] = Written(r)
          BY <1>0, <4>2, <5>1 DEF TextFiles, TextFile
        <5>3. data'[m] = [data[m] EXCEPT ![written[r] + 1] = Writer(r)]
          BY <2>5, <5>2 DEF WriteChunk
        <5>4. data'[m] = Written(r)'
          <6>1. written[r] \in Nat /\ written'[r] = written[r] + 1 /\ part' = part
            BY <1>0, <2>5 DEF WriteChunk, TypeOK
          <6> QED
            BY <5>2, <5>3, <6>1, ChunkWritten
        <5>5. \A q \in Requests : Writing(q, m)' => q = r
          BY <2>5, <3>1, <4>2, OneWriter DEF WriteChunk, Writing, Name, ThisPart
        <5>6. stream'[r] = inode'[m]
          BY <2>5, <5>2 DEF WriteChunk
        <5> QED
          BY <5>1, <5>4, <5>5, <5>6 DEF TextFile
      <4> QED
        BY <4>1, <4>2
    <3> QED
      BY <3>3, <3>4 DEF TextFiles
  <2>6. CASE OpenText(r)
    <3>1. CASE /\ Truncate(Name(r))
               /\ stream' = [stream EXCEPT ![r] = inode'[Name(r)]]
               /\ Goto(r, "write")
      <4>1. PICK m \in Names : m = Name(r)
        BY <1>0, <2>6, CurrentPart DEF OpenText
      <4>2. /\ data'[m] = Empty
            /\ \A n \in Names \ {m} : inode'[n] = inode[n] /\ data'[n] = data[n]
        BY <1>0, <3>1, <4>1, TruncateEffect
      <4>3. job' = job /\ part' = part /\ written' = written /\ pc[r] = "open"
        BY <2>6 DEF OpenText
      <4>4. \A q \in Requests : Name(q)' = Name(q)
        BY <4>3 DEF Name, ThisPart
      <4>5. ASSUME NEW n \in Names \ {m} PROVE TextFile(n)'
        <5>1. ~ Writing(r, n) /\ ~ Writing(r, n)'
          BY <4>1, <4>4 DEF Writing
        <5>2. \A q \in Requests \ {r} : /\ pc'[q] = pc[q] /\ stream'[q] = stream[q]
                                         /\ outcome'[q] = outcome[q]
          BY <1>0, <2>6, <3>1 DEF OpenText, Finish, TypeOK
        <5> QED
          BY <4>2, <4>3, <5>1, <5>2, OtherFile
      <4>6. TextFile(m)'
        <5>1. SUFFICES ASSUME OnlyTexts(m)
                       PROVE  /\ Writing(r, m)'
                              /\ \A q \in Requests : Writing(q, m)' =>
                                    stream'[q] = inode'[m] /\ data'[m] = Written(q)'
          BY <4>3 DEF TextFile, OnlyTexts, Wants
        <5>2. Writing(r, m)' /\ stream'[r] = inode'[m]
          BY <1>0, <3>1, <4>1, <4>4 DEF Writing, TypeOK
        <5>3. Written(r)' = Empty
          BY <1>0, <2>6, <4>3 DEF OpenText, TextPath, Written, Empty, Chunks
        <5>4. ASSUME NEW q \in Requests, Writing(q, m)' PROVE q = r
          <6>1. q # r => Writing(q, m)
            BY <1>0, <3>1, <4>4, <5>4 DEF Writing, TypeOK
          <6> QED
            BY <4>1, <4>3, <5>1, <6>1, OneWriter
        <5> QED
          BY <4>2, <5>2, <5>3, <5>4
      <4> QED
        BY <4>5, <4>6 DEF TextFiles
    <3>2. CASE Finish(r, "failed") /\ UNCHANGED <<directory, stream>>
      BY <1>0, <2>6, <3>2, Quiet DEF OpenText, Finish, TypeOK
    <3> QED
      BY <2>6, <3>1, <3>2 DEF OpenText
  <2>7. CASE CloseText(r)
    <3>1. PICK m \in Names : m = Name(r)
      BY <1>0, <2>7, CurrentPart DEF CloseText
    <3>2. /\ job' = job /\ part' = part /\ written' = written
          /\ inode' = inode /\ data' = data
          /\ pc[r] = "write" /\ pc'[r] = "done"
      BY <1>0, <2>7 DEF CloseText, Finish, TypeOK
    <3>3. ASSUME NEW n \in Names \ {m} PROVE TextFile(n)'
      <4>1. ~ Writing(r, n) /\ ~ Writing(r, n)'
        BY <3>1, <3>2 DEF Writing
      <4>2. \A q \in Requests \ {r} : /\ pc'[q] = pc[q] /\ stream'[q] = stream[q]
                                       /\ outcome'[q] = outcome[q]
        BY <1>0, <2>7 DEF CloseText, Finish, TypeOK
      <4> QED
        BY <3>2, <4>1, <4>2, OtherFile
    <3>4. TextFile(m)'
      <4>1. SUFFICES ASSUME inode[m] # 0, OnlyTexts(m)
                     PROVE  /\ \A q \in Requests : ~ Writing(q, m)'
                            /\ SavedText(r, m)'
        <5>1. OnlyTexts(m)' = OnlyTexts(m) /\ inode'[m] = inode[m]
          BY <3>2 DEF OnlyTexts, Wants
        <5> QED
          BY <5>1 DEF TextFile
      <4>2. Writing(r, m)
        BY <3>1, <3>2 DEF Writing
      <4>3. data[m] = Written(r)
        BY <1>0, <4>1, <4>2 DEF TextFiles, TextFile
      <4>4. data'[m] = Written(r)' /\ outcome'[r] = "saved"
        BY <1>0, <2>7, <3>2, <4>3 DEF CloseText, Finish, Written, Writer, TypeOK
      <4>5. SavedText(r, m)'
        <5>1. Wants(r, m)'
          BY <1>0, <3>1, <3>2, CurrentPart DEF Wants
        <5>2. written'[r] = ThisPart(r)'.size \/ "text" \in Faults
          BY <2>7, <3>2 DEF CloseText, ThisPart
        <5> QED
          BY <4>4, <5>1, <5>2 DEF SavedText
      <4>6. ASSUME NEW q \in Requests PROVE ~ Writing(q, m)'
        <5>1. CASE q = r
          BY <3>2, <5>1 DEF Writing
        <5>2. CASE q # r
          <6>1. Writing(q, m)' = Writing(q, m)
            BY <1>0, <2>7, <3>2, <5>2 DEF CloseText, Finish, Writing, Name, ThisPart, TypeOK
          <6> QED
            BY <3>1, <3>2, <4>1, <5>2, <6>1, OneWriter
        <5> QED
          BY <5>1, <5>2
      <4> QED
        BY <4>5, <4>6
    <3> QED
      BY <3>3, <3>4 DEF TextFiles
  \* The steps of an upload that change the directory do so at its own name.
  <2>u. ASSUME pc[r] \notin {"waiting", "done"}, job[r].handler # "send", job' = job,
               \A n \in Names \ {Name(r)} : inode'[n] = inode[n] /\ data'[n] = data[n],
               part' = part,
               \A q \in Requests \ {r} :
                    /\ pc'[q] = pc[q] /\ stream'[q] = stream[q] /\ written'[q] = written[q]
                    /\ outcome'[q] = outcome[q]
        PROVE  TextFiles'
    <3>1. ASSUME NEW n \in Names, n # Name(r) PROVE TextFile(n)'
      <4>1. ~ Writing(r, n) /\ ~ Writing(r, n)'
        BY <2>u, <3>1 DEF Writing, Name, ThisPart
      <4> QED
        BY <2>u, <3>1, <4>1, OtherFile
    <3> QED
      BY <2>u, <3>1, UploadsName DEF TextFiles
  <2>8. CASE OpenPart(r)
    <3>1. CASE Truncate(Name(r)) /\ Goto(r, "stream")
      <4>1. Name(r) \in Names
        BY <1>0, <2>8, CurrentPart DEF OpenPart
      <4>2. \A n \in Names \ {Name(r)} : inode'[n] = inode[n] /\ data'[n] = data[n]
        BY <1>0, <3>1, <4>1, TruncateEffect
      <4> QED
        BY <1>0, <2>8, <2>u, <3>1, <4>2 DEF OpenPart, TypeOK
    <3>2. CASE Goto(r, "return") /\ UNCHANGED directory
      BY <1>0, <2>8, <3>2, Quiet DEF OpenPart, TypeOK
    <3> QED
      BY <2>8, <3>1, <3>2 DEF OpenPart
  <2>9. CASE OpenStream(r)
    <3>0. job[r].handler # "send"
      BY <1>0, <2>9 DEF OpenStream, TextPath
    <3>1. CASE /\ Truncate(Name(r))
               /\ stream' = [stream EXCEPT ![r] = inode'[Name(r)]]
               /\ Goto(r, "write")
      <4>1. Name(r) \in Names
        BY <1>0, <2>9, CurrentPart DEF OpenStream
      <4>2. \A n \in Names \ {Name(r)} : inode'[n] = inode[n] /\ data'[n] = data[n]
        BY <1>0, <3>1, <4>1, TruncateEffect
      <4> QED
        BY <1>0, <2>9, <2>u, <3>0, <3>1, <4>2 DEF OpenStream, TypeOK
    <3>2. CASE Goto(r, "part") /\ UNCHANGED <<directory, stream>>
      BY <1>0, <2>9, <3>2, Quiet DEF OpenStream, TypeOK
    <3> QED
      BY <2>9, <3>1, <3>2 DEF OpenStream
  <2>10. CASE AbandonPart(r)
    <3>1. \A n \in Names \ {Name(r)} : inode'[n] = inode[n] /\ data'[n] = data[n]
      BY <1>0, <2>10 DEF AbandonPart, RemovePath, TypeOK
    <3> QED
      BY <1>0, <2>10, <2>u, <3>1 DEF AbandonPart, TypeOK
  <2>11. CASE CloseStream(r)
    BY <1>0, <2>11, <2>u DEF CloseStream, TypeOK
  <2>12. CASE FieldStore(r)
    BY <1>0, <2>12, Quiet DEF FieldStore, TypeOK
  <2>13. CASE NextPart(r)
    BY <1>0, <2>13, Quiet DEF NextPart, TypeOK
  <2>14. CASE Return(r)
    BY <1>0, <2>14, Quiet DEF Return, Finish, TypeOK
  <2> QED
    BY <2>1, <2>2, <2>3, <2>4, <2>5, <2>6, <2>7, <2>8, <2>9, <2>10, <2>11, <2>12,
       <2>13, <2>14 DEF Handle
<1> QED
  BY <1>1, <1>2 DEF Next, Idle

--------------------------------------------------------------------------------
(***************************************************************************)
(* File handles.                                                           *)
(***************************************************************************)

\* The skipped parts are finitely many.
LEMMA SkippedFinite ==
    ASSUME TypeOK, NEW r \in Requests
    PROVE  IsFiniteSet(Skipped(r)) /\ Cardinality(Skipped(r)) \in Nat
<1>1. part[r] - 1 \in Int
  BY DEF TypeOK
<1>2. IsFiniteSet(1 .. part[r] - 1)
  BY <1>1, FS_Interval
<1>3. Skipped(r) \in SUBSET (1 .. part[r] - 1)
  BY DEF Skipped
<1>4. IsFiniteSet(Skipped(r))
  BY <1>2, <1>3, FS_Subset
<1> QED
  BY <1>4, FS_CardinalityType

LEMMA HandlesStep == IInv /\ [Next]_vars => HandlesCounted'
<1> SUFFICES ASSUME IInv, [Next]_vars PROVE HandlesCounted'
  OBVIOUS
<1> USE DEF directory, upload, Goto
<1>0. TypeOK /\ TextPath /\ HandlesCounted
  BY DEF IInv
<1>1. CASE UNCHANGED vars
  BY <1>0, <1>1 DEF vars, HandlesCounted, HandleCounted, Skipped
<1>2. CASE \E r \in Requests : Start(r) \/ Handle(r)
  <2>1. PICK r \in Requests : Start(r) \/ Handle(r)
    BY <1>2
  <2>0. HandleCounted(r) /\ IsFiniteSet(Skipped(r)) /\ Cardinality(Skipped(r)) \in Nat
    BY <1>0, SkippedFinite DEF HandlesCounted
  <2>o. \A q \in Requests \ {r} :
            /\ pc'[q] = pc[q] /\ part'[q] = part[q] /\ storedParts'[q] = storedParts[q]
            /\ leaked'[q] = leaked[q] /\ fp'[q] = fp[q] /\ job'[q] = job[q]
    BY <1>0, <2>1 DEF Start, Handle, MakeDir, Lock, WriteChunk, OpenText, CloseText,
       OpenPart, OpenStream, AbandonPart, CloseStream, FieldStore, NextPart, Return,
       Finish, TypeOK
  <2>h. SUFFICES HandleCounted(r)'
    <3>1. \A q \in Requests \ {r} : HandleCounted(q)' = HandleCounted(q)
      BY <2>o DEF HandleCounted, Skipped
    <3> QED
      BY <1>0, <3>1 DEF HandlesCounted
  \* Most steps only move pc.
  <2>f. ASSUME part' = part, UNCHANGED upload,
               pc'[r] \in {"mkdir", "lock", "open"} =>
                    pc[r] \in {"mkdir", "lock", "open"} \/ ~ fp[r],
               pc'[r] \in {"waiting", "done"} => ~ fp[r],
               part[r] \in storedParts[r] => pc'[r] \in {"part", "return", "done"},
               pc'[r] = "part" => pc[r] \notin {"part", "return", "done"},
               job'[r] = job[r] \/ ~ fp[r]
        PROVE  HandleCounted(r)'
    <3>1. Skipped(r)' = Skipped(r)
      BY <2>f DEF Skipped
    <3> QED
      BY <2>0, <2>f, <3>1 DEF HandleCounted
  <2>2. CASE Start(r)
    BY <1>0, <2>0, <2>2, <2>f DEF Start, HandleCounted, TypeOK
  <2>3. CASE MakeDir(r)
    BY <1>0, <2>0, <2>3, <2>f DEF MakeDir, HandleCounted, TypeOK
  <2>4. CASE Lock(r)
    BY <1>0, <2>0, <2>4, <2>f DEF Lock, HandleCounted, TypeOK
  <2>5. CASE WriteChunk(r)
    BY <1>0, <2>0, <2>5, <2>f DEF WriteChunk, HandleCounted, TypeOK
  <2>6. CASE OpenText(r)
    BY <1>0, <2>0, <2>6, <2>f DEF OpenText, Finish, HandleCounted, TypeOK
  <2>7. CASE CloseText(r)
    BY <1>0, <2>0, <2>7, <2>f DEF CloseText, Finish, HandleCounted, TypeOK
  \* The handle that is overwritten is counted now.
  <2>8. CASE OpenPart(r)
    <3>1. leaked'[r] <= Cardinality(Skipped(r))
      BY <1>0, <2>0, <2>8 DEF OpenPart, HandleCounted, TypeOK
    <3>2. Skipped(r)' = Skipped(r) /\ storedParts' = storedParts /\ part' = part /\ job' = job
      BY <2>8 DEF OpenPart, Skipped
    <3>3. part[r] \notin storedParts[r] /\ job[r].handler = "upload"
      BY <2>0, <2>8 DEF OpenPart, HandleCounted
    <3>4. pc'[r] \in {"stream", "return"}
      BY <1>0, <2>8 DEF OpenPart, TypeOK
    <3> QED
      BY <2>0, <3>1, <3>2, <3>3, <3>4 DEF HandleCounted
  <2>9. CASE OpenStream(r)
    BY <1>0, <2>0, <2>9, <2>f DEF OpenStream, HandleCounted, TypeOK
  <2>10. CASE AbandonPart(r)
    BY <1>0, <2>0, <2>10, <2>f DEF AbandonPart, HandleCounted, TypeOK
  <2>11. CASE CloseStream(r)
    BY <1>0, <2>0, <2>11, <2>f DEF CloseStream, HandleCounted, TypeOK
  <2>12. CASE FieldStore(r)
    <3>1. Skipped(r)' = Skipped(r)
      BY <1>0, <2>12 DEF FieldStore, Skipped, TypeOK
    <3>2. storedParts'[r] \subseteq 1 .. part[r]
      BY <1>0, <2>0, <2>12 DEF FieldStore, HandleCounted, TypeOK
    <3>3. pc'[r] = "part" /\ ~ fp'[r] /\ part' = part /\ leaked' = leaked
      BY <1>0, <2>12 DEF FieldStore, TypeOK
    <3> QED
      BY <2>0, <3>1, <3>2, <3>3 DEF HandleCounted
  \* A part with its handle still open was skipped, and is counted among those from now on.
  <2>13. CASE NextPart(r)
    <3>1. CASE part' = [part EXCEPT ![r] = @ + 1] /\ Goto(r, "mkdir")
      <4>1. part[r] \in Nat \ {0} /\ part'[r] = part[r] + 1 /\ pc'[r] = "mkdir"
        BY <1>0, <3>1 DEF TypeOK
      <4>2. UNCHANGED <<upload, job>> /\ pc[r] = "part"
        BY <2>13 DEF NextPart
      <4>3. storedParts[r] \subseteq 1 .. part[r]
        BY <2>0 DEF HandleCounted
      <4>4. storedParts'[r] \subseteq 1 .. part'[r] /\ part'[r] \notin storedParts'[r]
        BY <4>1, <4>2, <4>3
      <4>5. Skipped(r)' = IF part[r] \in storedParts[r] THEN Skipped(r)
                          ELSE Skipped(r) \cup {part[r]}
        BY <4>1, <4>2 DEF Skipped
      <4>6. part[r] \notin Skipped(r)
        BY <4>1 DEF Skipped
      <4>7. Cardinality(Skipped(r))' = IF part[r] \in storedParts[r]
                THEN Cardinality(Skipped(r)) ELSE Cardinality(Skipped(r)) + 1
        BY <2>0, <4>5, <4>6, FS_AddElement
      <4>8. leaked[r] \in Nat
        BY <1>0 DEF TypeOK
      <4> QED
        BY <2>0, <4>1, <4>2, <4>4, <4>7, <4>8 DEF HandleCounted
    <3>2. CASE Goto(r, "return") /\ UNCHANGED part
      <4>1. Skipped(r)' = Skipped(r)
        BY <2>13, <3>2 DEF NextPart, Skipped
      <4> QED
        BY <1>0, <2>0, <2>13, <3>2, <4>1 DEF NextPart, HandleCounted, TypeOK
    <3> QED
      BY <2>13, <3>1, <3>2 DEF NextPart
  <2>14. CASE Return(r)
    <3>1. Skipped(r)' = Skipped(r)
      BY <2>14 DEF Return, Skipped
    <3> QED
      BY <1>0, <2>0, <2>14, <3>1 DEF Return, Finish, HandleCounted, TypeOK
  <2> QED
    BY <2>1, <2>2, <2>3, <2>4, <2>5, <2>6, <2>7, <2>8, <2>9, <2>10, <2>11, <2>12,
       <2>13, <2>14 DEF Handle
<1> QED
  BY <1>1, <1>2 DEF Next, Idle

--------------------------------------------------------------------------------
(***************************************************************************)
(* Stored parts.                                                           *)
(***************************************************************************)

\* The parts a request has stored are parts of its form, up to the one it is at.
LEMMA StoredAre ==
    ASSUME IInv, NEW r \in Requests, NEW i \in storedParts[r]
    PROVE  /\ pc[r] # "waiting" /\ i <= part[r] /\ i \in DOMAIN job[r].parts
           /\ job[r].parts[i].name \in Names /\ Wants(r, job[r].parts[i].name)
<1>0. TypeOK /\ Served /\ HandleCounted(r)
  BY DEF IInv, HandlesCounted
<1>1. i \in 1 .. part[r] /\ part[r] \in Nat \ {0}
  BY <1>0 DEF HandleCounted, TypeOK
<1>2. pc[r] # "waiting"
  <2> SUFFICES ASSUME pc[r] = "waiting" PROVE FALSE
    OBVIOUS
  <2>1. part[r] = 1
    BY <1>0 DEF Served
  <2>2. part[r] \in storedParts[r]
    BY <1>1, <2>1
  <2> QED
    BY <1>0, <2>2 DEF HandleCounted
<1>3. job[r] \in Jobs /\ part[r] \in DOMAIN job[r].parts
  BY <1>0, <1>2, CurrentPart DEF Served
<1>4. job[r].parts \in Seq(Part)
  BY <1>3, JobFields
<1>5. i \in DOMAIN job[r].parts
  BY <1>1, <1>3, <1>4
<1>6. job[r].parts[i] \in Part
  BY <1>4, <1>5
<1>7. Wants(r, job[r].parts[i].name)
  BY <1>3, <1>5, JobFields DEF Wants
<1> QED
  BY <1>1, <1>2, <1>5, <1>6, <1>7 DEF Part

\* What a step of r does to the names r saves under costs no other request anything that
\* has a name to itself.
LEMMA OthersPart ==
    ASSUME IInv, NEW r \in Requests, NEW q \in Requests \ {r},
           pc'[q] = pc[q], job'[q] = job[q], part'[q] = part[q], written'[q] = written[q],
           stream'[q] = stream[q], storedParts'[q] = storedParts[q],
           \A p \in Requests : \A n \in Names : Wants(p, n) => Wants(p, n)',
           \A n \in Names : Wants(r, n) \/ (data'[n] = data[n] /\ inode'[n] = inode[n])
    PROVE  PartKept(q)'
<1>0. TypeOK /\ Served /\ PartKept(q)
  BY DEF IInv, PartsKept
<1>1. ASSUME NEW n \in Names, Alone(q, n)'
      PROVE  Alone(q, n) /\ data'[n] = data[n] /\ inode'[n] = inode[n]
  BY <1>1 DEF Alone
<1>2. ASSUME pc[q] \in {"write", "stored"}, Alone(q, Name(q))'
      PROVE  /\ Alone(q, Name(q)) /\ Name(q)' = Name(q)
             /\ data'[Name(q)] = data[Name(q)] /\ inode'[Name(q)] = inode[Name(q)]
  <2>1. PICK n \in Names : n = Name(q)
    BY <1>0, <1>2, CurrentPart
  <2>2. Name(q)' = n
    BY <2>1 DEF Name, ThisPart
  <2>3. Alone(q, n)'
    BY <1>2, <2>2 DEF Alone, Wants
  <2> QED
    BY <1>1, <2>1, <2>2, <2>3
<1>3. Written(q)' = Written(q) /\ Content(q, part[q])' = Content(q, part[q])
  BY DEF Written, Writer, Content
<1>4. pc'[q] = "write" /\ Alone(q, Name(q))' =>
        stream'[q] = inode'[Name(q)'] /\ data'[Name(q)'] = Written(q)'
  BY <1>0, <1>2, <1>3 DEF PartKept
<1>5. pc'[q] = "stored" /\ Alone(q, Name(q))' => data'[Name(q)'] = Content(q, part[q])'
  BY <1>0, <1>2, <1>3 DEF PartKept
<1>6. ASSUME NEW i \in storedParts[q], Alone(q, job[q].parts[i].name)', LastOfName(q, i)
      PROVE  data'[job[q].parts[i].name] = Content(q, i)
  <2>1. PICK n \in Names : n = job[q].parts[i].name
    BY StoredAre
  <2>2. Alone(q, n)'
    BY <1>6, <2>1 DEF Alone, Wants
  <2> QED
    BY <1>0, <1>1, <1>6, <2>1, <2>2 DEF PartKept
<1>7. \A i \in storedParts'[q] :
        Alone(q, job[q].parts[i].name)' /\ LastOfName(q, i)' =>
            data'[job'[q].parts[i].name] = Content(q, i)'
  BY <1>6 DEF LastOfName, Content
<1> QED
  BY <1>4, <1>5, <1>7 DEF PartKept

\* Neither does it cost r itself: the part it is at comes after those it has stored.
LEMMA OwnPart ==
    ASSUME IInv, NEW r \in Requests, job' = job, storedParts'[r] = storedParts[r],
           \/ data' = data
           \/ /\ part[r] \notin storedParts[r]
              /\ \A n \in Names \ {Name(r)} : data'[n] = data[n],
           pc'[r] = "write" /\ Alone(r, Name(r))' =>
                stream'[r] = inode'[Name(r)'] /\ data'[Name(r)'] = Written(r)',
           pc'[r] = "stored" /\ Alone(r, Name(r))' => data'[Name(r)'] = Content(r, part[r])'
    PROVE  PartKept(r)'
<1>0. TypeOK /\ Served /\ PartKept(r)
  BY DEF IInv, PartsKept
<1>1. ASSUME NEW i \in storedParts[r], LastOfName(r, i)
      PROVE  data'[job[r].parts[i].name] = data[job[r].parts[i].name]
  <2>1. CASE data' = data
    BY <2>1
  <2>2. CASE /\ part[r] \notin storedParts[r]
             /\ \A n \in Names \ {Name(r)} : data'[n] = data[n]
    <3>1. i <= part[r] /\ i # part[r] /\ part[r] \in DOMAIN job[r].parts
          /\ i \in Nat /\ part[r] \in Nat
      BY <1>0, <2>2, StoredAre DEF Served, TypeOK
    <3>2. job[r].parts[i].name # Name(r)
      BY <1>1, <3>1 DEF LastOfName, Name, ThisPart
    <3> QED
      BY <2>2, <3>2, StoredAre
  <2> QED
    BY <2>1, <2>2
<1>2. \A n : Alone(r, n)' = Alone(r, n)
  BY DEF Alone, Wants
<1>3. \A i \in storedParts'[r] :
        Alone(r, job[r].parts[i].name)' /\ LastOfName(r, i)' =>
            data'[job'[r].parts[i].name] = Content(r, i)'
  <2> SUFFICES ASSUME NEW i \in storedParts[r],
                      Alone(r, job[r].parts[i].name)', LastOfName(r, i)'
               PROVE  data'[job'[r].parts[i].name] = Content(r, i)'
    OBVIOUS
  <2>1. Alone(r, job[r].parts[i].name) /\ LastOfName(r, i)
    BY DEF Alone, Wants, LastOfName
  <2> QED
    BY <1>0, <1>1, <2>1 DEF PartKept, Content
<1> QED
  BY <1>3 DEF PartKept

LEMMA PartsKeptStep == IInv /\ [Next]_vars => PartsKept'
<1> SUFFICES ASSUME IInv, [Next]_vars PROVE PartsKept'
  OBVIOUS
<1> USE DEF directory, upload, Goto
<1>0. TypeOK /\ Served /\ TextPath /\ StreamsReach /\ HandlesCounted /\ PartsKept
  BY DEF IInv
<1>1. CASE UNCHANGED vars
  BY <1>0, <1>1 DEF vars, PartsKept, PartKept, Alone, Wants, LastOfName, Content, Written,
                    Writer, Name, ThisPart
<1>2. CASE \E r \in Requests : Start(r) \/ Handle(r)
  <2>1. PICK r \in Requests : Start(r) \/ Handle(r)
    BY <1>2
  <2>o. \A q \in Requests \ {r} :
            /\ pc'[q] = pc[q] /\ part'[q] = part[q] /\ storedParts'[q] = storedParts[q]
            /\ written'[q] = written[q] /\ stream'[q] = stream[q] /\ job'[q] = job[q]
    BY <1>0, <2>1 DEF Start, Handle, MakeDir, Lock, WriteChunk, OpenText, CloseText,
       OpenPart, OpenStream, AbandonPart, CloseStream, FieldStore, NextPart, Return,
       Finish, TypeOK
  \* It is enough to look at the names of r, and at what r has stored.
  <2>s. ASSUME \A n \in Names : Wants(r, n) \/ (data'[n] = data[n] /\ inode'[n] = inode[n]),
               job' = job \/ job[r] = NoJob, PartKept(r)'
        PROVE  PartsKept'
    <3>1. \A p \in Requests : \A n \in Names : Wants(p, n) => Wants(p, n)'
      BY <2>o, <2>s DEF Wants
    <3>2. \A q \in Requests \ {r} : PartKept(q)'
      BY <2>o, <2>s, <3>1, OthersPart
    <3> QED
      BY <2>s, <3>2 DEF PartsKept
  \* Most steps leave the directory alone and end in no place that promises anything.
  <2>f. ASSUME UNCHANGED <<directory, job>>, storedParts'[r] = storedParts[r],
               pc'[r] \notin {"write", "stored"}
        PROVE  PartsKept'
    <3>1. PartKept(r)'
      BY <2>f, OwnPart
    <3> QED
      BY <2>f, <2>s, <3>1
  <2>p. pc[r] \notin {"waiting", "part", "return", "done"} =>
            /\ part[r] \notin storedParts[r] /\ Name(r) \in Names /\ Wants(r, Name(r))
    BY <1>0, CurrentPart DEF HandlesCounted, HandleCounted
  <2>t. \A n \in Names : Truncate(Name(r)) /\ n # Name(r) /\ Name(r) \in Names =>
            data'[n] = data[n] /\ inode'[n] = inode[n]
    BY <1>0, TruncateEffect
  <2>2. CASE Start(r)
    <3>1. storedParts[r] = {} /\ job[r] = NoJob
      BY <1>0, <2>2, StoredAre DEF Start, Served
    <3>2. PartKept(r)'
      BY <1>0, <2>2, <3>1 DEF Start, PartKept, TypeOK
    <3> QED
      BY <2>2, <2>s, <3>1, <3>2 DEF Start
  <2>3. CASE MakeDir(r)
    BY <1>0, <2>3, <2>f DEF MakeDir, TypeOK
  <2>4. CASE Lock(r)
    BY <1>0, <2>4, <2>f DEF Lock, TypeOK
  <2>5. CASE WriteChunk(r)
    <3>1. PICK m \in Names : m = Name(r)
      BY <2>5, <2>p DEF WriteChunk
    <3>2. \A n \in Names \ {m} : data'[n] = data[n]
      BY <1>0, <2>5, <3>1 DEF WriteChunk, StreamsReach
    <3>3. /\ job' = job /\ inode' = inode /\ Name(r)' = m /\ stream' = stream
          /\ storedParts' = storedParts /\ pc' = pc /\ pc[r] = "write"
      BY <2>5, <3>1 DEF WriteChunk, Name, ThisPart
    <3>4. ASSUME Alone(r, Name(r))'
          PROVE  stream'[r] = inode'[m] /\ data'[m] = Written(r)'
      <4>1. Alone(r, Name(r))
        BY <3>1, <3>3, <3>4 DEF Alone, Wants
      <4>2. stream[r] = inode[m] /\ data[m] = Written(r)
        BY <1>0, <3>1, <3>3, <4>1 DEF PartsKept, PartKept
      <4>3. data'[m] = [data[m] EXCEPT ![written[r] + 1] = Writer(r)]
        BY <2>5, <4>2 DEF WriteChunk
      <4>4. written[r] \in Nat /\ written'[r] = written[r] + 1 /\ part' = part
        BY <1>0, <2>5 DEF WriteChunk, TypeOK
      <4>5. data'[m] = Written(r)'
        BY <4>2, <4>3, <4>4, ChunkWritten
      <4> QED
        BY <3>3, <4>2, <4>5
    <3>5. PartKept(r)'
      BY <2>p, <3>1, <3>2, <3>3, <3>4, OwnPart
    <3> QED
      BY <2>p, <2>s, <3>1, <3>2, <3>3, <3>5
  <2>6. CASE OpenText(r)
    <3>1. CASE /\ Truncate(Name(r))
               /\ stream' = [stream EXCEPT ![r] = inode'[Name(r)]]
               /\ Goto(r, "write")
      <4>1. /\ job' = job /\ part' = part /\ storedParts' = storedParts
            /\ Name(r)' = Name(r) /\ pc[r] = "open" /\ pc'[r] = "write"
        BY <1>0, <2>6, <3>1 DEF OpenText, Name, ThisPart, TypeOK
      <4>2. data'[Name(r)] = Empty /\ stream'[r] = inode'[Name(r)]
        BY <1>0, <2>p, <3>1, <4>1, TruncateEffect DEF TypeOK
      <4>3. Written(r)' = Empty
        BY <1>0, <2>6 DEF OpenText, TextPath, Written, Empty, Chunks
      <4>4. PartKept(r)'
        BY <2>p, <2>t, <3>1, <4>1, <4>2, <4>3, OwnPart
      <4> QED
        BY <2>p, <2>s, <2>t, <3>1, <4>1, <4>4
    <3>2. CASE Finish(r, "failed") /\ UNCHANGED <<directory, stream>>
      BY <1>0, <2>6, <2>f, <3>2 DEF OpenText, Finish, TypeOK
    <3> QED
      BY <2>6, <3>1, <3>2 DEF OpenText
  <2>7. CASE CloseText(r)
    BY <1>0, <2>7, <2>f DEF CloseText, Finish, TypeOK
  <2>8. CASE OpenPart(r)
    <3>1. CASE Truncate(Name(r)) /\ Goto(r, "stream")
      <4>1. job' = job /\ storedParts' = storedParts /\ pc[r] = "open" /\ pc'[r] = "stream"
        BY <1>0, <2>8, <3>1 DEF OpenPart, TypeOK
      <4>2. PartKept(r)'
        BY <2>p, <2>t, <3>1, <4>1, OwnPart
      <4> QED
        BY <2>p, <2>s, <2>t, <3>1, <4>1, <4>2
    <3>2. CASE Goto(r, "return") /\ UNCHANGED directory
      BY <1>0, <2>8, <2>f, <3>2 DEF OpenPart, TypeOK
    <3> QED
      BY <2>8, <3>1, <3>2 DEF OpenPart
  <2>9. CASE OpenStream(r)
    <3>1. CASE /\ Truncate(Name(r))
               /\ stream' = [stream EXCEPT ![r] = inode'[Name(r)]]
               /\ Goto(r, "write")
      <4>1. /\ job' = job /\ part' = part /\ storedParts' = storedParts
            /\ Name(r)' = Name(r) /\ pc[r] = "stream" /\ pc'[r] = "write"
        BY <1>0, <2>9, <3>1 DEF OpenStream, Name, ThisPart, TypeOK
      <4>2. data'[Name(r)] = Empty /\ stream'[r] = inode'[Name(r)]
        BY <1>0, <2>p, <3>1, <4>1, TruncateEffect DEF TypeOK
      <4>3. Written(r)' = Empty
        <5>1. written'[r] = 0
          BY <1>0, <2>9 DEF OpenStream, TypeOK
        <5> QED
          BY <5>1 DEF Written, Empty, Chunks
      <4>4. PartKept(r)'
        BY <2>p, <2>t, <3>1, <4>1, <4>2, <4>3, OwnPart
      <4> QED
        BY <2>p, <2>s, <2>t, <3>1, <4>1, <4>4
    <3>2. CASE Goto(r, "part") /\ UNCHANGED <<directory, stream>>
      BY <1>0, <2>9, <2>f, <3>2 DEF OpenStream, TypeOK
    <3> QED
      BY <2>9, <3>1, <3>2 DEF OpenStream
  <2>10. CASE AbandonPart(r)
    <3>1. \A n \in Names \ {Name(r)} : data'[n] = data[n] /\ inode'[n] = inode[n]
      BY <1>0, <2>10 DEF AbandonPart, RemovePath, TypeOK
    <3>2. job' = job /\ storedParts' = storedParts /\ pc[r] = "write"
          /\ pc'[r] \in {"part", "return"}
      BY <1>0, <2>10 DEF AbandonPart, TypeOK
    <3>3. PartKept(r)'
      BY <2>p, <3>1, <3>2, OwnPart
    <3> QED
      BY <2>p, <2>s, <3>1, <3>2, <3>3
  \* The stream has written all of the part.
  <2>11. CASE CloseStream(r)
    <3>1. /\ UNCHANGED <<directory, job, part, storedParts>> /\ Name(r)' = Name(r)
          /\ pc[r] = "write" /\ pc'[r] = "stored" /\ written[r] = ThisPart(r).size
      BY <1>0, <2>11 DEF CloseStream, Name, ThisPart, TypeOK
    <3>2. Alone(r, Name(r))' => Alone(r, Name(r))
      BY <3>1 DEF Alone, Wants
    <3>3. Written(r) = Content(r, part[r]) /\ Content(r, part[r])' = Content(r, part[r])
      BY <3>1 DEF Written, Writer, Content, ThisPart
    <3>4. PartKept(r)'
      <4>1. Alone(r, Name(r))' => data'[Name(r)'] = Content(r, part[r])'
        BY <1>0, <3>1, <3>2, <3>3 DEF PartsKept, PartKept
      <4> QED
        BY <3>1, <4>1, OwnPart
    <3> QED
      BY <2>s, <3>1, <3>4
  <2>12. CASE FieldStore(r)
    <3>1. /\ UNCHANGED <<directory, job, part>> /\ pc[r] = "stored" /\ pc'[r] = "part"
          /\ storedParts'[r] = storedParts[r] \cup {part[r]}
      BY <1>0, <2>12 DEF FieldStore, TypeOK
    <3>2. ASSUME NEW i \in storedParts'[r],
                 Alone(r, job[r].parts[i].name), LastOfName(r, i)
          PROVE  data[job[r].parts[i].name] = Content(r, i)
      <4>1. CASE i = part[r]
        BY <1>0, <3>1, <3>2, <4>1 DEF PartsKept, PartKept, Name, ThisPart
      <4>2. CASE i \in storedParts[r]
        BY <1>0, <3>2, <4>2 DEF PartsKept, PartKept
      <4> QED
        BY <3>1, <4>1, <4>2
    <3>3. PartKept(r)'
      BY <3>1, <3>2 DEF PartKept, Alone, Wants, LastOfName, Content
    <3> QED
      BY <2>s, <3>1, <3>3
  <2>13. CASE NextPart(r)
    BY <1>0, <2>13, <2>f DEF NextPart, TypeOK
  <2>14. CASE Return(r)
    BY <1>0, <2>14, <2>f DEF Return, Finish, TypeOK
  <2> QED
    BY <2>1, <2>2, <2>3, <2>4, <2>5, <2>6, <2>7, <2>8, <2>9, <2>10, <2>11, <2>12,
       <2>13, <2>14 DEF Handle
<1> QED
  BY <1>1, <1>2 DEF Next, Idle

--------------------------------------------------------------------------------
(***************************************************************************)
(* The theorems.                                                           *)
(***************************************************************************)

\* The inductive invariant holds in every state the saves can reach.
THEOREM Invariance == Spec => []IInv
<1>1. IInv /\ [Next]_vars => IInv'
  BY TypeStep, ControlStep, StreamsReachStep, TextFilesStep, HandlesStep,
     PartsKeptStep DEF IInv
<1> QED
  BY InitialInvariant, <1>1, PTL DEF Spec

\* Every variable keeps its type.
THEOREM TypeInvariant == Spec => []TypeOK
<1>1. IInv => TypeOK
  BY DEF IInv
<1> QED
  BY Invariance, <1>1, PTL

\* However many texts save_text_to_file saves at once, a file that only texts are saved
\* to has, when they are done, what one of those reported saved has written, and no other.
THEOREM TextFilesIntactInvariant == Spec => []TextFilesIntact
<1>1. IInv => TextFilesIntact
  <2> SUFFICES ASSUME IInv, NEW n \in Names, inode[n] # 0,
                      \A r \in Requests :
                          Wants(r, n) => job[r].handler = "send" /\ ~ AtWork(r)
               PROVE  \E r \in Requests : SavedText(r, n)
    BY DEF TextFilesIntact, SavedText
  <2>1. OnlyTexts(n)
    BY DEF OnlyTexts
  <2>2. \A r \in Requests : ~ Writing(r, n)
    BY CurrentPart DEF IInv, Writing, AtWork
  <2> QED
    BY <2>1, <2>2 DEF IInv, TextFiles, TextFile
<1> QED
  BY Invariance, <1>1, PTL

\* And it is one whole text, if no fputs or fclose of a text failed.
TextFilesWhole ==
    \A n \in Names :
        (/\ inode[n] # 0
         /\ \A r \in Requests :
                Wants(r, n) => job[r].handler = "send" /\ ~ AtWork(r))
        => IntactFile(n)

\* The file a text is saved to is short only through a failure nobody notices.
THEOREM TextFilesWholeInvariant == "text" \notin Faults => (Spec => []TextFilesWhole)
<1> SUFFICES ASSUME "text" \notin Faults
             PROVE  Spec => []TextFilesWhole
  OBVIOUS
<1>1. IInv => TextFilesWhole
  <2> SUFFICES ASSUME IInv, NEW n \in Names, inode[n] # 0,
                      \A r \in Requests :
                          Wants(r, n) => job[r].handler = "send" /\ ~ AtWork(r)
               PROVE  IntactFile(n)
    BY DEF TextFilesWhole
  <2>1. OnlyTexts(n)
    BY DEF OnlyTexts
  <2>2. \A r \in Requests : ~ Writing(r, n)
    BY CurrentPart DEF IInv, Writing, AtWork
  <2>3. PICK r \in Requests : SavedText(r, n)
    BY <2>1, <2>2 DEF IInv, TextFiles, TextFile
  <2>4. data[n] = Content(r, part[r])
    BY <2>3 DEF SavedText, Written, Writer, Content, ThisPart
  <2>5. part[r] \in DOMAIN job[r].parts
    BY <2>3 DEF SavedText, Wants, IInv, Served
  <2> QED
    BY <2>3, <2>4, <2>5 DEF SavedText, IntactFile
<1> QED
  BY Invariance, <1>1, PTL

\* Whatever fails, a handler returns with its file closed, its stream closed and the mutex
\* free, and loses a file handle only to a part CivetWeb skipped.
THEOREM NothingLeftOpenInvariant == Spec => []NothingLeftOpen
<1>1. IInv => NothingLeftOpen
  BY DEF IInv, HandlesCounted, HandleCounted, StreamsReach, MutexHeld, NothingLeftOpen
<1> QED
  BY Invariance, <1>1, PTL

\* What was reported stored stays on disk, unless its name is given away: by another
\* request, or by a later part of the same form.
THEOREM StoredPartsInvariant == Spec => []StoredPartsKept
<1>1. IInv => StoredPartsKept
  BY DEF IInv, PartsKept, PartKept, Alone, LastOfName, StoredPartsKept
<1> QED
  BY Invariance, <1>1, PTL

--------------------------------------------------------------------------------
(***************************************************************************)
(* Where FilesIntact does hold.  The mutex does not cover what CivetWeb    *)
(* streams, so files of one name mix; but a name that one request only     *)
(* saves under has one complete text or part when that request is done,    *)
(* unless fputs or fclose failed for a text, or CivetWeb could not open    *)
(* the path the server had just truncated, which leaves an empty file.     *)
(***************************************************************************)
FilesOfOneIntact ==
    \A n \in Names : \A r \in Requests :
        inode[n] # 0 /\ Wants(r, n) /\ Alone(r, n) /\ ~ AtWork(r) => IntactFile(n)

\* r has truncated the file called n, and not yet written all of it.
Underway(r, n) == pc[r] \in {"stream", "write"} /\ Name(r) = n

\* A file has somebody who wants it; one that wants it alone, and is not at it, has left
\* one of its parts there.
OwnFile(n) ==
    inode[n] # 0 =>
        /\ \E r \in Requests : Wants(r, n)
        /\ \A r \in Requests :
            Wants(r, n) /\ Alone(r, n) /\ ~ Underway(r, n) =>
                \E i \in DOMAIN job[r].parts : data[n] = Content(r, i)

OwnFiles == \A n \in Names : OwnFile(n)

\* A step of r, once it has its job, leaves a file alone, removes it, is at it, or has
\* just completed it.
LEMMA OwnFileStep ==
    ASSUME NEW r \in Requests, NEW n \in Names, OwnFile(n), job' = job,
           \A q \in Requests \ {r} : pc'[q] = pc[q] /\ part'[q] = part[q],
           \/ /\ inode'[n] = inode[n] /\ data'[n] = data[n]
              /\ Underway(r, n) => Underway(r, n)'
           \/ inode'[n] = 0
           \/ Wants(r, n) /\ Underway(r, n)'
           \/ /\ inode'[n] = inode[n] /\ data'[n] = data[n]
              /\ Wants(r, n)
              /\ Alone(r, n) => \E i \in DOMAIN job[r].parts : data[n] = Content(r, i)
    PROVE  OwnFile(n)'
<1>1. \A q \in Requests : Wants(q, n)' = Wants(q, n) /\ Alone(q, n)' = Alone(q, n)
  BY DEF Wants, Alone
<1>2. \A q, i : Content(q, i)' = Content(q, i)
  BY DEF Content
<1>3. \A q \in Requests \ {r} : Underway(q, n)' = Underway(q, n)
  BY DEF Underway, Name, ThisPart
<1>4. CASE /\ inode'[n] = inode[n] /\ data'[n] = data[n]
           /\ Underway(r, n) => Underway(r, n)'
  BY <1>1, <1>2, <1>3, <1>4 DEF OwnFile
<1>5. CASE inode'[n] = 0
  BY <1>5 DEF OwnFile
<1>6. CASE Wants(r, n) /\ Underway(r, n)'
  <2>1. \A q \in Requests \ {r} : ~ Alone(q, n)
    BY <1>6 DEF Alone
  <2> QED
    BY <1>1, <1>6, <2>1 DEF OwnFile
<1>7. CASE /\ inode'[n] = inode[n] /\ data'[n] = data[n]
           /\ Wants(r, n)
           /\ Alone(r, n) => \E i \in DOMAIN job[r].parts : data[n] = Content(r, i)
  <2>1. \A q \in Requests \ {r} : ~ Alone(q, n)
    BY <1>7 DEF Alone
  <2> QED
    BY <1>1, <1>2, <1>7, <2>1 DEF OwnFile
<1> QED
  BY <1>4, <1>5, <1>6, <1>7

\* A request that arrives wants files that others made, or that nobody made yet.
LEMMA OwnFileStart ==
    ASSUME TypeOK, Served, NEW r \in Requests, Start(r), NEW n \in Names, OwnFile(n)
    PROVE  OwnFile(n)'
<1>1. job[r] = NoJob /\ ~ Wants(r, n)
  BY DEF Start, Served, Wants
<1>2. \A q \in Requests \ {r} : job'[q] = job[q] /\ pc'[q] = pc[q] /\ part'[q] = part[q]
  BY DEF Start, Goto, TypeOK
<1>3. \A q \in Requests \ {r} : /\ Wants(q, n)' = Wants(q, n)
                                /\ Underway(q, n)' = Underway(q, n)
                                /\ \A i : Content(q, i)' = Content(q, i)
  BY <1>2 DEF Wants, Underway, Name, ThisPart, Content
<1>4. inode'[n] = inode[n] /\ data'[n] = data[n]
  BY DEF Start, directory
<1>5. ASSUME inode[n] # 0
      PROVE  OwnFile(n)'
  <2>1. PICK p \in Requests : Wants(p, n)
    BY <1>5 DEF OwnFile
  <2>2. p # r /\ Wants(p, n)'
    BY <1>1, <1>3, <2>1
  <2>3. ~ Alone(r, n)'
    BY <2>2 DEF Alone
  <2>4. ASSUME NEW q \in Requests \ {r}, Wants(q, n)', Alone(q, n)', ~ Underway(q, n)'
        PROVE  \E i \in DOMAIN job'[q].parts : data'[n] = Content(q, i)'
    <3>1. Wants(q, n) /\ ~ Underway(q, n) /\ Alone(q, n)
      BY <1>1, <1>3, <2>4 DEF Alone
    <3>2. PICK i \in DOMAIN job[q].parts : data[n] = Content(q, i)
      BY <1>5, <3>1 DEF OwnFile
    <3> QED
      BY <1>2, <1>3, <1>4, <3>2
  <2> QED
    BY <2>2, <2>3, <2>4 DEF OwnFile
<1> QED
  BY <1>4, <1>5 DEF OwnFile

LEMMA OwnFilesStep ==
    ASSUME {"text", "stream"} \cap Faults = {}, IInv, OwnFiles, [Next]_vars
    PROVE  OwnFiles'
<1> USE DEF directory, upload, Goto
<1>0. TypeOK /\ Served /\ TextPath /\ StreamsReach /\ PartsKept
  BY DEF IInv
<1>1. CASE UNCHANGED vars
  BY <1>1 DEF vars, OwnFiles, OwnFile, Wants, Alone, Underway, Name, ThisPart, Content
<1>2. ASSUME NEW r \in Requests, Start(r)
      PROVE  OwnFiles'
  BY <1>0, <1>2, OwnFileStart DEF OwnFiles
<1>3. ASSUME NEW r \in Requests, Handle(r), NEW n \in Names
      PROVE  OwnFile(n)'
  <2>1. OwnFile(n)
    BY DEF OwnFiles
  <2>2. /\ job' = job
        /\ \A q \in Requests \ {r} : pc'[q] = pc[q] /\ part'[q] = part[q]
    BY <1>0, <1>3 DEF Handle, MakeDir, Lock, WriteChunk, OpenText, CloseText, OpenPart,
                      OpenStream, AbandonPart, CloseStream, FieldStore, NextPart, Return,
                      Finish, TypeOK
  <2>3. pc[r] # "waiting" /\ Name(r) \in Names /\ Wants(r, Name(r))
    <3>1. pc[r] # "waiting"
      BY <1>3 DEF Handle, MakeDir, Lock, WriteChunk, OpenText, CloseText, OpenPart,
                  OpenStream, AbandonPart, CloseStream, FieldStore, NextPart, Return
    <3> QED
      BY <1>0, <3>1, CurrentPart
  \* A step that leaves the directory alone and is not at the file.
  <2>4. ASSUME inode' = inode, data' = data, ~ Underway(r, n)
        PROVE  OwnFile(n)'
    BY <2>1, <2>2, <2>4, OwnFileStep
  \* A step that truncates the file of this part.
  <2>5. ASSUME Truncate(Name(r)), pc'[r] \in {"stream", "write"}, part' = part,
               n # Name(r) => ~ Underway(r, n)
        PROVE  OwnFile(n)'
    <3>1. CASE n = Name(r)
      <4>1. Underway(r, n)'
        BY <2>2, <2>5, <3>1 DEF Underway, Name, ThisPart
      <4> QED
        BY <2>1, <2>2, <2>3, <3>1, <4>1, OwnFileStep
    <3>2. CASE n # Name(r)
      <4>1. inode'[n] = inode[n] /\ data'[n] = data[n]
        BY <1>0, <2>3, <2>5, <3>2, TruncateEffect
      <4> QED
        BY <2>1, <2>2, <2>5, <3>2, <4>1, OwnFileStep
    <3> QED
      BY <3>1, <3>2
  \* A step that ends the writing of this part: all of it is there.
  <2>6. ASSUME inode' = inode, data' = data, pc[r] = "write",
               written[r] = ThisPart(r).size
        PROVE  OwnFile(n)'
    <3>1. CASE n = Name(r)
      <4>1. ASSUME Alone(r, n)
            PROVE  \E i \in DOMAIN job[r].parts : data[n] = Content(r, i)
        <5>1. data[n] = Written(r)
          BY <1>0, <2>6, <3>1, <4>1 DEF PartsKept, PartKept
        <5>2. Written(r) = Content(r, part[r])
          BY <2>6 DEF Written, Content, Writer, ThisPart
        <5>3. part[r] \in DOMAIN job[r].parts
          BY <1>0, <2>3 DEF Served
        <5> QED
          BY <5>1, <5>2, <5>3
      <4> QED
        BY <2>1, <2>2, <2>3, <2>6, <3>1, <4>1, OwnFileStep
    <3>2. CASE n # Name(r)
      BY <2>4, <2>6, <3>2 DEF Underway
    <3> QED
      BY <3>1, <3>2
  <2>7. CASE MakeDir(r) \/ Lock(r) \/ FieldStore(r) \/ NextPart(r) \/ Return(r)
    BY <2>4, <2>7 DEF MakeDir, Lock, FieldStore, NextPart, Return, Underway
  <2>8. CASE WriteChunk(r)
    <3>1. inode' = inode /\ part' = part /\ pc' = pc /\ pc[r] = "write"
      BY <2>8 DEF WriteChunk
    <3>2. Underway(r, n)' = Underway(r, n)
      BY <2>2, <3>1 DEF Underway, Name, ThisPart
    <3>3. CASE n = Name(r)
      <4>1. Underway(r, n)'
        BY <3>1, <3>2, <3>3 DEF Underway
      <4> QED
        BY <2>1, <2>2, <2>3, <3>3, <4>1, OwnFileStep
    <3>4. CASE n # Name(r)
      <4>1. inode[n] # stream[r]
        BY <1>0, <3>1, <3>4 DEF StreamsReach
      <4>2. data'[n] = data[n]
        BY <2>8, <4>1 DEF WriteChunk
      <4> QED
        BY <2>1, <2>2, <3>1, <3>2, <4>2, OwnFileStep
    <3> QED
      BY <3>3, <3>4
  <2>9. CASE OpenText(r)
    <3>1. CASE Truncate(Name(r)) /\ Goto(r, "write")
      BY <1>0, <2>5, <2>9, <3>1 DEF OpenText, Underway, TypeOK
    <3>2. CASE UNCHANGED <<directory, stream>>
      BY <2>4, <2>9, <3>2 DEF OpenText, Underway
    <3> QED
      BY <2>9, <3>1, <3>2 DEF OpenText
  <2>10. CASE OpenPart(r)
    <3>1. CASE Truncate(Name(r)) /\ Goto(r, "stream")
      BY <1>0, <2>5, <2>10, <3>1 DEF OpenPart, Underway, TypeOK
    <3>2. CASE UNCHANGED directory
      BY <2>4, <2>10, <3>2 DEF OpenPart, Underway
    <3> QED
      BY <2>10, <3>1, <3>2 DEF OpenPart
  <2>11. CASE OpenStream(r)
    <3>1. Truncate(Name(r)) /\ Goto(r, "write") /\ part' = part
      BY <2>11 DEF OpenStream
    <3> QED
      BY <1>0, <2>5, <3>1 DEF Underway, TypeOK
  <2>12. CASE AbandonPart(r)
    <3>1. /\ inode'[Name(r)] = 0
          /\ \A m \in Names \ {Name(r)} : inode'[m] = inode[m] /\ data'[m] = data[m]
      BY <1>0, <2>3, <2>12 DEF AbandonPart, RemovePath, TypeOK
    <3>2. n # Name(r) => ~ Underway(r, n)
      BY DEF Underway
    <3> QED
      BY <2>1, <2>2, <3>1, <3>2, OwnFileStep
  <2>13. CASE CloseText(r) \/ CloseStream(r)
    BY <2>6, <2>13 DEF CloseText, CloseStream
  <2> QED
    BY <1>3, <2>7, <2>8, <2>9, <2>10, <2>11, <2>12, <2>13 DEF Handle
<1>4. ASSUME NEW r \in Requests, Handle(r)
      PROVE  OwnFiles'
  BY <1>3, <1>4 DEF OwnFiles
<1> QED
  BY <1>1, <1>2, <1>4 DEF Next, Idle

\* A file that one request only saves is complete when that request is done, whatever else
\* is saved beside it and whichever clients are lost.
THEOREM FilesOfOne == {"text", "stream"} \cap Faults = {} => (Spec => []FilesOfOneIntact)
<1> SUFFICES ASSUME {"text", "stream"} \cap Faults = {}
             PROVE  Spec => []FilesOfOneIntact
  OBVIOUS
<1>1. Init => OwnFiles
  BY DEF Init, OwnFiles, OwnFile
<1>2. IInv /\ OwnFiles /\ [Next]_vars => OwnFiles'
  BY OwnFilesStep
<1>3. OwnFiles => FilesOfOneIntact
  BY DEF OwnFiles, OwnFile, FilesOfOneIntact, Underway, AtWork, IntactFile
<1> QED
  BY <1>1, <1>2, <1>3, Invariance, PTL DEF Spec

--------------------------------------------------------------------------------
(***************************************************************************)
(* What the handlers say of a file.  They notice few failures, so a 200    *)
(* can be wrong about one (run handlers_not_stored of RequestHandlers);    *)
(* but only where fopen, a write or a close fails, and only about a name   *)
(* that somebody else saves under too.                                     *)
(***************************************************************************)

\* A request answered "File saved" or "File(s) received" has every text and part of its
\* own name on disk, in full.
ReportedOnDisk ==
    \A r \in Requests : outcome[r] \in {"saved", "received"} =>
        \A i \in DOMAIN job[r].parts :
            Alone(r, job[r].parts[i].name) /\ LastOfName(r, i) =>
                data[job[r].parts[i].name] = Content(r, i)

\* An upload has stored the parts it has passed; a saved text is in its file.
Reported(r) ==
    /\ pc[r] # "waiting" /\ job[r].handler = "upload" /\ outcome[r] # "failed" =>
        /\ outcome[r] # "saved"
        /\ 1 .. part[r] - 1 \subseteq storedParts[r]
        /\ pc[r] \in {"part", "return", "done"} => part[r] \in storedParts[r]
        /\ pc[r] \in {"return", "done"} => part[r] = Len(job[r].parts)
    /\ outcome[r] = "received" => pc[r] = "done" /\ job[r].handler = "upload"
    /\ outcome[r] = "saved" /\ Alone(r, Name(r)) => data[Name(r)] = Content(r, part[r])

AllReported == \A r \in Requests : Reported(r)

\* A request does not touch what another reports of a name of its own.
LEMMA ReportedByOthers ==
    ASSUME IInv, NEW r \in Requests, NEW q \in Requests \ {r}, Reported(q),
           pc'[q] = pc[q], job'[q] = job[q], part'[q] = part[q],
           storedParts'[q] = storedParts[q], outcome'[q] = outcome[q],
           \A n \in Names : Wants(r, n) => Wants(r, n)',
           \A p \in Requests \ {r} : job'[p] = job[p],
           \A n \in Names : Wants(r, n) \/ data'[n] = data[n]
    PROVE  Reported(q)'
<1>0. TypeOK /\ Served /\ TextPath
  BY DEF IInv
<1>1. Name(q)' = Name(q) /\ Content(q, part[q])' = Content(q, part[q])
  BY DEF Name, ThisPart, Content
<1>2. ASSUME outcome[q] = "saved", Alone(q, Name(q))'
      PROVE  data'[Name(q)] = Content(q, part[q])
  <2>1. pc[q] # "waiting"
    BY <1>0, <1>2 DEF TextPath
  <2>2. PICK n \in Names : n = Name(q)
    BY <1>0, <2>1, CurrentPart
  <2>3. \A p \in Requests \ {q} : ~ Wants(p, n)'
    BY <1>1, <1>2, <2>2 DEF Alone
  <2>4. \A p \in Requests \ {q} : ~ Wants(p, n)
    BY <2>3 DEF Wants
  <2>5. data'[n] = data[n] /\ Alone(q, n)
    BY <2>4 DEF Alone
  <2> QED
    BY <1>2, <2>2, <2>5 DEF Reported
<1> QED
  BY <1>1, <1>2 DEF Reported

LEMMA AllReportedStep ==
    ASSUME {"open", "text", "stream"} \cap Faults = {}, IInv, AllReported, [Next]_vars
    PROVE  AllReported'
<1> USE DEF directory, upload, Goto
<1>0. TypeOK /\ Served /\ TextPath /\ StreamsReach /\ PartsKept
  BY DEF IInv
<1>1. CASE UNCHANGED vars
  BY <1>1 DEF vars, AllReported, Reported, Alone, Wants, Name, ThisPart, Content
<1>2. ASSUME NEW r \in Requests, Start(r) \/ Handle(r)
      PROVE  AllReported'
  <2>1. \A q \in Requests \ {r} :
            /\ pc'[q] = pc[q] /\ part'[q] = part[q] /\ storedParts'[q] = storedParts[q]
            /\ outcome'[q] = outcome[q] /\ job'[q] = job[q]
    BY <1>0, <1>2 DEF Start, Handle, MakeDir, Lock, WriteChunk, OpenText, CloseText,
       OpenPart, OpenStream, AbandonPart, CloseStream, FieldStore, NextPart, Return,
       Finish, TypeOK
  <2>2. \A n \in Names : Wants(r, n) => Wants(r, n)'
    BY <1>0, <1>2 DEF Start, Handle, MakeDir, Lock, WriteChunk, OpenText, CloseText,
       OpenPart, OpenStream, AbandonPart, CloseStream, FieldStore, NextPart, Return,
       Served, Wants
  \* r changes the file of the part it is at, if any.
  <2>3. \A n \in Names : Wants(r, n) \/ data'[n] = data[n]
    <3>1. CASE UNCHANGED directory
      BY <3>1
    <3>2. ASSUME pc[r] # "waiting", \A n \in Names : n # Name(r) => data'[n] = data[n]
          PROVE  \A n \in Names : Wants(r, n) \/ data'[n] = data[n]
      BY <1>0, <3>2, CurrentPart
    <3>3. CASE pc[r] # "waiting" /\ Truncate(Name(r))
      <4>1. Name(r) \in Names
        BY <1>0, <3>3, CurrentPart
      <4> QED
        BY <1>0, <3>2, <3>3, <4>1, TruncateEffect
    <3>4. CASE WriteChunk(r)
      <4>1. \A n \in Names : n # Name(r) => inode[n] # stream[r]
        BY <1>0, <3>4 DEF WriteChunk, StreamsReach
      <4> QED
        BY <3>2, <3>4, <4>1 DEF WriteChunk
    <3>5. CASE AbandonPart(r)
      BY <1>0, <3>2, <3>5 DEF AbandonPart, RemovePath, TypeOK
    <3> QED
      BY <1>2, <3>1, <3>3, <3>4, <3>5 DEF Start, Handle, MakeDir, Lock, OpenText, CloseText,
         OpenPart, OpenStream, CloseStream, FieldStore, NextPart, Return
  <2>4. ASSUME NEW q \in Requests \ {r} PROVE Reported(q)'
    BY <2>1, <2>2, <2>3, ReportedByOthers DEF AllReported
  <2>5. Reported(r)'
    <3>0. Reported(r)
      BY DEF AllReported
    \* A step that ends in no report and passes no part.
    <3>1. ASSUME job' = job, part' = part, storedParts' = storedParts, outcome' = outcome,
                 pc[r] \notin {"waiting", "done", "part", "return"},
                 pc'[r] \notin {"waiting", "done", "part", "return"}
          PROVE  Reported(r)'
      <4>1. outcome[r] \notin {"saved", "received"}
        BY <1>0, <3>0, <3>1 DEF TextPath, Reported
      <4> QED
        BY <3>0, <3>1, <4>1 DEF Reported
    <3>2. CASE Start(r)
      <4>1. /\ pc[r] = "waiting" /\ pc'[r] = "mkdir" /\ part[r] = 1 /\ part' = part
            /\ outcome' = outcome
        BY <1>0, <3>2 DEF Start, Served, TypeOK
      <4>2. outcome[r] \notin {"saved", "received"}
        BY <1>0, <3>0, <4>1 DEF TextPath, Reported
      <4> QED
        BY <4>1, <4>2 DEF Reported
    <3>3. CASE MakeDir(r) \/ Lock(r) \/ WriteChunk(r) \/ CloseStream(r)
      BY <1>0, <3>1, <3>3 DEF MakeDir, Lock, WriteChunk, CloseStream, TypeOK
    <3>4. CASE OpenText(r) \/ OpenPart(r) \/ OpenStream(r)
      BY <1>0, <3>1, <3>4 DEF OpenText, OpenPart, OpenStream, TypeOK
    <3>5. CASE CloseText(r)
      <4>1. /\ UNCHANGED <<job, part, directory>> /\ outcome'[r] = "saved"
            /\ pc[r] = "write" /\ job[r].handler = "send" /\ written[r] = ThisPart(r).size
        BY <1>0, <3>5 DEF CloseText, Finish, TypeOK
      <4>2. Alone(r, Name(r)) => data[Name(r)] = Content(r, part[r])
        BY <1>0, <4>1 DEF PartsKept, PartKept, Written, Writer, Content, ThisPart
      <4> QED
        BY <4>1, <4>2 DEF Reported, Alone, Wants, Name, ThisPart, Content
    <3>6. CASE AbandonPart(r)
      <4>1. outcome'[r] = "failed"
        BY <1>0, <3>6 DEF AbandonPart, TypeOK
      <4> QED
        BY <4>1 DEF Reported
    <3>7. CASE FieldStore(r)
      <4>1. /\ UNCHANGED <<job, part, outcome>> /\ pc[r] = "stored" /\ pc'[r] = "part"
            /\ storedParts'[r] = storedParts[r] \cup {part[r]}
        BY <1>0, <3>7 DEF FieldStore, TypeOK
      <4>2. outcome[r] \notin {"saved", "received"}
        BY <1>0, <3>0, <4>1 DEF TextPath, Reported
      <4> QED
        BY <3>0, <4>1, <4>2 DEF Reported
    <3>8. CASE NextPart(r)
      <4>1. /\ UNCHANGED <<job, storedParts, outcome>> /\ pc[r] = "part"
            /\ \/ /\ part'[r] = part[r] + 1 /\ pc'[r] = "mkdir"
               \/ /\ part'[r] = part[r] /\ part[r] = Len(job[r].parts) /\ pc'[r] = "return"
        BY <1>0, <3>8 DEF NextPart, TypeOK
      <4>2. outcome[r] \notin {"saved", "received"}
        BY <1>0, <3>0, <4>1 DEF TextPath, Reported
      <4>3. part[r] \in Nat \ {0}
        BY <1>0 DEF TypeOK
      <4> QED
        BY <3>0, <4>1, <4>2, <4>3 DEF Reported
    <3>9. CASE Return(r)
      <4>1. /\ UNCHANGED <<job, part, storedParts>> /\ pc[r] = "return" /\ pc'[r] = "done"
            /\ outcome'[r] = IF outcome[r] = "failed" THEN "failed" ELSE "received"
        BY <1>0, <3>9 DEF Return, Finish, TypeOK
      <4>2. job[r].handler = "upload"
        BY <1>0, <4>1, CurrentPart, JobFields DEF TextPath
      <4> QED
        BY <3>0, <4>1, <4>2 DEF Reported
    <3> QED
      BY <1>2, <3>2, <3>3, <3>4, <3>5, <3>6, <3>7, <3>8, <3>9 DEF Handle
  <2> QED
    BY <2>4, <2>5 DEF AllReported
<1> QED
  BY <1>1, <1>2 DEF Next, Idle

\* Unless an open, a write or a close of a file fails, a 200 that speaks of files tells the
\* truth of every name its request has to itself, lost clients and other saves aside.
THEOREM ReportedOnDiskInvariant ==
    {"open", "text", "stream"} \cap Faults = {} => (Spec => []ReportedOnDisk)
<1> SUFFICES ASSUME {"open", "text", "stream"} \cap Faults = {}
             PROVE  Spec => []ReportedOnDisk
  OBVIOUS
<1>1. Init => AllReported
  BY DEF Init, AllReported, Reported
<1>2. IInv /\ AllReported /\ [Next]_vars => AllReported'
  BY AllReportedStep
<1>3. IInv /\ AllReported => ReportedOnDisk
  <2> SUFFICES ASSUME IInv, AllReported, NEW r \in Requests,
                      outcome[r] \in {"saved", "received"}, NEW i \in DOMAIN job[r].parts,
                      Alone(r, job[r].parts[i].name), LastOfName(r, i)
               PROVE  data[job[r].parts[i].name] = Content(r, i)
    BY DEF ReportedOnDisk
  <2>0. TypeOK /\ Served /\ TextPath /\ PartKept(r) /\ Reported(r)
    BY DEF IInv, AllReported, PartsKept
  <2>1. pc[r] = "done"
    BY <2>0 DEF TextPath, Reported
  <2>2. job[r] \in Jobs /\ part[r] \in DOMAIN job[r].parts
    BY <2>0, <2>1, CurrentPart DEF Served
  <2>3. CASE outcome[r] = "saved"
    <3>1. job[r].handler = "send"
      BY <2>0, <2>1, <2>2, <2>3, JobFields DEF Reported
    <3>2. i = part[r]
      BY <2>2, <3>1, JobFields
    <3> QED
      BY <2>0, <2>3, <3>2 DEF Reported, Name, ThisPart
  <2>4. CASE outcome[r] = "received"
    <3>1. /\ part[r] = Len(job[r].parts) /\ part[r] \in storedParts[r]
          /\ 1 .. part[r] - 1 \subseteq storedParts[r]
      BY <2>0, <2>1, <2>4 DEF Reported
    <3>2. i \in 1 .. Len(job[r].parts) /\ Len(job[r].parts) \in Nat
      BY <2>2, JobFields
    <3>3. i \in storedParts[r]
      BY <3>1, <3>2
    <3> QED
      BY <2>0, <3>3 DEF PartKept
  <2> QED
    BY <2>3, <2>4
<1> QED
  BY <1>1, <1>2, <1>3, Invariance, PTL DEF Spec
================================================================================
