----------------------------- MODULE SaveDirectory -----------------------------
(***************************************************************************)
(* SAVE_DIR: the files that /api/send (save_text_to_file) and /api/upload  *)
(* (on_field_found, CivetWeb's form parser, on_field_store) write there,   *)
(* and mtx_fprint, the mutex that Server.c:61 says serialises all writes   *)
(* to the file system.                                                     *)
(*                                                                         *)
(* A text is opened, written and closed under the mutex.  For a file part  *)
(* the server opens the path itself (u->fp, never written to) under the    *)
(* mutex; CivetWeb then opens the same path again and streams the part     *)
(* into it without any lock.  Both opens truncate.                         *)
(*                                                                         *)
(* File names are those sanitize_filename returns.  A file's data is who   *)
(* wrote each chunk: a writer is <<r, i>>, part i of request r.            *)
(***************************************************************************)
EXTENDS Integers, Sequences, FiniteSets

CONSTANTS
    Requests,    \* requests that save something
    Names,       \* sanitised file names
    MaxChunks,   \* bound: the longest text or part, in chunks
    Jobs,        \* what requests may ask: a subset of JobSpace
    Faults,      \* what may fail by itself: a subset of FaultKinds
    NoRequest,   \* mtx_fprint is free
    NoJob,       \* the request has not arrived
    Nobody       \* nothing was written to this chunk

Part == [name: Names, size: 1 .. MaxChunks]

\* A text is one part; an upload is a form of file parts.
JobSpace == [handler: {"send", "upload"}, parts: Seq(Part)]

\* open: fopen fails in the server's code; text: fputs or fclose fails, and the rest of a
\* text is lost; stream: CivetWeb cannot open or write the file; connection: the client is
\* lost while its part is being received.
FaultKinds == {"open", "text", "stream", "connection"}

ASSUME SaveDirectoryAssumption ==
    /\ Jobs \subseteq JobSpace
    /\ \A j \in Jobs : Len(j.parts) > 0 /\ (j.handler = "send" => Len(j.parts) = 1)
    /\ Faults \subseteq FaultKinds
    /\ MaxChunks \in Nat \ {0}
    /\ NoRequest \notin Requests
    /\ NoJob \notin Jobs
    /\ Nobody \notin Requests \X Nat

VARIABLES
    pc,           \* pc[r]: the next operation of r's handler
    job,          \* job[r]: what r asks for
    part,         \* part[r]: the part it is at
    mtx_fprint,   \* the holder of the mutex
    inode,        \* directory SAVE_DIR: inode[n] is the file called n, 0 if none
    data,         \* data[n]: the writer of each chunk of the file called n
    inodes,       \* how many files were ever created
    stream,       \* stream[r]: inode r's bytes go to, 0 when closed
    written,      \* written[r]: chunks of the part written so far
    fp,           \* fp[r]: u->fp is an open file
    leaked,       \* leaked[r]: open files whose u->fp was overwritten
    storedParts,  \* storedParts[r]: the parts on_field_store was called for
    outcome       \* outcome[r]: "working", or what the handler makes of it

directory == <<inode, data, inodes>>
upload == <<fp, leaked, storedParts>>
vars == <<pc, job, part, mtx_fprint, directory, stream, written, upload, outcome>>

Chunks == 1 .. MaxChunks
Empty == [k \in Chunks |-> Nobody]

Writer(r) == <<r, part[r]>>
ThisPart(r) == job[r].parts[part[r]]
Name(r) == ThisPart(r).name

\* The data of a file that holds part i of r and nothing else.
Content(r, i) ==
    [k \in Chunks |-> IF k <= job[r].parts[i].size THEN <<r, i>> ELSE Nobody]

Goto(r, label) == pc' = [pc EXCEPT ![r] = label]

--------------------------------------------------------------------------------
Init ==
    /\ pc = [r \in Requests |-> "waiting"]
    /\ job = [r \in Requests |-> NoJob]
    /\ part = [r \in Requests |-> 1]
    /\ mtx_fprint = NoRequest
    /\ inode = [n \in Names |-> 0]
    /\ data = [n \in Names |-> Empty]
    /\ inodes = 0
    /\ stream = [r \in Requests |-> 0]
    /\ written = [r \in Requests |-> 0]
    /\ fp = [r \in Requests |-> FALSE]
    /\ leaked = [r \in Requests |-> 0]
    /\ storedParts = [r \in Requests |-> {}]
    /\ outcome = [r \in Requests |-> "working"]

Start(r) ==
    /\ pc[r] = "waiting"
    /\ \E j \in Jobs : job' = [job EXCEPT ![r] = j]
    /\ Goto(r, "mkdir")
    /\ UNCHANGED <<part, mtx_fprint, directory, stream, written, upload, outcome>>

\* mkdir(SAVE_DIR) is idempotent and precedes every fopen, so the directory's existence
\* is no variable.  /api/send takes the mutex around it, /api/upload does not.
MakeDir(r) ==
    /\ pc[r] = "mkdir"
    /\ job[r].handler = "send" => mtx_fprint = NoRequest
    /\ Goto(r, "lock")
    /\ UNCHANGED <<job, part, mtx_fprint, directory, stream, written, upload, outcome>>

\* Mutant: the mutex is not waited for.
LockAnyway(r) ==
    /\ pc[r] = "lock"
    /\ mtx_fprint' = r
    /\ Goto(r, "open")
    /\ UNCHANGED <<job, part, directory, stream, written, upload, outcome>>

\* pthread_mutex_lock before fopen.
Lock(r) ==
    /\ pc[r] = "lock"
    /\ mtx_fprint = NoRequest
    /\ mtx_fprint' = r
    /\ Goto(r, "open")
    /\ UNCHANGED <<job, part, directory, stream, written, upload, outcome>>

Unlock(r) == mtx_fprint' = IF mtx_fprint = r THEN NoRequest ELSE mtx_fprint

\* fopen(path, "wb"): the file called n is created, or truncated under all who have it
\* open.  The handle refers to inode'[n].
Truncate(n) ==
    /\ inodes' = IF inode[n] = 0 THEN inodes + 1 ELSE inodes
    /\ inode' = IF inode[n] = 0 THEN [inode EXCEPT ![n] = inodes + 1] ELSE inode
    /\ data' = [data EXCEPT ![n] = Empty]

--------------------------------------------------------------------------------
(***************************************************************************)
(* A chunk goes to the file the stream was opened on, at the stream's own  *)
(* offset; if the file was removed meanwhile, to no file of the directory. *)
(***************************************************************************)
WriteChunk(r) ==
    /\ pc[r] = "write"
    /\ written[r] < ThisPart(r).size
    /\ written' = [written EXCEPT ![r] = @ + 1]
    /\ data' = [n \in Names |->
                    IF inode[n] = stream[r]
                    THEN [data[n] EXCEPT ![written[r] + 1] = Writer(r)]
                    ELSE data[n]]
    /\ UNCHANGED <<pc, job, part, mtx_fprint, inode, inodes, stream, upload, outcome>>

Finish(r, result) ==
    /\ outcome' = [outcome EXCEPT ![r] = result]
    /\ Goto(r, "done")

(***************************************************************************)
(* save_text_to_file.                                                      *)
(***************************************************************************)
\* Mutant: the early return does not unlock.
OpenTextNoUnlock(r) ==
    /\ pc[r] = "open"
    /\ job[r].handler = "send"
    /\ \/ /\ Truncate(Name(r))
          /\ stream' = [stream EXCEPT ![r] = inode'[Name(r)]]
          /\ Goto(r, "write")
          /\ UNCHANGED outcome
       \/ /\ "open" \in Faults
          /\ Finish(r, "failed")
          /\ UNCHANGED <<directory, stream>>
    /\ UNCHANGED <<job, part, mtx_fprint, written, upload>>

OpenText(r) ==
    /\ pc[r] = "open"
    /\ job[r].handler = "send"
    /\ \/ /\ Truncate(Name(r))
          /\ stream' = [stream EXCEPT ![r] = inode'[Name(r)]]
          /\ Goto(r, "write")
          /\ UNCHANGED <<mtx_fprint, outcome>>
       \/ /\ "open" \in Faults
          /\ Unlock(r)
          /\ Finish(r, "failed")
          /\ UNCHANGED <<directory, stream>>
    /\ UNCHANGED <<job, part, written, upload>>

\* fclose and unlock.  Neither fputs nor fclose is checked: a text cut short is as saved
\* as any.
CloseText(r) ==
    /\ pc[r] = "write"
    /\ job[r].handler = "send"
    /\ written[r] = ThisPart(r).size \/ "text" \in Faults
    /\ stream' = [stream EXCEPT ![r] = 0]
    /\ Unlock(r)
    /\ Finish(r, "saved")
    /\ UNCHANGED <<job, part, directory, written, upload>>

--------------------------------------------------------------------------------
(***************************************************************************)
(* api_upload_handler: field_found, CivetWeb's streaming, field_store, and *)
(* the return from mg_handle_form_request.                                 *)
(***************************************************************************)
\* on_field_found: u->fp is overwritten, whatever it held.  Without a file the parser
\* is told to abort.
OpenPart(r) ==
    /\ pc[r] = "open"
    /\ job[r].handler = "upload"
    /\ leaked' = [leaked EXCEPT ![r] = IF fp[r] THEN @ + 1 ELSE @]
    /\ Unlock(r)
    /\ \/ /\ Truncate(Name(r))
          /\ fp' = [fp EXCEPT ![r] = TRUE]
          /\ Goto(r, "stream")
       \/ /\ "open" \in Faults
          /\ fp' = [fp EXCEPT ![r] = FALSE]
          /\ Goto(r, "return")
          /\ UNCHANGED directory
    /\ UNCHANGED <<job, part, stream, written, storedParts, outcome>>

\* CivetWeb opens the path again.  If it cannot, the part is skipped.
OpenStream(r) ==
    /\ pc[r] = "stream"
    /\ written' = [written EXCEPT ![r] = 0]
    /\ \/ /\ Truncate(Name(r))
          /\ stream' = [stream EXCEPT ![r] = inode'[Name(r)]]
          /\ Goto(r, "write")
       \/ /\ "stream" \in Faults
          /\ Goto(r, "part")
          /\ UNCHANGED <<directory, stream>>
    /\ UNCHANGED <<job, part, mtx_fprint, upload, outcome>>

\* remove(path): the name goes, whichever file it stands for now.
RemovePath(n) ==
    /\ inode' = [inode EXCEPT ![n] = 0]
    /\ data' = [data EXCEPT ![n] = Empty]
    /\ UNCHANGED inodes

\* Mutant: a lost connection takes the files of all parts with it.
AbandonForm(r) ==
    /\ pc[r] = "write"
    /\ job[r].handler = "upload"
    /\ "connection" \in Faults
    /\ stream' = [stream EXCEPT ![r] = 0]
    /\ inode' = [n \in Names |-> IF \E i \in 1 .. part[r] : job[r].parts[i].name = n
                                 THEN 0 ELSE inode[n]]
    /\ data' = [n \in Names |-> IF inode'[n] = 0 THEN Empty ELSE data[n]]
    /\ outcome' = [outcome EXCEPT ![r] = "failed"]
    /\ Goto(r, "return")
    /\ UNCHANGED <<job, part, inodes, mtx_fprint, written, upload>>

\* CivetWeb gives the part up: a failed write drops this part only, a lost connection
\* the whole form (its result is then negative).
AbandonPart(r) ==
    /\ pc[r] = "write"
    /\ job[r].handler = "upload"
    /\ stream' = [stream EXCEPT ![r] = 0]
    /\ RemovePath(Name(r))
    /\ \/ /\ "stream" \in Faults
          /\ Goto(r, "part")
          /\ UNCHANGED outcome
       \/ /\ "connection" \in Faults
          /\ outcome' = [outcome EXCEPT ![r] = "failed"]
          /\ Goto(r, "return")
    /\ UNCHANGED <<job, part, mtx_fprint, written, upload>>

CloseStream(r) ==
    /\ pc[r] = "write"
    /\ job[r].handler = "upload"
    /\ written[r] = ThisPart(r).size
    /\ stream' = [stream EXCEPT ![r] = 0]
    /\ Goto(r, "stored")
    /\ UNCHANGED <<job, part, mtx_fprint, directory, written, upload, outcome>>

\* Mutant: on_field_store does not close u->fp.
FieldStoreNoClose(r) ==
    /\ pc[r] = "stored"
    /\ storedParts' = [storedParts EXCEPT ![r] = @ \cup {part[r]}]
    /\ Goto(r, "part")
    /\ UNCHANGED <<job, part, mtx_fprint, directory, stream, written, fp, leaked, outcome>>

\* Mutant: the part is counted from 0.
FieldStoreOffByOne(r) ==
    /\ pc[r] = "stored"
    /\ fp[r] => mtx_fprint = NoRequest
    /\ fp' = [fp EXCEPT ![r] = FALSE]
    /\ storedParts' = [storedParts EXCEPT ![r] = @ \cup {part[r] - 1}]
    /\ Goto(r, "part")
    /\ UNCHANGED <<job, part, mtx_fprint, directory, stream, written, leaked, outcome>>

\* on_field_store: lock, fclose(u->fp), unlock.
FieldStore(r) ==
    /\ pc[r] = "stored"
    /\ fp[r] => mtx_fprint = NoRequest
    /\ fp' = [fp EXCEPT ![r] = FALSE]
    /\ storedParts' = [storedParts EXCEPT ![r] = @ \cup {part[r]}]
    /\ Goto(r, "part")
    /\ UNCHANGED <<job, part, mtx_fprint, directory, stream, written, leaked, outcome>>

NextPart(r) ==
    /\ pc[r] = "part"
    /\ \/ /\ part[r] < Len(job[r].parts)
          /\ part' = [part EXCEPT ![r] = @ + 1]
          /\ Goto(r, "mkdir")
       \/ /\ part[r] = Len(job[r].parts)
          /\ Goto(r, "return")
          /\ UNCHANGED part
    /\ UNCHANGED <<job, mtx_fprint, directory, stream, written, upload, outcome>>

\* Back in the handler: a file still open is closed, without the mutex; the upload is
\* accepted unless the form was not parsed to its end (u.path is set by now).
Return(r) ==
    /\ pc[r] = "return"
    /\ fp' = [fp EXCEPT ![r] = FALSE]
    /\ Finish(r, IF outcome[r] = "failed" THEN "failed" ELSE "received")
    /\ UNCHANGED <<job, part, mtx_fprint, directory, stream, written, leaked, storedParts>>

--------------------------------------------------------------------------------
Handle(r) ==
    \/ MakeDir(r)
    \/ Lock(r)
    \/ WriteChunk(r)
    \/ OpenText(r)
    \/ CloseText(r)
    \/ OpenPart(r)
    \/ OpenStream(r)
    \/ AbandonPart(r)
    \/ CloseStream(r)
    \/ FieldStore(r)
    \/ NextPart(r)
    \/ Return(r)

Idle ==
    /\ \A r \in Requests : pc[r] = "done"
    /\ UNCHANGED vars

Next ==
    \/ \E r \in Requests : Start(r) \/ Handle(r)
    \/ Idle

Spec == Init /\ [][Next]_vars

\* A worker thread keeps running.  The mutex itself need not be fair: no request asks
\* for it without end.
FairSpec == Spec /\ \A r \in Requests : WF_vars(Handle(r))

--------------------------------------------------------------------------------
TypeOK ==
    /\ pc \in [Requests -> {"waiting", "mkdir", "lock", "open", "stream", "write",
                            "stored", "part", "return", "done"}]
    /\ job \in [Requests -> Jobs \cup {NoJob}]
    /\ part \in [Requests -> Nat \ {0}]
    /\ mtx_fprint \in Requests \cup {NoRequest}
    /\ inode \in [Names -> Nat]
    /\ data \in [Names -> [Chunks -> (Requests \X (Nat \ {0})) \cup {Nobody}]]
    /\ inodes \in Nat
    /\ stream \in [Requests -> Nat]
    /\ written \in [Requests -> 0 .. MaxChunks]
    /\ fp \in [Requests -> BOOLEAN]
    /\ leaked \in [Requests -> Nat]
    /\ storedParts \in [Requests -> SUBSET (Nat \ {0})]
    /\ outcome \in [Requests -> {"working", "saved", "received", "failed"}]

\* Request r saves something under name n.
Wants(r, n) == job[r] # NoJob /\ \E i \in DOMAIN job[r].parts : job[r].parts[i].name = n

AtWork(r) == pc[r] \notin {"waiting", "done"}

\* The file called n is one text or part, complete and alone.
IntactFile(n) ==
    \E r \in Requests :
        Wants(r, n) /\ \E i \in DOMAIN job[r].parts : data[n] = Content(r, i)

\* What the writes of r's text or part have put into its file.
Written(r) == [k \in Chunks |-> IF k <= written[r] THEN Writer(r) ELSE Nobody]

\* A name that only texts are saved under holds, whenever no request that wants it is at
\* work, what one text that was reported saved has written, from its first chunk on, and
\* nothing of any other: texts never mix (save_text_to_file, api_send.c:91-104).  It is
\* the whole text unless fputs or fclose failed, which the code does not notice.
TextFilesIntact ==
    \A n \in Names :
        (/\ inode[n] # 0
         /\ \A r \in Requests :
                Wants(r, n) => job[r].handler = "send" /\ ~ AtWork(r))
        => \E r \in Requests : Wants(r, n) /\ outcome[r] = "saved" /\ data[n] = Written(r)

\* The same for every name.  The comment on mtx_fprint (Server.c:61, "Serialises all
\* writes to the file system") promises it.
FilesIntact ==
    \A n \in Names :
        (/\ inode[n] # 0
         /\ \A r \in Requests : Wants(r, n) => ~ AtWork(r))
        => IntactFile(n)

\* A part reported stored stays on disk in full, unless another request or a later part
\* of the same form was given its name: neither the second open of the path, nor the
\* close of u->fp, nor the removal of a partial file costs it anything.
StoredPartsKept ==
    \A r \in Requests : \A i \in storedParts[r] :
        LET n == job[r].parts[i].name
        IN  (/\ \A q \in Requests \ {r} : ~ Wants(q, n)
             /\ \A k \in DOMAIN job[r].parts : job[r].parts[k].name = n => k <= i)
            => data[n] = Content(r, i)

\* The parts before this one that were not stored.
Skipped(r) == (1 .. part[r] - 1) \ storedParts[r]

\* on_field_found overwrites an open u->fp only after a part CivetWeb skipped: a part it
\* stored never loses its handle.  A handler that returned has no file open through u->fp
\* or a stream, and does not hold the mutex.
NothingLeftOpen ==
    \A r \in Requests :
        /\ leaked[r] <= Cardinality(Skipped(r))
        /\ pc[r] = "done" => ~ fp[r] /\ stream[r] = 0 /\ mtx_fprint # r

\* Every save ends, failed or not: no path leaves the mutex locked.
EventuallyDone == \A r \in Requests : (pc[r] = "mkdir") ~> (pc[r] = "done")

--------------------------------------------------------------------------------
(***************************************************************************)
(* The inductive invariant of SaveDirectoryProofs.                         *)
(***************************************************************************)
\* A request at work has a job, and is at one of its parts; before, it has done nothing.
Served ==
    \A r \in Requests :
        /\ pc[r] = "waiting" => job[r] = NoJob /\ part[r] = 1 /\ written[r] = 0
        /\ pc[r] # "waiting" => job[r] # NoJob /\ part[r] \in DOMAIN job[r].parts

\* /api/send goes through save_text_to_file only, from nothing written; a text is saved
\* when its handler has returned.
TextPath ==
    \A r \in Requests :
        /\ pc[r] # "waiting" /\ job[r].handler = "send" =>
            /\ pc[r] \in {"mkdir", "lock", "open", "write", "done"}
            /\ pc[r] \in {"mkdir", "lock", "open"} => written[r] = 0
        /\ outcome[r] = "saved" => pc[r] = "done"

\* Between its lock and its unlock, and only there, a request holds the mutex.
MutexHeld ==
    \A r \in Requests :
        mtx_fprint = r <=>
            pc[r] = "open" \/ (pc[r] = "write" /\ job[r].handler = "send")

\* Inodes are told apart, and a stream can only reach the file of the name it opened.
StreamsReach ==
    /\ \A n \in Names : inode[n] <= inodes
    /\ \A n, m \in Names : inode[n] = inode[m] /\ inode[n] # 0 => n = m
    /\ \A r \in Requests :
        /\ stream[r] # 0 <=> pc[r] = "write"
        /\ stream[r] <= inodes
        /\ \A n \in Names : stream[r] # 0 /\ inode[n] = stream[r] => n = Name(r)

OnlyTexts(n) == \A r \in Requests : Wants(r, n) => job[r].handler = "send"

Writing(r, n) == pc[r] = "write" /\ Name(r) = n

\* The file called n is r's text, in full unless its writing failed.
SavedText(r, n) ==
    /\ Wants(r, n)
    /\ outcome[r] = "saved"
    /\ data[n] = Written(r)
    /\ written[r] = ThisPart(r).size \/ "text" \in Faults

\* A file of texts is what the one at work has written, or else one of those saved.
TextFile(n) ==
    inode[n] # 0 /\ OnlyTexts(n) =>
        /\ \A r \in Requests : Writing(r, n) => stream[r] = inode[n] /\ data[n] = Written(r)
        /\ (\A r \in Requests : ~ Writing(r, n)) => \E r \in Requests : SavedText(r, n)

TextFiles == \A n \in Names : TextFile(n)

\* An open u->fp that the next part will overwrite belongs to a skipped part, and is not
\* yet counted.
HandleCounted(r) ==
    /\ storedParts[r] \subseteq 1 .. part[r]
    /\ part[r] \in storedParts[r] => pc[r] \in {"part", "return", "done"}
    /\ leaked[r] <= Cardinality(Skipped(r))
    /\ fp[r] =>
        /\ pc[r] \in {"mkdir", "lock", "open"} => leaked[r] + 1 <= Cardinality(Skipped(r))
        /\ pc[r] \notin {"waiting", "done"} /\ job[r].handler = "upload"
        /\ pc[r] = "part" => part[r] \notin storedParts[r]

HandlesCounted == \A r \in Requests : HandleCounted(r)

\* Nobody but r saves under name n; and no part of r after part i does.
Alone(r, n) == \A q \in Requests \ {r} : ~ Wants(q, n)
LastOfName(r, i) ==
    \A k \in DOMAIN job[r].parts : job[r].parts[k].name = job[r].parts[i].name => k <= i

\* A name of its own is r's to write, from the open of its stream to the report; what was
\* reported stays.
PartKept(r) ==
    /\ pc[r] = "write" /\ Alone(r, Name(r)) =>
        stream[r] = inode[Name(r)] /\ data[Name(r)] = Written(r)
    /\ pc[r] = "stored" /\ Alone(r, Name(r)) => data[Name(r)] = Content(r, part[r])
    /\ \A i \in storedParts[r] :
        Alone(r, job[r].parts[i].name) /\ LastOfName(r, i) =>
            data[job[r].parts[i].name] = Content(r, i)

PartsKept == \A r \in Requests : PartKept(r)

IInv == TypeOK /\ Served /\ TextPath /\ MutexHeld /\ StreamsReach /\ TextFiles
                /\ HandlesCounted /\ PartsKept
================================================================================
