----------------------------- MODULE ServerProcess -----------------------------
(***************************************************************************)
(* The life of the server's process: main (Server.c), the detached thread  *)
(* that logs the addresses, CivetWeb's workers, the signals, a killed      *)
(* process and the one started after it.                                   *)
(*                                                                         *)
(* A handler is seen here from its dispatch to its answer as the few steps *)
(* a dying process can come between: the text it logs, the file and the    *)
(* Message row it leaves.  RequestHandlers and SaveDirectory have the rest.*)
(* Files and rows survive the process, everything else dies with it.       *)
(***************************************************************************)
EXTENDS Integers, Sequences, FiniteSets

CONSTANTS
    Requests,    \* HTTP requests
    Calls,       \* what requests ask for: a subset of CallSpace
    CpuCounts,   \* what sysconf(_SC_NPROCESSORS_ONLN) may return, -1 among them
    MaxStarts,   \* bound: how often the process is started
    Faults,      \* what may fail by itself: a subset of FaultKinds
    NoCall,      \* the request has not arrived
    NoReply,     \* the request has not been answered
    NoRequest    \* mtx_print is free

CallSpace == [method: {"GET", "HEAD", "POST"},
              path: {"/api/send", "/api/upload", "/api/openapi.json"}]

\* signals: sigaction fails; thread: pthread_create; database: database_open;
\* start: mg_start (the port is taken, the certificate unreadable); file: fopen of an
\* upload's file, or a write to it; row: the repository calls of a handler.
FaultKinds == {"signals", "thread", "database", "start", "file", "row"}

ASSUME ServerProcessAssumption ==
    /\ IsFiniteSet(Requests)
    /\ Calls \subseteq CallSpace /\ NoCall \notin Calls
    /\ CpuCounts \subseteq {-1} \cup (Nat \ {0})
    /\ MaxStarts \in Nat
    /\ Faults \subseteq FaultKinds
    /\ NoRequest \notin Requests

VARIABLES
    main,          \* the next statement of main, "off" when there is no process
    keep_running,  \* the flag the signal handler clears
    caught,        \* SIGINT and SIGTERM have a handler
    library,       \* between mg_init_library and mg_exit_library
    database,      \* main's database handle is open
    workers,       \* the size of CivetWeb's pool while it runs, 0 otherwise
    registered,    \* how many of Handlers are registered
    started,       \* "Server started" has been printed
    address,       \* where the address thread is, "none" without one
    mtx_print,     \* the holder of the mutex
    ended,         \* how the last process ended
    starts,        \* how many there have been
    at,            \* at[r]: where r's handler is
    call,          \* call[r]: what r asks for
    fragments,     \* fragments[r]: stdio calls made of the text r logs
    reply,         \* reply[r]: what answered r
    files,         \* the uploads that have left a file
    unwritten,     \* history: the uploads that went on although their file failed
    rows,          \* the requests with a Message row
    rowless        \* those whose repository calls failed

shared == <<keep_running, caught, library, database, workers, registered, started>>
lifetime == <<ended, starts>>
disk == <<files, unwritten, rows, rowless>>
requests == <<at, call, fragments, reply, disk>>
vars == <<main, shared, address, mtx_print, lifetime, requests>>

\* The URIs in the order in which main registers their handlers.
Handlers == <<"/api/send", "/api/upload", "/api/openapi.json">>
Registered == {Handlers[i] : i \in 1 .. registered}

\* k_endpoints: the operations /api/openapi.json lists.
Endpoints ==
    {[method |-> "POST", path |-> "/api/send"],
     [method |-> "POST", path |-> "/api/upload"],
     [method |-> "GET", path |-> "/api/openapi.json"]}

AtWork(r) == at[r] \notin {"waiting", "done", "killed", "cut"}

GoMain(label) == main' = label
Goto(r, label) == at' = [at EXCEPT ![r] = label]

--------------------------------------------------------------------------------
Init ==
    /\ main = "off"
    /\ keep_running = TRUE /\ caught = FALSE /\ library = FALSE
    /\ database = FALSE /\ workers = 0 /\ registered = 0 /\ started = FALSE
    /\ address = "none" /\ mtx_print = NoRequest
    /\ ended = "never" /\ starts = 0
    /\ at = [r \in Requests |-> "waiting"]
    /\ call = [r \in Requests |-> NoCall]
    /\ fragments = [r \in Requests |-> 0]
    /\ reply = [r \in Requests |-> NoReply]
    /\ files = {} /\ unwritten = {} /\ rows = {} /\ rowless = {}

\* A process starts with its static variables; what the last one left open on its way
\* out is gone.
Boot ==
    /\ main = "off"
    /\ starts < MaxStarts
    /\ GoMain("signals")
    /\ starts' = starts + 1
    /\ ended' = "running"
    /\ keep_running' = TRUE /\ caught' = FALSE /\ library' = FALSE
    /\ database' = FALSE /\ workers' = 0 /\ registered' = 0 /\ started' = FALSE
    /\ UNCHANGED <<address, mtx_print, requests>>

\* The process is gone, and with it the threads and the requests they were at.
Vanish(how, label) ==
    /\ GoMain("off")
    /\ ended' = how
    /\ address' = "none"
    /\ mtx_print' = NoRequest
    /\ at' = [r \in Requests |-> IF AtWork(r) THEN label ELSE at[r]]
    /\ UNCHANGED <<starts, call, fragments, reply, disk>>

\* SIGKILL, or SIGINT or SIGTERM before they have a handler.
Kill ==
    /\ main # "off"
    /\ Vanish("killed", "killed")
    /\ UNCHANGED shared

\* on_signal.
Signal ==
    /\ main # "off"
    /\ caught /\ keep_running
    /\ keep_running' = FALSE
    /\ UNCHANGED <<main, caught, library, database, workers, registered, started,
                   address, mtx_print, lifetime, requests>>

--------------------------------------------------------------------------------
(***************************************************************************)
(* main: install_signals, mg_init_library, the address thread,             *)
(* database_open, mg_start, the handlers, the loop, and the way down.      *)
(***************************************************************************)
InstallSignals ==
    /\ main = "signals"
    /\ \/ /\ caught' = TRUE
          /\ GoMain("library")
          /\ UNCHANGED <<address, mtx_print, lifetime, requests>>
       \/ /\ "signals" \in Faults
          /\ Vanish("failure", "cut")
          /\ UNCHANGED caught
    /\ UNCHANGED <<keep_running, library, database, workers, registered, started>>

InitLibrary ==
    /\ main = "library"
    /\ library' = TRUE
    /\ GoMain("thread")
    /\ UNCHANGED <<keep_running, caught, database, workers, registered, started,
                   address, mtx_print, lifetime, requests>>

\* Mutant: the thread is joined instead of detached.
SpawnAndJoin ==
    /\ main = "thread"
    /\ \/ /\ address = "none"
          /\ address' = "local"
          /\ UNCHANGED main
       \/ /\ address = "done"
          /\ GoMain("database")
          /\ UNCHANGED address
    /\ UNCHANGED <<shared, mtx_print, lifetime, requests>>

\* pthread_create and pthread_detach; a failure is not noticed.
SpawnAddressThread ==
    /\ main = "thread"
    /\ \/ address' = "local"
       \/ /\ "thread" \in Faults
          /\ UNCHANGED address
    /\ GoMain("database")
    /\ UNCHANGED <<shared, mtx_print, lifetime, requests>>

\* The database cannot be opened: mg_exit_library, return EXIT_FAILURE.
OpenDatabase ==
    /\ main = "database"
    /\ \/ /\ database' = TRUE
          /\ GoMain("start")
          /\ UNCHANGED <<library, address, mtx_print, lifetime, requests>>
       \/ /\ "database" \in Faults
          /\ library' = FALSE
          /\ Vanish("failure", "cut")
          /\ UNCHANGED database
    /\ UNCHANGED <<keep_running, caught, workers, registered, started>>

\* CivetWeb has a thread per processor; it refuses a count that is not positive.
StartsWith(count) ==
    /\ count > 0
    /\ workers' = count
    /\ GoMain("register")
    /\ UNCHANGED <<database, library, address, mtx_print, lifetime, requests>>

\* Mutant: the early return forgets the handle.
StartServerKeepsHandle ==
    /\ main = "start"
    /\ \/ \E count \in CpuCounts : StartsWith(count)
       \/ /\ -1 \in CpuCounts \/ "start" \in Faults
          /\ library' = FALSE
          /\ Vanish("failure", "cut")
          /\ UNCHANGED <<database, workers>>
    /\ UNCHANGED <<keep_running, caught, registered, started>>

\* get_cpu_count and mg_start; if there is no context the handle and the library go
\* before main returns.
StartServer ==
    /\ main = "start"
    /\ \/ \E count \in CpuCounts : StartsWith(count)
       \/ /\ -1 \in CpuCounts \/ "start" \in Faults
          /\ database' = FALSE /\ library' = FALSE
          /\ Vanish("failure", "cut")
          /\ UNCHANGED workers
    /\ UNCHANGED <<keep_running, caught, registered, started>>

\* Mutant: the success message comes before the last handler.
RegisterLate ==
    /\ main = "register"
    /\ registered' = registered + 1
    /\ started' = (registered' >= Len(Handlers) - 1)
    /\ GoMain(IF registered' = Len(Handlers) THEN "loop" ELSE "register")
    /\ UNCHANGED <<keep_running, caught, library, database, workers,
                   address, mtx_print, lifetime, requests>>

\* Mutant: the count runs one too far.
RegisterOneTooMany ==
    /\ main = "register"
    /\ registered' = registered + 1
    /\ GoMain(IF registered' > Len(Handlers) THEN "announce" ELSE "register")
    /\ UNCHANGED <<keep_running, caught, library, database, workers, started,
                   address, mtx_print, lifetime, requests>>

\* One mg_set_request_handler.  The port has been open since mg_start.
Register ==
    /\ main = "register"
    /\ registered' = registered + 1
    /\ GoMain(IF registered' = Len(Handlers) THEN "announce" ELSE "register")
    /\ UNCHANGED <<keep_running, caught, library, database, workers, started,
                   address, mtx_print, lifetime, requests>>

\* Mutant: the flag is set where the loop begins, not where it is declared.
AnnounceAndReset ==
    /\ main = "announce"
    /\ started' = TRUE
    /\ keep_running' = TRUE
    /\ GoMain("loop")
    /\ UNCHANGED <<caught, library, database, workers, registered,
                   address, mtx_print, lifetime, requests>>

Announce ==
    /\ main = "announce"
    /\ started' = TRUE
    /\ GoMain("loop")
    /\ UNCHANGED <<keep_running, caught, library, database, workers, registered,
                   address, mtx_print, lifetime, requests>>

\* while (keep_running) sleep(1).  From here mg_stop lets nobody in.
LeaveLoop ==
    /\ main = "loop"
    /\ ~ keep_running
    /\ GoMain("join")
    /\ UNCHANGED <<shared, address, mtx_print, lifetime, requests>>

\* Mutant: mg_stop does not wait for the workers.
StopAtOnce ==
    /\ main = "join"
    /\ workers' = 0
    /\ GoMain("close")
    /\ UNCHANGED <<keep_running, caught, library, database, registered, started,
                   address, mtx_print, lifetime, requests>>

\* mg_stop returns when every worker thread has ended.
StopServer ==
    /\ main = "join"
    /\ \A r \in Requests : ~ AtWork(r)
    /\ workers' = 0
    /\ GoMain("close")
    /\ UNCHANGED <<keep_running, caught, library, database, registered, started,
                   address, mtx_print, lifetime, requests>>

CloseDatabase ==
    /\ main = "close"
    /\ database' = FALSE
    /\ GoMain("exit")
    /\ UNCHANGED <<keep_running, caught, library, workers, registered, started,
                   address, mtx_print, lifetime, requests>>

ExitLibrary ==
    /\ main = "exit"
    /\ library' = FALSE
    /\ GoMain("return")
    /\ UNCHANGED <<keep_running, caught, database, workers, registered, started,
                   address, mtx_print, lifetime, requests>>

\* return EXIT_SUCCESS: the address thread is not waited for.
Return ==
    /\ main = "return"
    /\ Vanish("success", "cut")
    /\ UNCHANGED shared

Main ==
    \/ InstallSignals
    \/ InitLibrary
    \/ SpawnAddressThread
    \/ OpenDatabase
    \/ StartServer
    \/ Register
    \/ Announce
    \/ LeaveLoop
    \/ StopServer
    \/ CloseDatabase
    \/ ExitLibrary
    \/ Return

--------------------------------------------------------------------------------
\* log_addresses_worker, of which AddressLog has the detail: the local addresses, the
\* router, then the HTTP service unless the router knew.
LogAddresses ==
    /\ \/ /\ address = "local"
          /\ address' = "router"
       \/ /\ address = "router"
          /\ address' \in {"service", "done"}
       \/ /\ address = "service"
          /\ address' = "done"
    /\ UNCHANGED <<main, shared, mtx_print, lifetime, requests>>

--------------------------------------------------------------------------------
(***************************************************************************)
(* A request on a worker.                                                  *)
(***************************************************************************)
Answer(r, what) ==
    /\ reply' = [reply EXCEPT ![r] = what]
    /\ Goto(r, "done")

\* A worker is free and takes the connection.
Accept(r) ==
    /\ at[r] = "waiting"
    /\ main \notin {"off", "join"}
    /\ Cardinality({q \in Requests : AtWork(q)}) < workers
    /\ \E c \in Calls : call' = [call EXCEPT ![r] = c]
    /\ Goto(r, "dispatch")
    /\ UNCHANGED <<main, shared, address, mtx_print, lifetime, fragments, reply, disk>>

\* A path no handler is registered for is looked up under document_root.
Dispatch(r) ==
    /\ at[r] = "dispatch"
    /\ \/ /\ call[r].path \in Registered
          /\ Goto(r, "method")
          /\ UNCHANGED reply
       \/ /\ call[r].path \notin Registered
          /\ Answer(r, "document root")
    /\ UNCHANGED <<main, shared, address, mtx_print, lifetime, call, fragments, disk>>

\* The method a handler insists on.
Accepts(c) ==
    IF c.path = "/api/openapi.json" THEN c.method \in {"GET", "HEAD"}
                                    ELSE c.method = "POST"

Begin(path) ==
    CASE path = "/api/send" -> "log" [] path = "/api/upload" -> "store" [] OTHER -> "answer"

CheckMethod(r) ==
    /\ at[r] = "method"
    /\ \/ /\ Accepts(call[r])
          /\ Goto(r, Begin(call[r].path))
          /\ UNCHANGED reply
       \/ /\ ~ Accepts(call[r])
          /\ Answer(r, "405")
    /\ UNCHANGED <<main, shared, address, mtx_print, lifetime, call, fragments, disk>>

\* Mutant: the mutex is not waited for.
LockPrintAnyway(r) ==
    /\ at[r] = "log"
    /\ mtx_print' = r
    /\ Goto(r, "print")
    /\ UNCHANGED <<main, shared, address, lifetime, call, fragments, reply, disk>>

\* api_send_handler prints a text it does not save under mtx_print.
LockPrint(r) ==
    /\ at[r] = "log"
    /\ mtx_print = NoRequest
    /\ mtx_print' = r
    /\ Goto(r, "print")
    /\ UNCHANGED <<main, shared, address, lifetime, call, fragments, reply, disk>>

\* print_info: the colour, the text, the reset of the colour, one stdio call each.
Fragments == 3

PrintFragment(r) ==
    /\ at[r] = "print"
    /\ fragments[r] < Fragments
    /\ fragments' = [fragments EXCEPT ![r] = @ + 1]
    /\ UNCHANGED <<main, shared, address, mtx_print, lifetime, at, call, reply, disk>>

UnlockPrint(r) ==
    /\ at[r] = "print"
    /\ fragments[r] = Fragments
    /\ mtx_print' = IF mtx_print = r THEN NoRequest ELSE mtx_print
    /\ Goto(r, "row")
    /\ UNCHANGED <<main, shared, address, lifetime, call, fragments, reply, disk>>

\* The parts of an upload are on disk, or have failed to get there, before the handler
\* turns to the database: a part whose file cannot be opened counts as received.  A form
\* that has no file, or that the client or mg_stop breaks off, is refused without a row,
\* and the parts that came before stay.
StoreFile(r) ==
    /\ at[r] = "store"
    /\ \/ /\ files' = files \cup {r}
          /\ Goto(r, "row")
          /\ UNCHANGED <<unwritten, reply>>
       \/ /\ "file" \in Faults
          /\ unwritten' = unwritten \cup {r}
          /\ Goto(r, "row")
          /\ UNCHANGED <<files, reply>>
       \/ /\ files' \in {files, files \cup {r}}
          /\ Answer(r, "400")
          /\ UNCHANGED unwritten
    /\ UNCHANGED <<main, shared, address, mtx_print, lifetime, call, fragments, rows, rowless>>

\* save_connection and save_message; the client is answered whether they succeed or not.
SaveRow(r) ==
    /\ at[r] = "row"
    /\ \/ /\ rows' = rows \cup {r}
          /\ UNCHANGED rowless
       \/ /\ "row" \in Faults
          /\ rowless' = rowless \cup {r}
          /\ UNCHANGED rows
    /\ Goto(r, "answer")
    /\ UNCHANGED <<main, shared, address, mtx_print, lifetime, call, fragments, reply, files,
                   unwritten>>

\* HEAD gets the document's headers only.
SendReply(r) ==
    /\ at[r] = "answer"
    /\ Answer(r, IF call[r].path # "/api/openapi.json" THEN "message"
                 ELSE IF call[r].method = "GET" THEN "document" ELSE "headers")
    /\ UNCHANGED <<main, shared, address, mtx_print, lifetime, call, fragments, disk>>

Handle(r) ==
    \/ Dispatch(r)
    \/ CheckMethod(r)
    \/ LockPrint(r)
    \/ PrintFragment(r)
    \/ UnlockPrint(r)
    \/ StoreFile(r)
    \/ SaveRow(r)
    \/ SendReply(r)

--------------------------------------------------------------------------------
\* Nobody starts the server again.
Rest ==
    /\ main = "off"
    /\ UNCHANGED vars

Next ==
    \/ Boot
    \/ Kill
    \/ Signal
    \/ Main
    \/ LogAddresses
    \/ \E r \in Requests : Accept(r) \/ Handle(r)
    \/ Rest

Spec == Init /\ [][Next]_vars

\* main and the workers keep running.  The address thread waits for a network that owes
\* it nothing; nobody has to send a signal, a request or a server into the world.
FairSpec == Spec /\ WF_vars(Main) /\ \A r \in Requests : WF_vars(Handle(r))

--------------------------------------------------------------------------------
MainTypeOK ==
    /\ main \in {"off", "signals", "library", "thread", "database", "start", "register",
                 "announce", "loop", "join", "close", "exit", "return"}
    /\ keep_running \in BOOLEAN /\ caught \in BOOLEAN /\ library \in BOOLEAN
    /\ database \in BOOLEAN /\ started \in BOOLEAN
    /\ workers \in Nat
    /\ registered \in 0 .. Len(Handlers)
    /\ address \in {"none", "local", "router", "service", "done"}
    /\ ended \in {"never", "running", "killed", "failure", "success"}
    /\ starts \in 0 .. MaxStarts

Places == {"waiting", "dispatch", "method", "log", "print", "store", "row", "answer",
           "done", "killed", "cut"}
Replies == {"document root", "405", "400", "message", "document", "headers"}

RequestTypeOK ==
    /\ mtx_print \in Requests \cup {NoRequest}
    /\ at \in [Requests -> Places]
    /\ call \in [Requests -> Calls \cup {NoCall}]
    /\ fragments \in [Requests -> 0 .. Fragments]
    /\ reply \in [Requests -> Replies \cup {NoReply}]
    /\ files \subseteq Requests /\ unwritten \subseteq Requests
    /\ rows \subseteq Requests /\ rowless \subseteq Requests

\* The counters stay within their bounds and no process, handler or thread is anywhere
\* else than at one of the statements named here.
TypeOK == MainTypeOK /\ RequestTypeOK

\* No handler runs before the library and the schema are there or after they are gone,
\* and main, whichever return it leaves by, leaves neither of them open
\* (Server.c:196-272: the order of start and stop, and its two early returns).
ResourcesInOrder ==
    /\ (\E r \in Requests : AtWork(r)) => library /\ database /\ workers > 0
    /\ ended \in {"failure", "success"} => ~ library /\ ~ database /\ workers = 0

\* The operation c is one the document lists; build_operation writes it under "get" or
\* "post".
Listed(c) == \E e \in Endpoints : e.path = c.path /\ e.method = c.method

\* Once "Server started" is printed, a request for an operation that /api/openapi.json
\* lists neither falls through to document_root nor is refused for its method: the
\* catalogue (api_openapi.c:48-50), main's registrations and the handlers' own checks
\* agree.  Before that, between mg_start and the last registration, it may fall through.
ListedIsServed ==
    [][\A r \in Requests :
        started /\ call[r] # NoCall /\ reply'[r] # reply[r] /\ Listed(call[r])
            => reply'[r] \notin {"document root", "405"}]_vars

\* What is on disk and what the history says of it agree, over kills and restarts, up to
\* what the handler lets pass.  The row of an upload has its file, unless fopen or a write
\* failed (api_upload.c:112-117); a file has its row unless its handler is still at it,
\* was killed in between, was refused by the database, or has refused the form that
\* brought it (api_upload.c:204-206).  Stopping the server on a signal adds nothing to
\* this: a handler it finds at work still ends in one of these ways.
FilesMatchHistory ==
    /\ \A r \in rows : call[r].path = "/api/upload" => r \in files \cup unwritten
    /\ \A r \in files \ rows :
        AtWork(r) \/ at[r] = "killed" \/ r \in rowless \/ reply[r] = "400"

\* The texts two workers log do not come between each other's fragments
\* (mtx_print, api_send.c:216-218).  Uploads, main and the address thread print without
\* the mutex: of their lines nothing is promised.
LoggedTextsWhole ==
    \A q, r \in Requests :
        /\ at[q] = "print" /\ fragments[q] \in 1 .. Fragments - 1
        /\ at[r] = "print" /\ fragments[r] \in 1 .. Fragments - 1
        => q = r

\* A signal that is caught ends the process, whatever main was doing when it came: the flag
\* is seen although no statement before the loop looks at it, and no worker and no slow
\* address lookup holds the end up.
StopsOnSignal == main # "off" /\ ~ keep_running ~> main = "off"

\* main reaches its loop, or ends, even if the address thread never gets an answer
\* ("does not delay server startup", Server.c:142-143).
StartsWithoutAddresses == main = "signals" ~> main \in {"loop", "off"}
================================================================================
