--------------------------- MODULE ServerProcessProofs --------------------------
(***************************************************************************)
(* Theorems of ServerProcess, for any number of requests, any calls, any   *)
(* number of processors and of starts, and any faults.                     *)
(***************************************************************************)
EXTENDS ServerProcess, FiniteSetTheorems, TLAPS

\* The statements of main between which it owns something: workers, the database handle,
\* the library.
Serving == {"register", "announce", "loop", "join"}
HasDatabase == {"start", "register", "announce", "loop", "join", "close"}
HasLibrary == {"thread", "database", "start", "register", "announce", "loop", "join",
               "close", "exit"}

\* What main owns depends on where it is, and after a return it is nothing.
Phases ==
    /\ main # "off" =>
        /\ library <=> main \in HasLibrary
        /\ database <=> main \in HasDatabase
        /\ workers > 0 <=> main \in Serving
        /\ ended = "running"
    /\ main = "off" /\ ended \in {"failure", "success"} =>
        ~ library /\ ~ database /\ workers = 0

\* The handlers are registered one by one, and all of them before the success message.
Registering ==
    /\ started => registered = 3
    /\ main \in {"signals", "library", "thread", "database", "start"} => registered = 0
    /\ main = "register" => registered < 3
    /\ main \in {"announce", "loop", "join", "close", "exit", "return"} => registered = 3

\* Where a handler is says what it has left on disk and in the history, and whether it
\* holds mtx_print; there are handlers while there are workers, and none is cut off by a
\* return.
InOrder(r) ==
    /\ AtWork(r) => main \in Serving
    /\ at[r] # "cut"
    /\ at[r] = "print" => mtx_print = r
    /\ at[r] \in {"log", "print"} => call[r].path # "/api/upload"
    /\ at[r] \in {"waiting", "dispatch", "method", "log", "print", "store"} =>
        r \notin files /\ r \notin rows
    /\ at[r] \in {"row", "answer"} /\ call[r].path = "/api/upload" =>
        r \in files \cup unwritten
    /\ at[r] = "answer" /\ r \in files => r \in rows \/ r \in rowless
    /\ r \in rows /\ call[r].path = "/api/upload" => r \in files \cup unwritten
    /\ r \in files /\ r \notin rows =>
        AtWork(r) \/ at[r] = "killed" \/ r \in rowless \/ reply[r] = "400"

IInv ==
    /\ TypeOK
    /\ Phases
    /\ Registering
    /\ \A r \in Requests : InOrder(r)

--------------------------------------------------------------------------------
\* Three URIs, and what is registered when all of them are.
LEMMA HandlersLength ==
    /\ Len(Handlers) = 3
    /\ registered = 3 => Registered = {"/api/send", "/api/upload", "/api/openapi.json"}
<1>1. Len(Handlers) = 3
  BY DEF Handlers
<1>2. ASSUME registered = 3
      PROVE  Registered = {"/api/send", "/api/upload", "/api/openapi.json"}
  <2>1. 1 .. registered = {1, 2, 3}
    BY <1>2
  <2>2. Registered = {Handlers[1], Handlers[2], Handlers[3]}
    BY <2>1 DEF Registered
  <2> QED
    BY <2>2 DEF Handlers
<1> QED
  BY <1>1, <1>2

\* A handler runs only while there are workers: the pool was not full.
LEMMA AcceptNeedsWorkers ==
    ASSUME TypeOK, NEW r \in Requests, Accept(r)
    PROVE  workers > 0
<1> DEFINE busy == {q \in Requests : AtWork(q)}
<1>1. IsFiniteSet(busy)
  BY ServerProcessAssumption, FS_Subset
<1>2. Cardinality(busy) \in Nat
  BY <1>1, FS_CardinalityType
<1>3. Cardinality(busy) < workers
  BY DEF Accept
<1> HIDE DEF busy
<1> QED
  BY <1>2, <1>3 DEF TypeOK, MainTypeOK

--------------------------------------------------------------------------------
(***************************************************************************)
(* Type correctness.                                                       *)
(***************************************************************************)
LEMMA InitType == Init => TypeOK
<1> SUFFICES ASSUME Init
             PROVE  TypeOK
  OBVIOUS
<1>1. starts \in 0 .. MaxStarts /\ registered \in 0 .. Len(Handlers)
  BY ServerProcessAssumption, HandlersLength DEF Init
<1>2. MainTypeOK
  BY <1>1 DEF Init, MainTypeOK
<1>3. RequestTypeOK
  BY DEF Init, RequestTypeOK, Places, Fragments
<1> QED
  BY <1>2, <1>3 DEF TypeOK

\* main's statements keep main's variables in their types.
LEMMA MainKeepsMainType ==
    ASSUME MainTypeOK, Registering, Main
    PROVE  MainTypeOK'
<1> USE DEF MainTypeOK, GoMain, Vanish, shared, lifetime
<1>1. CASE InstallSignals
  BY <1>1 DEF InstallSignals
<1>2. CASE InitLibrary
  BY <1>2 DEF InitLibrary
<1>3. CASE SpawnAddressThread
  BY <1>3 DEF SpawnAddressThread
<1>4. CASE OpenDatabase
  BY <1>4 DEF OpenDatabase
<1>5. CASE StartServer
  <2>1. workers' \in Nat
    BY <1>5, ServerProcessAssumption DEF StartServer, StartsWith
  <2>2. CASE \E count \in CpuCounts : StartsWith(count)
    BY <1>5, <2>1, <2>2 DEF StartServer, StartsWith
  <2>3. CASE ~ \E count \in CpuCounts : StartsWith(count)
    BY <1>5, <2>1, <2>3 DEF StartServer
  <2> QED
    BY <2>2, <2>3
<1>6. CASE Register
  BY <1>6, HandlersLength DEF Register, Registering
<1>7. CASE Announce
  BY <1>7 DEF Announce
<1>8. CASE LeaveLoop
  BY <1>8 DEF LeaveLoop
<1>9. CASE StopServer
  BY <1>9 DEF StopServer
<1>10. CASE CloseDatabase
  BY <1>10 DEF CloseDatabase
<1>11. CASE ExitLibrary
  BY <1>11 DEF ExitLibrary
<1>12. CASE Return
  BY <1>12 DEF Return
<1> QED
  BY <1>1, <1>2, <1>3, <1>4, <1>5, <1>6, <1>7, <1>8, <1>9, <1>10, <1>11, <1>12 DEF Main

\* main's statements leave the requests alone, or end the process.
LEMMA MainAndRequests ==
    ASSUME Main
    PROVE  \/ UNCHANGED <<mtx_print, requests>>
           \/ \E how \in {"failure", "success"} : Vanish(how, "cut")
<1> USE DEF shared, lifetime
<1>1. CASE InstallSignals
  BY <1>1 DEF InstallSignals
<1>2. CASE InitLibrary
  BY <1>2 DEF InitLibrary
<1>3. CASE SpawnAddressThread
  BY <1>3 DEF SpawnAddressThread
<1>4. CASE OpenDatabase
  BY <1>4 DEF OpenDatabase
<1>5. CASE StartServer
  BY <1>5 DEF StartServer, StartsWith
<1>6. CASE Register
  BY <1>6 DEF Register
<1>7. CASE Announce
  BY <1>7 DEF Announce
<1>8. CASE LeaveLoop
  BY <1>8 DEF LeaveLoop
<1>9. CASE StopServer
  BY <1>9 DEF StopServer
<1>10. CASE CloseDatabase
  BY <1>10 DEF CloseDatabase
<1>11. CASE ExitLibrary
  BY <1>11 DEF ExitLibrary
<1>12. CASE Return
  BY <1>12 DEF Return
<1> QED
  BY <1>1, <1>2, <1>3, <1>4, <1>5, <1>6, <1>7, <1>8, <1>9, <1>10, <1>11, <1>12 DEF Main

LEMMA VanishKeepsRequestType ==
    ASSUME RequestTypeOK, NEW how, NEW label \in {"killed", "cut"}, Vanish(how, label)
    PROVE  RequestTypeOK'
BY DEF RequestTypeOK, Vanish, disk, Places

LEMMA NextFragment == \A n \in 0 .. Fragments : n < Fragments => n + 1 \in 0 .. Fragments
BY DEF Fragments

LEMMA HandlerKeepsRequestType ==
    ASSUME RequestTypeOK, NEW r \in Requests, Accept(r) \/ Handle(r)
    PROVE  RequestTypeOK'
<1> USE DEF Goto, Answer, disk, RequestTypeOK, Places, Replies
<1>1. CASE Accept(r)
  BY <1>1 DEF Accept
<1>2. CASE Dispatch(r)
  BY <1>2 DEF Dispatch
<1>3. CASE CheckMethod(r)
  BY <1>3 DEF CheckMethod, Begin
<1>4. CASE LockPrint(r)
  BY <1>4 DEF LockPrint
<1>5. CASE PrintFragment(r)
  <2>1. fragments[r] \in 0 .. Fragments /\ fragments[r] < Fragments
    BY <1>5 DEF PrintFragment
  <2>2. fragments[r] + 1 \in 0 .. Fragments
    BY <2>1, NextFragment
  <2> QED
    BY <1>5, <2>2 DEF PrintFragment
<1>6. CASE UnlockPrint(r)
  BY <1>6 DEF UnlockPrint
<1>7. CASE StoreFile(r)
  BY <1>7 DEF StoreFile
<1>8. CASE SaveRow(r)
  BY <1>8 DEF SaveRow
<1>9. CASE SendReply(r)
  BY <1>9 DEF SendReply
<1> QED
  BY <1>1, <1>2, <1>3, <1>4, <1>5, <1>6, <1>7, <1>8, <1>9 DEF Handle

\* A handler's step leaves main, what it owns and the address thread alone.
LEMMA HandlersLeaveMain ==
    ASSUME NEW r \in Requests, Accept(r) \/ Handle(r)
    PROVE  UNCHANGED <<main, shared, address, lifetime>>
BY DEF Accept, Handle, Dispatch, CheckMethod, LockPrint, PrintFragment, UnlockPrint,
       StoreFile, SaveRow, SendReply

LEMMA TypeStep ==
    ASSUME TypeOK, Registering, [Next]_vars
    PROVE  TypeOK'
<1> USE DEF TypeOK
<1>1. CASE Boot
  <2>1. starts' \in 0 .. MaxStarts
    BY <1>1, ServerProcessAssumption DEF Boot, MainTypeOK
  <2>2. registered' \in 0 .. Len(Handlers)
    BY <1>1, HandlersLength DEF Boot
  <2>3. MainTypeOK'
    BY <1>1, <2>1, <2>2 DEF Boot, GoMain, MainTypeOK
  <2>4. RequestTypeOK'
    BY <1>1 DEF Boot, requests, disk, RequestTypeOK
  <2> QED
    BY <2>3, <2>4
<1>2. CASE Kill
  <2>1. MainTypeOK'
    BY <1>2 DEF Kill, Vanish, GoMain, shared, MainTypeOK
  <2>2. RequestTypeOK'
    BY <1>2, VanishKeepsRequestType DEF Kill
  <2> QED
    BY <2>1, <2>2
<1>3. CASE Signal
  <2>1. MainTypeOK'
    BY <1>3 DEF Signal, lifetime, MainTypeOK
  <2>2. RequestTypeOK'
    BY <1>3 DEF Signal, requests, disk, RequestTypeOK
  <2> QED
    BY <2>1, <2>2
<1>4. CASE Main
  <2>1. MainTypeOK'
    BY <1>4, MainKeepsMainType
  <2>2. CASE UNCHANGED <<mtx_print, requests>>
    BY <2>1, <2>2 DEF requests, disk, RequestTypeOK
  <2>3. CASE \E how \in {"failure", "success"} : Vanish(how, "cut")
    BY <2>1, <2>3, VanishKeepsRequestType
  <2> QED
    BY <1>4, <2>2, <2>3, MainAndRequests
<1>5. CASE LogAddresses
  <2>1. MainTypeOK'
    BY <1>5 DEF LogAddresses, shared, lifetime, MainTypeOK
  <2>2. RequestTypeOK'
    BY <1>5 DEF LogAddresses, requests, disk, RequestTypeOK
  <2> QED
    BY <2>1, <2>2
<1>6. ASSUME NEW r \in Requests, Accept(r) \/ Handle(r)
      PROVE  TypeOK'
  <2>1. MainTypeOK'
    BY <1>6, HandlersLeaveMain DEF shared, lifetime, MainTypeOK
  <2>2. RequestTypeOK'
    BY <1>6, HandlerKeepsRequestType
  <2> QED
    BY <2>1, <2>2
<1>7. CASE UNCHANGED vars
  <2>1. MainTypeOK'
    BY <1>7 DEF vars, shared, lifetime, MainTypeOK
  <2>2. RequestTypeOK'
    BY <1>7 DEF vars, requests, disk, RequestTypeOK
  <2> QED
    BY <2>1, <2>2
<1> QED
  BY <1>1, <1>2, <1>3, <1>4, <1>5, <1>6, <1>7 DEF Next, Rest

--------------------------------------------------------------------------------
(***************************************************************************)
(* What main owns.                                                         *)
(***************************************************************************)
LEMMA InitPhases == Init => Phases /\ Registering
BY DEF Init, Phases, Registering

LEMMA PhasesKept ==
    ASSUME Phases, Registering,
           UNCHANGED <<main, library, database, workers, registered, started, ended>>
    PROVE  Phases' /\ Registering'
BY DEF Phases, Registering

LEMMA MainKeepsPhases ==
    ASSUME MainTypeOK, Phases, Registering, Main
    PROVE  Phases' /\ Registering'
<1> USE DEF GoMain, Vanish, shared, lifetime, MainTypeOK, Phases, Registering,
            Serving, HasDatabase, HasLibrary
<1>1. CASE InstallSignals
  BY <1>1 DEF InstallSignals
<1>2. CASE InitLibrary
  BY <1>2 DEF InitLibrary
<1>3. CASE SpawnAddressThread
  BY <1>3 DEF SpawnAddressThread
<1>4. CASE OpenDatabase
  <2>1. CASE main' = "start"
    BY <1>4, <2>1 DEF OpenDatabase
  <2>2. CASE main' # "start"
    <3>1. main' = "off" /\ ended' = "failure" /\ ~ library'
      BY <1>4, <2>2 DEF OpenDatabase
    <3>2. ~ database' /\ workers' = 0
      <4>1. main = "database" /\ database' = database /\ workers' = workers
        BY <1>4, <2>2 DEF OpenDatabase
      <4>2. ~ database
        BY <4>1
      <4>3. ~ (workers > 0)
        BY <4>1
      <4>4. workers = 0
        BY <4>3
      <4> QED
        BY <4>1, <4>2, <4>4
    <3>3. Registering'
      BY <1>4, <3>1 DEF OpenDatabase
    <3> QED
      BY <3>1, <3>2, <3>3
  <2> QED
    BY <2>1, <2>2
<1>5. CASE StartServer
  <2>1. CASE \E count \in CpuCounts : StartsWith(count)
    BY <1>5, <2>1 DEF StartServer, StartsWith
  <2>2. CASE ~ \E count \in CpuCounts : StartsWith(count)
    BY <1>5, <2>2 DEF StartServer
  <2> QED
    BY <2>1, <2>2
<1>6. CASE Register
  BY <1>6, HandlersLength DEF Register
<1>7. CASE Announce
  BY <1>7 DEF Announce
<1>8. CASE LeaveLoop
  BY <1>8 DEF LeaveLoop
<1>9. CASE StopServer
  BY <1>9 DEF StopServer
<1>10. CASE CloseDatabase
  BY <1>10 DEF CloseDatabase
<1>11. CASE ExitLibrary
  BY <1>11 DEF ExitLibrary
<1>12. CASE Return
  BY <1>12 DEF Return
<1> QED
  BY <1>1, <1>2, <1>3, <1>4, <1>5, <1>6, <1>7, <1>8, <1>9, <1>10, <1>11, <1>12 DEF Main

LEMMA PhasesStep ==
    ASSUME TypeOK, Phases, Registering, [Next]_vars
    PROVE  Phases' /\ Registering'
<1> USE DEF shared, lifetime
<1>1. CASE Boot
  BY <1>1 DEF Boot, GoMain, Phases, Registering, Serving, HasDatabase, HasLibrary
<1>2. CASE Kill
  BY <1>2 DEF Kill, Vanish, GoMain, Phases, Registering
<1>3. CASE Signal
  BY <1>3, PhasesKept DEF Signal
<1>4. CASE Main
  BY <1>4, MainKeepsPhases DEF TypeOK
<1>5. CASE LogAddresses
  BY <1>5, PhasesKept DEF LogAddresses
<1>6. ASSUME NEW r \in Requests, Accept(r) \/ Handle(r)
      PROVE  Phases' /\ Registering'
  BY <1>6, HandlersLeaveMain, PhasesKept
<1>7. CASE UNCHANGED vars
  BY <1>7, PhasesKept DEF vars
<1> QED
  BY <1>1, <1>2, <1>3, <1>4, <1>5, <1>6, <1>7 DEF Next, Rest

--------------------------------------------------------------------------------
(***************************************************************************)
(* Where the requests are.                                                 *)
(***************************************************************************)
LEMMA InitInOrder == ASSUME Init, NEW r \in Requests PROVE InOrder(r)
BY DEF Init, InOrder, AtWork

\* A step that leaves r, its call and its files and rows alone keeps r in order as long as
\* it keeps the workers and the mutex r relies on.
LEMMA InOrderKept ==
    ASSUME NEW r \in Requests, InOrder(r),
           at'[r] = at[r], call'[r] = call[r], reply'[r] = reply[r],
           r \in files' <=> r \in files,
           r \in unwritten' <=> r \in unwritten,
           r \in rows' <=> r \in rows,
           r \in rowless' <=> r \in rowless,
           AtWork(r) => main' \in Serving,
           at[r] = "print" => mtx_print' = r
    PROVE  InOrder(r)'
BY DEF InOrder, AtWork

LEMMA InOrderUntouched ==
    ASSUME NEW r \in Requests, InOrder(r), UNCHANGED <<mtx_print, requests>>,
           AtWork(r) => main' \in Serving
    PROVE  InOrder(r)'
BY InOrderKept DEF InOrder, requests, disk

\* main takes the workers away from no handler: mg_stop has waited for them.
LEMMA MainKeepsWorkers ==
    ASSUME NEW r \in Requests, AtWork(r), main \in Serving, Main
    PROVE  main' \in Serving
<1> USE DEF Serving, GoMain, shared
<1>1. CASE InstallSignals
  BY <1>1 DEF InstallSignals
<1>2. CASE InitLibrary
  BY <1>2 DEF InitLibrary
<1>3. CASE SpawnAddressThread
  BY <1>3 DEF SpawnAddressThread
<1>4. CASE OpenDatabase
  BY <1>4 DEF OpenDatabase
<1>5. CASE StartServer
  BY <1>5 DEF StartServer
<1>6. CASE Register
  BY <1>6 DEF Register
<1>7. CASE Announce
  BY <1>7 DEF Announce
<1>8. CASE LeaveLoop
  BY <1>8 DEF LeaveLoop
<1>9. CASE StopServer
  BY <1>9 DEF StopServer
<1>10. CASE CloseDatabase
  BY <1>10 DEF CloseDatabase
<1>11. CASE ExitLibrary
  BY <1>11 DEF ExitLibrary
<1>12. CASE Return
  BY <1>12 DEF Return
<1> QED
  BY <1>1, <1>2, <1>3, <1>4, <1>5, <1>6, <1>7, <1>8, <1>9, <1>10, <1>11, <1>12 DEF Main

LEMMA MainKeepsInOrder ==
    ASSUME NEW r \in Requests, InOrder(r), Main
    PROVE  InOrder(r)'
<1>1. AtWork(r) => main' \in Serving
  BY MainKeepsWorkers DEF InOrder
<1>2. CASE UNCHANGED <<mtx_print, requests>>
  BY <1>1, <1>2, InOrderUntouched
<1>3. CASE \E how \in {"failure", "success"} : Vanish(how, "cut")
  <2>1. main' = "off" /\ UNCHANGED <<call, reply, disk>>
    BY <1>3 DEF Vanish, GoMain
  <2>2. ~ AtWork(r)
    BY <1>1, <2>1 DEF Serving
  <2>3. at'[r] = at[r]
    BY <1>3, <2>2 DEF Vanish
  <2>4. at[r] # "print"
    BY <2>2 DEF AtWork
  <2> QED
    BY <1>1, <2>1, <2>3, <2>4, InOrderKept DEF disk
<1> QED
  BY <1>2, <1>3, MainAndRequests

\* A killed handler may have left its file without a row, and nothing else.
LEMMA KillKeepsInOrder ==
    ASSUME NEW r \in Requests, InOrder(r), Kill
    PROVE  InOrder(r)'
<1>1. UNCHANGED <<call, reply, files, unwritten, rows, rowless>>
  BY DEF Kill, Vanish, disk
<1>2. CASE AtWork(r)
  <2>1. at'[r] = "killed"
    BY <1>2 DEF Kill, Vanish
  <2> QED
    BY <1>1, <2>1 DEF InOrder, AtWork
<1>3. CASE ~ AtWork(r)
  <2>1. at'[r] = at[r] /\ at[r] # "print"
    BY <1>3 DEF Kill, Vanish, AtWork
  <2> QED
    BY <1>1, <1>3, <2>1, InOrderKept
<1> QED
  BY <1>2, <1>3

\* A request that is taken up has left nothing behind yet, and has a worker.
LEMMA AcceptKeepsInOrder ==
    ASSUME TypeOK, Phases, NEW r \in Requests, InOrder(r), Accept(r)
    PROVE  InOrder(r)'
<1>1. main' \in Serving
  <2>1. workers > 0
    BY AcceptNeedsWorkers
  <2>2. main # "off" /\ main' = main
    BY DEF Accept
  <2> QED
    BY <2>1, <2>2 DEF Phases
<1>2. at'[r] = "dispatch"
  BY DEF Accept, Goto, TypeOK, RequestTypeOK
<1>3. at[r] = "waiting" /\ UNCHANGED <<files, unwritten, rows, rowless>>
  BY DEF Accept, disk
<1>4. r \notin files' /\ r \notin rows'
  BY <1>3 DEF InOrder
<1> QED
  BY <1>1, <1>2, <1>4 DEF InOrder, AtWork

\* A handler's own steps.
LEMMA HandleKeepsInOrder ==
    ASSUME TypeOK, NEW r \in Requests, InOrder(r), Handle(r)
    PROVE  InOrder(r)'
<1>1. at \in [Requests -> Places]
  BY DEF TypeOK, RequestTypeOK
<1>2. main' = main
  BY HandlersLeaveMain
<1> USE DEF Goto, Answer, disk, AtWork
<1>3. CASE Dispatch(r)
  <2>1. at'[r] \in {"method", "done"} /\ at[r] = "dispatch"
    BY <1>1, <1>3 DEF Dispatch
  <2>2. UNCHANGED <<call, files, unwritten, rows, rowless>>
    BY <1>3 DEF Dispatch
  <2> QED
    BY <1>2, <2>1, <2>2 DEF InOrder
<1>4. CASE CheckMethod(r)
  <2>1. at[r] = "method" /\ UNCHANGED <<call, files, unwritten, rows, rowless>>
    BY <1>4 DEF CheckMethod
  <2>2. \/ at'[r] \in {"store", "answer", "done"}
        \/ at'[r] = "log" /\ call[r].path = "/api/send"
    BY <1>1, <1>4 DEF CheckMethod, Begin
  <2>3. at'[r] = "answer" => call[r].path # "/api/upload"
    BY <1>1, <1>4 DEF CheckMethod, Begin
  <2> QED
    BY <1>2, <2>1, <2>2, <2>3 DEF InOrder
<1>5. CASE LockPrint(r)
  <2>1. at[r] = "log" /\ at'[r] = "print" /\ mtx_print' = r
    BY <1>1, <1>5 DEF LockPrint
  <2>2. UNCHANGED <<call, files, unwritten, rows, rowless>>
    BY <1>5 DEF LockPrint
  <2> QED
    BY <1>2, <2>1, <2>2 DEF InOrder
<1>6. CASE PrintFragment(r)
  BY <1>2, <1>6, InOrderKept DEF PrintFragment, InOrder
<1>7. CASE UnlockPrint(r)
  <2>1. at[r] = "print" /\ at'[r] = "row"
    BY <1>1, <1>7 DEF UnlockPrint
  <2>2. UNCHANGED <<call, files, unwritten, rows, rowless>>
    BY <1>7 DEF UnlockPrint
  <2> QED
    BY <1>2, <2>1, <2>2 DEF InOrder
<1>8. CASE StoreFile(r)
  <2>1. at[r] = "store" /\ UNCHANGED <<call, rows, rowless>>
    BY <1>8 DEF StoreFile
  <2>2. r \notin rows /\ (AtWork(r) => main' \in Serving)
    BY <1>2, <2>1 DEF InOrder
  <2>3. CASE at'[r] = "row"
    <3>1. r \in files' \/ r \in unwritten'
      BY <1>1, <1>8, <2>3 DEF StoreFile
    <3> QED
      BY <2>1, <2>2, <2>3, <3>1 DEF InOrder
  <2>4. CASE at'[r] # "row"
    <3>1. at'[r] = "done" /\ reply'[r] = "400"
      BY <1>1, <1>8, <2>4 DEF StoreFile, TypeOK, RequestTypeOK
    <3> QED
      BY <2>1, <2>2, <3>1 DEF InOrder
  <2> QED
    BY <2>3, <2>4
<1>9. CASE SaveRow(r)
  <2>1. at[r] = "row" /\ at'[r] = "answer" /\ (r \in rows' \/ r \in rowless')
    BY <1>1, <1>9 DEF SaveRow
  <2>2. UNCHANGED <<call, files, unwritten>>
    BY <1>9 DEF SaveRow
  <2> QED
    BY <1>2, <2>1, <2>2 DEF InOrder
<1>10. CASE SendReply(r)
  <2>1. at[r] = "answer" /\ at'[r] = "done"
    BY <1>1, <1>10 DEF SendReply
  <2>2. UNCHANGED <<call, files, unwritten, rows, rowless>>
    BY <1>10 DEF SendReply
  <2> QED
    BY <1>2, <2>1, <2>2 DEF InOrder
<1> QED
  BY <1>3, <1>4, <1>5, <1>6, <1>7, <1>8, <1>9, <1>10 DEF Handle

\* What a request's step does to another one: nothing, if the other one has the mutex.
LEMMA OthersKeepInOrder ==
    ASSUME TypeOK, NEW r \in Requests, InOrder(r),
           NEW q \in Requests, InOrder(q), q # r, Accept(q) \/ Handle(q)
    PROVE  InOrder(r)'
<1>1. AtWork(r) => main' \in Serving
  BY HandlersLeaveMain DEF InOrder
<1>2. at'[r] = at[r] /\ call'[r] = call[r] /\ reply'[r] = reply[r]
  BY DEF TypeOK, RequestTypeOK, Accept, Handle, Dispatch, CheckMethod, LockPrint,
         PrintFragment, UnlockPrint, StoreFile, SaveRow, SendReply, Answer, Goto
<1>3. /\ r \in files' <=> r \in files
      /\ r \in unwritten' <=> r \in unwritten
      /\ r \in rows' <=> r \in rows
      /\ r \in rowless' <=> r \in rowless
  BY DEF Accept, Handle, Dispatch, CheckMethod, LockPrint, PrintFragment, UnlockPrint,
         StoreFile, SaveRow, SendReply, Answer, disk
<1>4. at[r] = "print" => mtx_print' = r
  <2> SUFFICES ASSUME at[r] = "print"
               PROVE  mtx_print' = r
    OBVIOUS
  <2>1. mtx_print = r /\ r # NoRequest
    BY ServerProcessAssumption DEF InOrder
  <2>2. ~ LockPrint(q)
    BY <2>1 DEF LockPrint
  <2>3. ~ UnlockPrint(q)
    BY <2>1 DEF UnlockPrint, InOrder
  <2> QED
    BY <2>1, <2>2, <2>3 DEF Accept, Handle, Dispatch, CheckMethod, PrintFragment, StoreFile,
                            SaveRow, SendReply, Answer
<1> QED
  BY <1>1, <1>2, <1>3, <1>4, InOrderKept

LEMMA InOrderStep ==
    ASSUME IInv, [Next]_vars
    PROVE  \A r \in Requests : InOrder(r)'
<1> SUFFICES ASSUME NEW r \in Requests
             PROVE  InOrder(r)'
  OBVIOUS
<1>1. InOrder(r) /\ TypeOK /\ Phases
  BY DEF IInv
<1>2. CASE Boot
  <2>1. ~ AtWork(r) /\ UNCHANGED <<mtx_print, requests>>
    BY <1>1, <1>2 DEF Boot, InOrder, Serving
  <2> QED
    BY <1>1, <2>1, InOrderUntouched
<1>3. CASE Kill
  BY <1>1, <1>3, KillKeepsInOrder
<1>4. CASE Signal
  BY <1>1, <1>4, InOrderUntouched DEF Signal, InOrder
<1>5. CASE Main
  BY <1>1, <1>5, MainKeepsInOrder
<1>6. CASE LogAddresses
  BY <1>1, <1>6, InOrderUntouched DEF LogAddresses, InOrder
<1>7. ASSUME NEW q \in Requests, Accept(q) \/ Handle(q)
      PROVE  InOrder(r)'
  <2>1. CASE q = r
    BY <1>1, <1>7, <2>1, AcceptKeepsInOrder, HandleKeepsInOrder
  <2>2. CASE q # r
    <3>1. InOrder(q)
      BY DEF IInv
    <3> QED
      BY <1>1, <1>7, <2>2, <3>1, OthersKeepInOrder
  <2> QED
    BY <2>1, <2>2
<1>8. CASE UNCHANGED vars
  BY <1>1, <1>8, InOrderUntouched DEF vars, InOrder
<1> QED
  BY <1>2, <1>3, <1>4, <1>5, <1>6, <1>7, <1>8 DEF Next, Rest

--------------------------------------------------------------------------------
(***************************************************************************)
(* The theorems.                                                           *)
(***************************************************************************)
LEMMA Invariance == Spec => []IInv
<1>1. Init => IInv
  BY InitType, InitPhases, InitInOrder DEF IInv
<1>2. IInv /\ [Next]_vars => IInv'
  BY TypeStep, PhasesStep, InOrderStep DEF IInv
<1> QED
  BY <1>1, <1>2, PTL DEF Spec

\* main, the threads and the requests stay at the statements they have.
THEOREM TypeInvariant == Spec => []TypeOK
<1>1. IInv => TypeOK
  BY DEF IInv
<1> QED
  BY <1>1, Invariance, PTL

\* A handler has the library, the schema and a worker for as long as it runs, and after any
\* return of main nothing is left open: however many requests there are and wherever the
\* signals, failures and kills fall.
THEOREM ResourcesHeld == Spec => []ResourcesInOrder
<1>1. IInv => ResourcesInOrder
  <2> SUFFICES ASSUME IInv
               PROVE  ResourcesInOrder
    OBVIOUS
  <2>1. ASSUME NEW r \in Requests, AtWork(r)
        PROVE  library /\ database /\ workers > 0
    <3>1. main \in Serving
      BY <2>1 DEF IInv, InOrder
    <3>2. main # "off" /\ main \in HasLibrary /\ main \in HasDatabase
      BY <3>1 DEF Serving, HasLibrary, HasDatabase
    <3> QED
      BY <3>1, <3>2 DEF IInv, Phases
  <2>2. ASSUME ended \in {"failure", "success"}
        PROVE  ~ library /\ ~ database /\ workers = 0
    <3>1. main = "off"
      BY <2>2 DEF IInv, Phases
    <3> QED
      BY <2>2, <3>1 DEF IInv, Phases
  <2> QED
    BY <2>1, <2>2 DEF ResourcesInOrder
<1> QED
  BY <1>1, Invariance, PTL

\* Files and history agree, up to the failed files, refused rows and refused forms that
\* the property names, over any number of kills and restarts.
THEOREM FilesAndHistory == Spec => []FilesMatchHistory
<1>1. IInv => FilesMatchHistory
  <2> SUFFICES ASSUME IInv
               PROVE  FilesMatchHistory
    OBVIOUS
  <2>1. rows \subseteq Requests /\ files \subseteq Requests
    BY DEF IInv, TypeOK, RequestTypeOK
  <2>2. \A r \in Requests : InOrder(r)
    BY DEF IInv
  <2>3. \A r \in rows : call[r].path = "/api/upload" => r \in files \cup unwritten
    BY <2>1, <2>2 DEF InOrder
  <2>4. \A r \in files \ rows :
          AtWork(r) \/ at[r] = "killed" \/ r \in rowless \/ reply[r] = "400"
    BY <2>1, <2>2 DEF InOrder
  <2> QED
    BY <2>3, <2>4 DEF FilesMatchHistory
<1> QED
  BY <1>1, Invariance, PTL

\* mtx_print keeps the texts of any number of workers apart.
THEOREM TextsWhole == Spec => []LoggedTextsWhole
<1>1. IInv => LoggedTextsWhole
  BY DEF IInv, InOrder, LoggedTextsWhole
<1> QED
  BY <1>1, Invariance, PTL

\* Once the server says it has started, every operation of its catalogue is served.
THEOREM CatalogueServed == Spec => ListedIsServed
<1>1. IInv /\ [Next]_vars =>
        [\A r \in Requests :
            started /\ call[r] # NoCall /\ reply'[r] # reply[r] /\ Listed(call[r])
                => reply'[r] \notin {"document root", "405"}]_vars
  <2> SUFFICES ASSUME IInv, Next, NEW r \in Requests,
                      started, reply'[r] # reply[r], Listed(call[r])
               PROVE  reply'[r] \notin {"document root", "405"}
    OBVIOUS
  <2>1. reply \in [Requests -> Replies \cup {NoReply}]
    BY DEF IInv, TypeOK, RequestTypeOK
  <2>2. call[r].path \in Registered /\ Accepts(call[r])
    <3>1. Registered = {"/api/send", "/api/upload", "/api/openapi.json"}
      BY HandlersLength DEF IInv, Registering
    <3> QED
      BY <3>1 DEF Listed, Endpoints, Accepts
  <2>3. Handle(r)
    <3>1. ~ Boot /\ ~ Kill /\ ~ Signal /\ ~ LogAddresses /\ ~ Rest
      BY DEF Boot, Kill, Vanish, Signal, LogAddresses, Rest, vars, requests
    <3>2. ~ Main
      BY MainAndRequests DEF Vanish, requests
    <3>3. ASSUME NEW q \in Requests, Accept(q) \/ Handle(q)
          PROVE  Handle(r)
      <4>1. ~ Accept(q)
        BY DEF Accept
      <4>2. q = r
        BY <2>1, <3>3 DEF Accept, Handle, Dispatch, CheckMethod, LockPrint, PrintFragment,
                          UnlockPrint, StoreFile, SaveRow, SendReply, Answer
      <4> QED
        BY <3>3, <4>1, <4>2
    <3> QED
      BY <3>1, <3>2, <3>3 DEF Next
  <2>4. StoreFile(r) \/ SendReply(r)
    BY <2>2, <2>3 DEF Handle, Dispatch, CheckMethod, LockPrint, PrintFragment, UnlockPrint,
                      SaveRow
  <2> QED
    BY <2>1, <2>4 DEF StoreFile, SendReply, Answer
<1> QED
  BY <1>1, Invariance, PTL DEF Spec, ListedIsServed
================================================================================
