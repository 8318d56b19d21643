# SendingSystem in TLA+

SendingSystem sends texts and files from an Android phone to a desktop server. The server
(C, CivetWeb, SQLite) answers `POST /api/send` (a JSON text, to be logged or saved to a file)
and `POST /api/upload` (a multipart form with files), keeps files in `SAVE_DIR` and a history
of requests and responses in SQLite. The phone keeps a history of its own in Room.

These modules specify the server's state and the client's, the TLC configurations check them
on small instances, and TLAPS proves the theorems about them for any instance.

## The system

| part | state | operations | talks to |
|---|---|---|---|
| handlers (`handlers/*.c`) | per request: connection id, built response, file | `/api/send`, `/api/upload` on CivetWeb's worker threads | database, `SAVE_DIR` |
| `SAVE_DIR` and `mtx_fprint` | files, open handles, one mutex | `save_text_to_file`, `on_field_found`, CivetWeb's streaming, `on_field_store` | file system |
| database (`Database.c`, `*_repository.c`, `CreateDatabase.sql`) | seven tables, row ids, SQLite's write lock | open with schema script, CRUD, `connection_get_or_create`, `message_get_last_successful` | SQLite |
| life cycle (`Server.c`) | `keep_running`, library, database handle, worker pool, handlers, address thread, `mtx_print` | start, signals, stop | all of them |
| file names (`sanitize_filename`, `Connector.sanitizeFilename`) | none | pure functions | handlers, client |
| client sending (`SendDataViewModel`, `Connector`) | `isSending`, the shared connector, Room tables | `SendData` | server, Room |
| client activity (`MainActivity`) | form fields, selected file | clicks, intents, two worker threads | `SendData` |
| address discovery (`util/get_*_ip*.c`) | lists and borrowed blocks of one call | enumerate subnets, ask the router, ask a service | network, terminal |
| row structs, `read_file_full` (`database_models.c`, `FileService.c`) | heap blocks of one call | get, get_all, free, read the schema | database |
| OpenAPI document, printing | none that outlives a call | `/api/openapi.json`, `print_info` | terminal |

What is hard here: workers that race through several short database transactions each; a
database that refuses a second writer at once; files that two pieces of code open by name,
one of them outside the mutex; failures half-way through "store the file, find the peer,
record the request, answer"; a process that is stopped or killed between any two of these
steps; helpers that give up at any allocation; and on the phone, worker threads that outlive
the screen that started them. `PROJECT.json` lists each hazard at its line.

## Modules

### MessageLog

What a program with a Message table promises about its history, without processes or locks: a
request is recorded at most once, before it is answered, under its peer, and its answer is the
one on record. It is the abstract specification that both histories implement, the server's in
`RequestHandlers` and the phone's in `ClientSend`. A request may be answered without a record:
the server's sources promise otherwise, and run `handlers_unrecorded` shows that they do not
keep it.

### RequestHandlers

One process per request. `pc[r]` is the place in the handler; an action is the code between
two points at which another worker can interfere.

| code | actions |
|---|---|
| CivetWeb's pool (`Server.c:222-252`) | `Accept`, bounded by `NumThreads` |
| method check | `CheckMethod` |
| `save_connection`: open, SELECT, INSERT, rowid | `OpenForConnection`, `FindConnection`, `InsertConnection`, `ReturnRowid`, `SaveConnectionFails` |
| `/api/send`: body, JSON, early returns, branches | `RejectBody`, `LogText`, `SaveText` |
| `/api/upload`: form, early returns | `StoreFile`, `RejectForm` |
| `save_message`: open, INSERT | `OpenForMessage`, `InsertMessage`, `SaveMessageFails` |
| `http_send_built_json` | `SendReply` |
| SQLite's write lock | `BeginWrite`, `Commit`, `StatementFails` |

`connection` and `message` are the two tables, `writer` is the request whose handle has
SQLite's write lock. `database_open` runs the schema script on every handle, and the script's
`INSERT OR IGNORE` makes it a writer: a request writes four times. No busy timeout is
set, so a statement that meets a writer fails. Rows are never deleted by the server, so a row
id is a position in a sequence. A database fault is any failure inside `database_open` or a
statement, those of `read_file_full` (fopen, malloc) among them. `stored` says that the request
has written a file of its own in full, and no more: what becomes of it when others save under
its name, or when a write fails unnoticed, is the next module's subject. A form that breaks off
is refused although its first parts may be on disk (`RejectForm`). A body for which cJSON gets no
memory goes out empty or without a member (`"damaged"`): nobody looks at its result.

### SaveDirectory

The same two handlers seen from the file system. `inode[n]` is the file called `n`, `data[n]` says
which request and part wrote each of its chunks, `stream[r]` is the inode r writes to, `fp[r]` is
`u->fp`. Texts: `Lock`, `OpenText`, `WriteChunk`, `CloseText`. Uploads: for each part `Lock`,
`OpenPart` (`on_field_found`), `OpenStream`, `WriteChunk`, `CloseStream` or `AbandonPart`
(CivetWeb), `FieldStore`, `NextPart`, and `Return` at the end. A file that is removed or recreated
while another request streams to it gets a new inode, as on a POSIX system. A text may be cut
short anywhere and is answered "File saved" all the same: the results of fputs and fclose are not
looked at (fault `"text"`, in `CloseText`). What CivetWeb does between the callbacks is outside
the repository; it is modelled from what the handlers rely on and marked external in the map.

### Repositories

All functions of the seven repositories as calls in any order on one handle. `Repository(t)`
is the pattern they share (insert, update, delete, get, get_all), instantiated once per
table; `ConnectionGetOrCreate` and `MessageGetLastSuccessful` are the two others. `Valid` and
`Referenced` are the schema's constraints, `sequence` is AUTOINCREMENT's memory. `result`
records the last call, so that properties can speak of what a caller gets.

### ClientSend

The phone. A *screen* is a place for one `MainActivity` with its `SendDataViewModel` and
`Connector`; several can be alive at once (a share opens another, and the worker of a
screen that was rotated away runs on). They share the Room database.

| code | actions |
|---|---|
| `onCreate`, `onSendClicked`, the worker's last post | `Create`, `Click`, `EnableButton` |
| `SendData`: check, SELECT, INSERT, SELECT, fields, `finally` | `Validate`, `FindConnection`, `InsertConnection`, `Configure`, `Record` |
| `Connector.sendData`, `client`, `execute` | `StartSending`, `Execute` |
| `ServerResponse.fromJson` and the toast | `Show` |
| `AppDatabase`: creation, the executor of `onCreate` | `CreateDatabase`, `Seed` |
| the system ends the process | `Kill` |

The phone's history is MessageLog's: `Click` is the arrival of a request whose peer is the
server of the form, `Record` the record, `Show` the answer, and all other steps, the end of the
process among them, change nothing there. A row's response is what the user would be told if
the row's text were read back.

`Connection` and `Message` rows are positions in sequences: the client never deletes a row.
`sends` and the `send` of a row are history: they name the click a request, a row or a toast
belongs to, so that properties can compare what the code cannot. A form is a record whose
texts, files and names are model values; `sanitizeFilename` is any idempotent function.

### ServerProcess

The server's process and the one started after it. `main` is the statement main is at.

| code | actions |
|---|---|
| the process starts, dies, is signalled (`on_signal`) | `Boot`, `Kill`, `Signal` |
| `install_signals`, `mg_init_library`, the thread, `database_open`, `mg_start` | `InstallSignals`, `InitLibrary`, `SpawnAddressThread`, `OpenDatabase`, `StartServer` |
| `mg_set_request_handler` three times, "Server started", the loop | `Register`, `Announce`, `LeaveLoop` |
| `mg_stop`, `database_close`, `mg_exit_library`, `return` | `StopServer`, `CloseDatabase`, `ExitLibrary`, `Return` |
| `log_addresses_worker` | `LogAddresses` |
| CivetWeb: a worker takes a connection, finds its handler or document_root | `Accept`, `Dispatch` |
| a handler's steps, as far as a dying process can come between them | `CheckMethod`, `LockPrint`, `PrintFragment`, `UnlockPrint`, `StoreFile`, `SaveRow`, `SendReply` |

Each early return of main is the second branch of the action it belongs to, and ends in
`Vanish`: threads, mutex and unanswered requests are gone, `files` and `rows` stay. The flags
of main (`library`, `database`, `workers`) keep the value they had when it returned, so that
"nothing is left open" can be said of every return. Requests arrive as soon as
`mg_start` has returned, and until the loop is left; a handler that is at work is waited for.
`StoreFile` has the three ways a form ends: its file is there; it failed to be opened or written
and the handler goes on (`unwritten`); or the form has no file or breaks off, by its client or
because `mg_stop` cuts the read, and is refused with what it has left on disk. `unwritten` and
`rowless` are history: the uploads whose file failed, the requests whose repository calls did.

### Filenames, AddressLog, OwnedMemory

Three helpers, each with a short life and no other process. One action is one round of a loop
or one call of a library, so that a cut, a failure or an early return can fall between any two.

- `Filenames`: `sanitize_filename` over four classes of characters. `Copy` is a round of the
  regex loop with its two cuts, `Collapse` a round of the strstr loop, `Strip` the rest.
  `ClientSanitized` is the client's function, by what its three replacements do.
- `AddressLog`: `log_addresses_worker` with `enumerate`, UPnP and HTTP. Addresses and masks
  are sequences of bits; `PushOutcomes` is what `push_ip` may return, failures included.
  `SubnetOf` is the reference definition, from the comment at the head of
  `get_server_ip_addresses.c`; `KeyOf` is the code's.
- `OwnedMemory`: get and get_all of the seven repositories, the free functions of the row
  structs, and `database_open` with `read_file_full`. Every allocation may fail. The caller
  releases an array with `X_free_all` and a single struct with `X_free`, as the headers say; no
  caller of a get is in the sources.

### MC modules and proofs

`MCRequestHandlers`, `MCSaveDirectory`, `MCRepositories`, `MCClientSend` and `MCServerProcess`
define the instances; `MCHelpers` runs the three helpers in one process, one at a time.
The theorems are in `RequestHandlersProofs`, `SingleWorkerProofs` (the same module with one
worker), `SaveDirectoryProofs`, `ServerProcessProofs`, `RepositoriesProofs`, `ClientSendProofs`,
`FilenamesProofs` and `HelpersProofs` (`OwnedMemory` and `AddressLog` as `MCHelpers` composes
them).

## Runs

| run | instance | result |
|---|---|---|
| `handlers` | 2 requests, 2 workers, all calls of one peer, a text and a file of a second, all faults | history unique, attributed, ahead of the answers; every called handler answers; implements `MessageLog` (166,349 states) |
| `handlers_single_thread` | 3 requests, 1 worker, memory and file faults | answered means recorded, a server error means no file (487,181 states) |
| `handlers_unrecorded` | 2 requests, 2 workers, texts, no faults | violated: answered 200, no row |
| `handlers_not_stored` | 1 worker, file faults | violated: "File(s) received", SUCCESS row, no file |
| `save_directory` | 2 requests, texts of 1 and 2 chunks, forms of 1 and 2 parts, all faults | texts never mix, cut short or not, stored parts stay, nothing left open or locked (124,415 states) |
| `save_directory_mixed` | 2 uploads of one name | violated: the file mixes both |
| `repositories` | ids up to 3, NULL, '' and a text as ip, two roles, all calls, reopening | references hold, ids not reused, known peers found, only a peer with no ip refused (184,608 states) |
| `repositories_last_ok` | messages of both statuses | violated: a FAILED message is "the last successful" |
| `client_send` | 2 screens, 2 sends of 4 forms, killed at any time | requests match forms, rows match sends, history complete, button comes back; implements `MessageLog` (85,644 states) |
| `client_refused` | 1 send | violated: refused by the server, shown as an error, kept as SUCCESS |
| `lifecycle` | 2 requests of 5 calls, 2 starts, -1, 1 or 2 processors, kills, signals, all start-up and file failures, forms that break off | nothing open after a return, nothing closed under a handler, files match history up to what the handler lets pass, the catalogue is served, a signal ends the server (498,629 states) |
| `helpers` | names up to 7 characters, pairs of interfaces of each family and triples of mixed ones, tables of up to 3 rows, any failing allocation | saved names are safe and the client's are kept, one address per subnet, nothing freed twice and nothing leaked but the struct of a get (279,636 states) |

**Bounds.** Two requests are enough for every interference here: each hazard is a pair (two
first requests of one peer, two writers, two saves under one name), and the handlers have no
state that counts requests. The single-worker run takes three so that a Connection row can be
created, found again, and found by a request that fails. Two chunks distinguish a complete file
from a prefix and from a mixture; two parts distinguish the last part from an earlier one, with
names equal and different. The proofs remove these bounds. In `repositories` the ids are bounded
by `MaxId`: three Connection ids allow a row to be deleted and another inserted while a third is
referred to. Two sends show what one leaves to the next in a Connector or the database, and two
screens what workers do to each other; more sends only repeat these pairs. `MCFaults`, `MCJobs`,
`MCArguments`, `MCConfigs` say which inputs are enumerated, and each is a set the program can
meet. In `lifecycle` two requests fill the pool of two or queue for the pool of one, and two
starts let a second process find what the first one left. The five calls are one of each
handler, one that is refused for its method, and the one answered without a body. In `helpers`
`MAX_FILENAME` is 5: two pairs of dots fit, and with names of up to 7 characters both cuts
happen before, at and behind an invalid character and a dot. IPv4 has 3 bits and IPv6 two bytes
of 2 bits, so that prefixes are 0, full, within a byte and at its boundary; masks are those of
networks, ones and then zeros. First capacities are 1 instead of 8, so that arrays of 2 and 3
grow twice.

**Fairness.** `FairSpec` gives weak fairness to the handler of each request: a worker
thread that has begun keeps running. Nothing is assumed of clients (`Accept`, `Start` carry no
fairness), of faults, or of the mutex: `Lock` needs only weak fairness because no other
request asks for the mutex without end. `Idle` is there because the system may rest when
all requests are done; deadlock is checked in every run. In `ClientSend` the workers, the UI
thread and the executor that fills the tables run; that a worker leaves `Execute` is due to
the connect, read and write timeouts the Connector sets (Connector.java:431-434). The user
and the system's killing are not fair. In `ServerProcess` main and the handlers keep running;
the address thread, which waits for a network, is not fair, and nobody has to send a signal or
a request or start the server. That `StopServer` comes to pass although new requests could
arrive is due to `mg_stop`, which lets nobody in (`Accept` asks for `main # "join"`).

**Findings.** The five violated runs are disagreements between the sources' words and their
code; `PROJECT.json` quotes them. In short: with more than one CPU, a concurrent request can be
answered without being recorded, because of SQLITE_BUSY; a failed fopen or write is reported as
success; `mtx_fprint` does not cover uploads; `k_lastok` asks for FAILED; the client records a
refusal as SUCCESS.

**Smaller divergences**, seen while modelling, without a run of their own because no state
depends on them or the models state what does hold:

- `Server.c:256` announces "POST" for `/api/openapi.json`; its handler answers POST with 405,
  and the catalogue lists GET. `ListedIsServed` is about the catalogue.
- `Server.c:59` and `PrintProcedures.h` ask callers to hold `mtx_print`; only
  `api_send.c:216-218` does. `LoggedTextsWhole` is about those texts, and the only promise kept.
- `connection_get_or_create` looks for `ip = ?`, which no NULL equals, while the unique index
  takes NULL for ''. The second call for a peer with no ip therefore returns -1 instead of the
  row; `FoundIsReturned` excepts it, and `RefusedHasNoIp` says that it is the only exception. The
  handlers always have an address.
- The headers of the repositories say that the struct a get returns is released with `X_free`
  (message_repository.h:60-61 and 88, connection_repository.h:56-57, and their like). `X_free`
  frees the strings only (database_models.c:228-236), so that this release leaks the struct: the
  place `released` of `OwnedMemory`, which `HeapReturned` states. Nothing in the sources calls a
  get yet.
- `api_upload.c:204-206` refuses a form that breaks off without a row and without removing the
  parts it has stored. `ErrorLeavesNoFile` is therefore about server errors, and
  `FilesMatchHistory` lists such forms among what the handler lets pass, with the SUCCESS row of a
  file that could not be opened (api_upload.c:112-117; run `handlers_not_stored`).
- `MAX_UPLOAD_SIZE` (`config.h:67`) is declared and read by nobody.
- The comment in `get_server_ip_addresses.c` defines a prefix as popcount(mask), the code counts
  leading ones. They differ for masks with holes, which no network has: `AddressLog` assumes
  that IPv4 masks are ones and then zeros (`Contiguous`). An IPv6 prefix is a number, and needs
  no such assumption.
- `Connector.sanitizeFilename` says that it mirrors the server. The two differ ("..." becomes
  "_" on the phone and "_." on the server; an empty name stays empty on the phone and becomes
  "unnamed.dat" on the server), but what the client has sanitised the server keeps, up to its
  limit: `ClientNameKept`. The limit is MAX_FILENAME - 1 characters, or MAX_FILENAME if the last
  one is an underscore for an invalid character.

## Proofs

`RequestHandlersProofs`: for any number of requests, peers and workers, any calls and faults.
The invariants of the run are not inductive: that a row belongs to the peer of its request
depends on what its handler held several steps earlier. `IInv` adds what a handler may rely
on between its steps: it has a call iff it was accepted (`CalledWhenServed`), the rowid it is
about to read is a row of its peer (`RowidIsOwn`), so is the id it keeps (`IdIsOwn`),
a response and an id exist before they are used (`ReadyToRecord`), a row is what its
handler's variables say and they do not change any more (`RowsAreFinal`), the answer is the
last step (`AnswerIsLast`). Almost every step changes only its own handler's variables and
extends the tables: one lemma (`OwnStep`) covers those, and the two INSERTs are
treated separately. From `IInv` follow type correctness, `UniquePeer`, `RowsAttributed`,
`RowMatchesReply`, `OneRowPerRequest`, the action property `PersistBeforeReply`, and the
refinement: each step is a step of `MessageLog` or leaves it alone.

`SingleWorkerProofs`: what holds only if CivetWeb has one worker and the database does not fail
by itself, for any number of requests and peers. One request is at work and only its handle
writes (`ServedAlone`), so no statement meets another writer. Then a peer that is about to be
inserted has no row (`PeerIsNew`), save_connection has an id to return (`IdIsKnown`), a response
that is built reaches the history (`BuiltIsRecorded`), and what is stored is followed by a 200,
or by the 400 of a form that broke off behind it (`StoredForSuccess`). `AnsweredIsRecorded` and
`ErrorLeavesNoFile` follow; with two workers the first is false (run `handlers_unrecorded`).

`SaveDirectoryProofs`: for any number of requests, names, forms of any length and all faults.
`IInv` says that a request at work is at one of its parts (`Served`), what places a text can be at
(`TextPath`), who holds the mutex (`MutexHeld`), that inodes are told apart and a stream reaches
only the name it opened (`StreamsReach`), that a file only texts are saved to is what the one
writer has written or else what a text that was reported saved has (`TextFiles`), and that an open
`u->fp` which will be overwritten belongs to a skipped part (`HandlesCounted`). `PartsKept` is
about names no other request asks for: from the open of its stream to the report only that stream
writes the file, which is then in full, and a stored part stays unless a later part of the same
form has its name. From the invariant follow `TextFilesIntact`, `NothingLeftOpen` and
`StoredPartsKept`; and, if fputs and fclose do not fail, that the texts are whole
(`TextFilesWholeInvariant`). `FilesOfOne` bounds the finding of run `save_directory_mixed`: a name
that only one request saves under holds one complete text or part whenever that request is not at
work (`OwnFiles`), whatever else is saved beside it and whichever clients are lost. It excludes
two failures: a text cut short by fputs or fclose, and a path that CivetWeb cannot open after
`on_field_found` has truncated it, which leaves an empty file. `ReportedOnDiskInvariant` bounds
the finding of run `handlers_not_stored`, on the disk itself: unless a file cannot be opened,
written or closed, a request that is answered "File saved" or "File(s) received" has each of its
files there in full, for the names it does not share with others (`Reported`: the parts a form has
passed are stored).

`ServerProcessProofs`: for any finite number of requests, any calls, processor counts and faults,
and any number of starts. `IInv` says what main owns at each of its statements (`Phases`), how
many handlers are registered there (`Registering`), and for each request where its handler may be,
what it has left behind and whether it holds the mutex (`InOrder`). The argument turns on one
fact: a request at work means that main is between `mg_start` and `mg_stop` (`Serving`). A free
worker gives it when the request is taken, `StopServer` keeps it because it waits, and main's
returns all lie outside `Serving`, so that they cut nobody off and only a kill, a refused row or a
refused form can leave a file without its row. Most steps leave a request as it was
(`InOrderKept`). `ResourcesInOrder`, `FilesMatchHistory` and `LoggedTextsWhole` follow, and
`ListedIsServed` from `Registering`: after "Server started" all three URIs are registered.

`RepositoriesProofs`: for any addresses, ids and order of calls. `ForeignKeysHold` and
`OneRowPerPeer` (no two rows of one peer) are inductive with two additions: types, and that the
script's row ids are below what AUTOINCREMENT gives out (`SeedsBelowSequence`: when the script
puts a deleted reference row back, its id is still one that was given out before). A row that is
`Valid` when it is put, a DELETE only of what nobody refers to, and a script that only adds rows
to reference tables keep the rest. `IdsNeverReused`, `FoundIsReturned` and `RefusedHasNoIp` are
action properties of the same invariant. For the last, a peer with an ip whose INSERT meets the
unique index has the very row that the SELECT looks for, and would have been found.

`ClientSendProofs`: for any screens, sends, forms and kills, all eight invariants of the run.
The screens share only the tables, so `IInv` says that each send has one worker
(`OneWorkerEach`), then what a worker may rely on at each of its steps (`WorkerOK`), what stays
true of a send and of a row (`SendOK`, `RowOK`), and that a Connection row exists only when the
last reference table, the roles, is filled (`RolesFirst`), so that its foreign keys are met. A
step changes one worker, and `OwnStep` covers what it leaves to the others. That the request
sent is the one the user asked for needs `sanitizeFilename` to be idempotent: `ClientSend`
assumes it, and `FilenamesProofs` proves it of the client's function (`ClientSanitizesOnce`).
`PhoneRefinement` shows that the phone's history implements `MessageLog`. It needs two more
facts: a worker that is about to show has a row of its send with the status and answer it will
read (`WorkerOK`), and the user was told of a response exactly if the answer was a message
(`SendOK`). `HistoryDivergence` bounds the finding of run `client_refused`: the row of a send that
was told says SUCCESS exactly if the user was told of a response, but for sends answered with
an Error body.

`FilenamesProofs`: for names of any length and every limit of at least 3. What has been copied
fits and has no invalid character (`Named`), behind the second loop there is no pair of dots
either (`Whole`), and what is returned does not begin with a dot and is not empty (`Saved`).
`SanitizeEnds` gives the loops a variant: `Left` counts what is left of a call, and every round
makes it smaller (a round of the first loop reads a character, one of the second makes the name
a character shorter).

The client's function is three replacements. The second, of each run of two or more dots by one
underscore, is a recursive function over the characters (`ClientClean`), so its facts need
inductions. The library's induction theorems take an operator as a parameter, which is out of the
prover's reach; instead `LeastNatural` takes a least counterexample from the well-foundedness of
the naturals, and `CountingUp` makes of it an induction over a set of numbers. The recursion has a
solution (`ClientCleanSolves`), and what is said of the characters so far is true of all. It gives
`ClientSanitizesOnce`: what the function has made has no invalid character, no pair of dots and no
leading dot, which is all it would change. `ClientNamesKept`: such a name reaches the server,
whose first loop copies it in one round (`CopiedWhole`) up to the limit, and whose other steps
find nothing to change (`KeptSoFar`). The theorems are about `FilenamesSpec`, the helper by
itself.

`HelpersProofs`: for any number of rows, capacities and lists of interfaces, and whatever call
fails. At each place of a call the invariant says exactly which blocks are on the heap and
which file is open; an early return leaves none, and a get that was released as documented leaves
its struct, which is `HeapReturned`. `NamesInvariant`
carries the theorems about names over to the three helpers composed.

`OneAddressPerSubnet` has two parts. `SameKeySameSubnet` is about the operators: two nodes have
one key (text of the masked bytes and the prefix) exactly if they are in one subnet as the
comment defines it, for bytes and addresses of any width. For IPv4 the leading ones of a mask
are its ones because it has no holes; for IPv6 the code masks whole bytes, part of one and none,
and these are bit for bit the comment's. The other part is about the scan: at every round the
lists built so far have the first address of each subnet seen and no other, but for the subnets
at which an allocation failed (`ScanOK`). `OneAddressPerSubnetInvariant` puts the two together.

The theorems rest on the ASSUMEs of the modules proved about only (what calls, jobs and forms
may be, that the null values are not values, that requests are finitely many, as they are in
any run), which TLC evaluates in every run.

**Only model-checked:** the liveness properties `EventuallyAnswered`, `EventuallyDone`,
`EventuallyEnabled`, `StopsOnSignal` and `StartsWithoutAddresses`: the prover does not treat
fairness. Every other property of a passing run is stated by a theorem. No module has a
RECURSIVE operator; the one recursion, in `ClientClean`, is a recursive function.

## Not modelled

Sockets, TLS and HTTP parsing (CivetWeb); the format of time stamps, the layout of the OpenAPI
document, and the print functions nobody calls under the mutex; the Windows branches;
`touch_file` (called by nobody) and `print_pwd`; `inet_ntop`'s failures, which its arguments
exclude; the web page, the desktop client's stub and the build files. A power failure inside a
SQLite transaction is SQLite's concern.

Four hazards have no property. Only the last path of a form with several files is recorded
(`api_upload.c:238`), and no statement says otherwise. A client's timeout races the server's
answer (`Connector.java:390`): `ClientSend` has the timeout, but no source promises that the two
histories agree afterwards. The two races of `MainActivity`'s form (lines 229 and 324) wait for
the next module of the plan.

## Plan

1. Done: `MessageLog`, `RequestHandlers`, `SaveDirectory`, `Repositories`, `ClientSend`,
   `ServerProcess`, `Filenames`, `AddressLog`, `OwnedMemory`, and the proofs listed above.
2. `SendForm`: `MainActivity`'s fields between the UI thread, the send-worker that clears the
   selected file and load-last-conn, with `getLastSuccessful`; intents and rotation.
3. `EndToEnd`: client and server with timeouts, lost answers and retries, refining a statement
   of what both histories say about one send.
4. Proofs: done for all safety properties of the passing runs, both refinements, and the
   boundaries of three findings. Left: the boundaries of `handlers_unrecorded` with more
   than one worker, and theorems about the modules of 2 and 3.
