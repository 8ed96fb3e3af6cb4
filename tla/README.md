# Verification of Pine, the TCP server of `myCode`

The repository is a thirty-day course that builds a C++ network library. Its
`code/dayNN` directories are snapshots of the way there; `myCode` is the library as it
stands: a multi-threaded, reactor-style TCP server with an echo server as its
application. These modules model `myCode`, with one sub-project per part that can go
wrong in a way a test would hardly show: the thread pool, the reactors, the bytes of one
connection, the life of the whole server from `Start` to SIGINT, and the blocking clients
that come with it; and the Python scripts in `build_support` that guard the code: the
threaded clang-tidy runner, the clang-format runner, and the state cpplint keeps across
lines and across files.

Paths below are relative to `myCode/` unless they name another directory.

## 1. Inventory of the system

| Component | State it keeps | Operations | Talks to |
|---|---|---|---|
| `ThreadPool` (`src/ThreadPool.cpp`, `src/include/ThreadPool.h`) | `workers_`, `tasks_`, `queue_mutex_`, `condition_variable_`, `stop_` | constructor (starts the workers), `Add`, destructor | any caller of `Add`; runs the callables it is given |
| `TcpServer` (`src/TcpServer.cpp`) | `main_reactor_`, `acceptor_`, `connections_`, `sub_reactors_`, `thread_pool_`, two callbacks | constructor, `Start`, `NewConnection`, `DeleteCOnnection`, `OnConnect`, `OnRecv`, destructor | everything below; `connections_` is shared by all threads without a lock |
| `Acceptor` (`src/Acceptor.cpp`) | the listening socket and its channel | `AcceptConnection` | calls `TcpServer::NewConnection` on the main thread |
| `Connection` (`src/Connection.cpp`) | `socket_`, `channel_`, `state_`, `read_buf_`, `send_buf_`, two callbacks | constructor, `Business`, `Read`, `Write`, `Send`, `Close`, `SetOnRecv`, destructor | its channel calls `Business`; `Close` calls `TcpServer::DeleteCOnnection` |
| `Channel` (`src/Channel.cpp`) | descriptor, loop, wanted and ready events, `exist_`, callbacks | `EnableRead`, `EnableWrite`, `EnableET`, `HandleEvent`, destructor | its `EventLoop`'s `Poller` |
| `Poller` (`src/Poller.cpp`) | an epoll instance | `UpdateChannel`, `DeleteChannel`, `Poll` | the kernel |
| `EventLoop` (`src/EventLoop.cpp`) | a `Poller` | `Loop`, forwarding | channels that epoll reports |
| `Socket` (`src/Socket.cpp`) | a descriptor it closes | `Create`, `Bind`, `Listen`, `Accept`, `Connect`, `SetNonBlocking`, destructor | the kernel |
| `Buffer` (`src/Buffer.cpp`) | a string | `Append`, `SetBuf`, `Clear` | `Connection` |
| `SignalHandler` (`src/include/SignalHandler.h`) | one handler per signal | `Signal::signal`, `signal_handler` | interrupts a thread of the process |
| `test/echo_server.cpp` | – | the `OnConnect`, `OnRecv` and SIGINT callbacks | `TcpServer` |
| `test/echo_clients.cpp`, `test/echo_client.cpp` | – | blocking clients, many of them on one `ThreadPool` | a server |
| `common.h`, `Exception.h`, `Log.h`, `util` | – | return codes, macros | – |
| `build_support/run_clang_tidy.py` | a bounded queue, `failed_files`, an output lock, a directory for replacements | `main`, `run_tidy` (one thread each), merging, applying, cleaning up | clang-tidy processes; `make clang-tidy` looks at its exit code |
| `build_support/run_clang_format.py` | `had_err` | `check` per source directory | clang-format; `make check-format` looks at its exit code |
| `build_support/cpplint.py`, one file | `NestingState` (stacks of blocks and of preprocessor branches), `_IncludeState` (lists of includes, section) | `Update`, `UpdatePreprocessor`, `CheckIncludeLine`, `CheckNextIncludeOrder`, `ResetSection` | the checks of a line |
| `build_support/cpplint.py`, the process | `_cpplint_state` (filters, their backup, error count), `_line_length`, the NOLINT suppressions | `ProcessFile`, `ProcessConfigOverrides`, `ParseNolintSuppressions`, `Error`, `main` | `CPPLINT.cfg` files; `make cpplint` starts it on many files |
| CMake files | – | the targets that call the scripts | – |

**Threads.** The main thread runs `Acceptor::AcceptConnection` and
`TcpServer::NewConnection`. Each sub reactor's loop is a task of the thread pool, so one
worker polls one epoll instance and runs every callback of the connections whose
`fd % sub_reactors_.size()` chose it. SIGINT runs `delete server` on top of whatever the
main thread was doing.

**What is shared.** The task queue, under its mutex. Everything else without a lock:
`connections_`, the `Connection` objects between registration and insertion, the epoll
instances (the main thread adds, the sub reactor removes), the process's descriptor table
(the main thread accepts a number while a sub reactor closes it).

**What is hard.**

- a worker that misses its notification; a pool destroyed while tasks arrive;
- a channel that is live in epoll before its callback is set and before the connection is in
  `connections_`; events that arrive at any of those points;
- the order in which `~Connection` releases its members: `socket_` closes the descriptor
  before `channel_` removes it from epoll, and the number may be reused in between;
- two threads inside `connections_`;
- a `Connection` that destroys itself from inside its own callback, which then goes on;
- reads and writes that are cut anywhere, a full socket buffer, a zero byte in the stream;
- a failed write that only marks the connection as closed;
- a client whose two `Socket` objects close one descriptor twice, beside other clients;
- SIGINT at any point, in particular while `Add` holds the mutex, and the order in which
  `~TcpServer` destroys members that worker threads still use;
- threads that die with a file the main thread waits for, a `put` that times out and is tried
  again, Ctrl-C while threads write into the directory that is removed;
- state of one linted file, or of one `#if` branch, that is still there in the next.

**What makes each component correct.**

- *ThreadPool*: accepted tasks start in order, exactly once, and finish; nobody sleeps while
  a task is unattended; the destructor leaves nothing behind and returns.
- *Reactor (TcpServer, Acceptor, Connection, Channel, Poller, EventLoop, Socket)*: epoll,
  `connections_` and the descriptor table always agree about who a number is; an event
  reaches the live connection it was reported for; each descriptor is closed once, by the
  connection that owns it; a gone client's connection goes, a present client's never does.
- *Connection's bytes*: a client gets its own bytes back, in order, none twice, and, when
  nothing is dropped by design, all of them.
- *The clients*: each gets the answers it asked for and ends, unless a double close has given
  its number away; and nothing else can do that.
- *The clang-tidy runner*: each file is checked once, the join means that all is quiet, the exit
  code is the verdict, only an exception leaves the directory behind, and the script ends.
- *The clang-format runner*: the exit code tells whether any file of any directory is unformatted.
- *cpplint, one file*: blocks are counted along the first branches of the conditions; a repeated
  include is noticed; the include sections are gone through in one direction.
- *cpplint, the process*: whether an error counts depends on its own file and the
  configurations above it; exit code 0 means that every file was gone through and none had one.
- *The server's life*: `Start` succeeds, running loops never touch what is destroyed, SIGINT
  ends the process.

`PROJECT.json` lists every component with its status, and under `hazards` every place where
one of these can go wrong, with the property that would notice.

## 2. The modules

| Module | Models | Extends |
|---|---|---|
| `TaskPool` | what a caller of the pool relies on: no threads, no locks | – |
| `ThreadPool` | workers, `Add`, destructor, at the granularity of mutex and condition variable; refines `TaskPool` | – |
| `Sessions` | what a client gets from the server: no threads, no epoll, no table | – |
| `Reactor` | main thread, sub reactors, epoll, descriptors, `connections_`, object lifetimes; refines `Sessions` | – |
| `EchoStream` | what a client sees of its connection, a conversation in turns: no buffers, no `state_` | – |
| `ConnectionIO` | one connection's `Business`: buffers, reads, writes, the echo callback; refines `EchoStream` | – |
| `ServerLife` | `Start`, serving, SIGINT, `~TcpServer` member by member | `ThreadPool` |
| `EchoClients` | `echo_clients`: blocking clients, their descriptors, the client side of `Connection` and `Socket` | – |
| `TidyRunner` | `run_clang_tidy.py`: the main thread, the worker threads, queue, lock, directory | – |
| `FormatCheck` | `run_clang_format.py` | – |
| `LintBlocks` | the blocks of `NestingState`: what a line of text does to the stack | – |
| `LintBranches` | what a reader of a file with conditions expects of the blocks: only first branches count | `LintBlocks` |
| `LintFile` | `NestingState` and `_IncludeState` over the lines of a file; refines `LintBranches` | `LintBlocks` |
| `LintSession` | a cpplint process over several files: configurations, filters, suppressions, exit code | – |
| `MC...` | instances for TLC | the module of that name |
| `..._proofs` | theorems and proofs | the module of that name |

The parts meet where the code's parts meet. `ServerLife` is built on `ThreadPool`'s own
actions (the main thread is its submitter, the signal handler its owner, a sub reactor's loop
a task), and `PoolIsUsedAsMeant` proves that it uses the pool as `ThreadPool` allows.
`Reactor` counts chunks and knows when a connection reads, ends and is destroyed;
`ConnectionIO` looks into one connection during the time `Reactor` calls it live.

### ThreadPool

State: `mutex` is who holds `queue_mutex_`; `queue`, `stop` are `tasks_`, `stop_`; `wpc`,
`spc`, `opc` are where each worker, each caller of `Add` and the destructor stand; `current`
and `adding` their local task. `accepted`, `rejected`, `started`, `finished` are history.

| Actions | Code |
|---|---|
| `WorkerLock`, `WorkerCheck`, `WorkerBlock`, `WorkerSpurious` | `condition_variable_.wait(lock, predicate)`: lock, predicate, release-and-block, wake-up without a notification (`ThreadPool.cpp:20-22`) |
| `WorkerExit`, `WorkerTake`, `WorkerFinish` | lines 23-30 |
| `AddCall`, `AddLock`, `AddReject`, `AddPass`, `AddPush`, `AddNotify` | `ThreadPool.h:46-63`; the notification is sent outside the lock |
| `DestroyCall` ... `DestroyJoin`, `DestroyMembers` | `ThreadPool.cpp:35-46` |

The predicate and the blocking are two steps, both under the mutex; that is what makes a
notification missed or not. A caller of `Add` is expected to leave it before the pool's memory
goes (`DestroyMembers`); that is the contract of any member function. An exception of a task is
kept in its future, so a task either returns to its worker or never ends: `WorkerFinish` may
come, and only `FairSpec` says that it does. The endless tasks are `ServerLife`'s.

### Reactor

State: the clients (`peer`, `inbox`, `sent`); the kernel (`owner`: whose socket a descriptor
denotes; `interest`: which channel epoll has for it); the heap (`obj`, `fdOf`, `wiring`,
`closed`: how far a `Connection` is built or destroyed); `table` is `connections_`, `inMap`
which thread is inside it; `mpc`/`mconn` the main thread, `spc`/`batch`/`active`/`victim` each
sub reactor; `fate` how the process fares.

| Actions | Code |
|---|---|
| `Accept`, `EnableRead`, `EnableET` | `Acceptor.cpp:43-56`, `Connection.cpp:30-35`, `Channel.cpp:50-53`, `Poller.cpp:68-95` |
| `SetCallbacks`, `Wire` | `TcpServer.cpp:56-59`, `Connection.cpp:192-198`: the assignment of a `std::function` has two halves |
| `InsertEnter`, `Insert`, `LookupEnter`, `Lookup`, `LookupNull`, `OnConnect` | `TcpServer.cpp:61-65` |
| `Poll`, `BatchDone`, `HandleEvent`, `HandleEmpty`, `HandleTorn` | `EventLoop.cpp:23-28`, `Poller.cpp:43-66`, `Channel.cpp:31-38` |
| `ReadRefused`, `ReadData`, `ReadDrained`, `ReadEnd`, `OnRecv` | `Connection.cpp:45-106, 185-188` |
| `FindEnter`, `Find`, `FindFails`, `EraseEnter`, `Erase` | `TcpServer.cpp:68-73` |
| `CloseFd`, `DeleteChannel` | `~Socket` and `~Channel`, in the order `~Connection` runs them |

Undefined behaviour is a choice. Two threads in `connections_`, one of them writing, a
`std::function` called while it is assigned, a `Connection` used after its destructor: each
either does what the text of the code says or ends the run with a `fate` that names it. So the
safety properties say what holds *as long as the process has been lucky*; that the process may
be unlucky is visible in the reachable fates. How it may be unlucky is pinned down instead of only
shown: `DiesOnlyOfEarlyData` and `LostOnlyToStaleDelete` say that a loop dies, and a registration is
lost, in one way each and no other.

`Sessions` has for every client a phase (waiting, admitted, served, dismissed), for every number whose
session it denotes, and how much was said and heard. `Reactor` implements it with `peer`, `owner`,
`sent` as they are, with the phase read off `fdOf` and `obj`, and with what was heard as
`sent - inbox`: whatever the threads do to each other, nobody is dismissed before it has ended and been
heard, and a number goes back with the dismissal of the one it belongs to.

What is abstracted: data is a number of chunks. Freed memory is not reused for another
`Connection`. `Channel::SetExist` is never called, so the second `UpdateChannel` (for
`EnableET`) is a second `EPOLL_CTL_ADD` that fails with EEXIST, and the registration stays
level-triggered; when that call succeeds, after a stale `EPOLL_CTL_DEL`, the model keeps
level-triggered reporting. `ready_events_` is never reset, which changes nothing while only
EPOLLIN is asked for. `MAX_EVENTS` and EINTR are left out. With no descriptor free `accept`
fails and nothing changes; descriptors other than connections' do not compete for numbers.

### ConnectionIO

A byte is its position in the client's stream, so an answer shows which byte it echoes; the
positions in `Zeros` carry `'\0'`. `taken` is what `read` has returned, `rbuf`, `sbuf`, `left`
are `read_buf_`, `send_buf_`, `data_left`, `replied` what `write` has accepted, `unread` what
is still on the way. `ReadChunk` takes any 1..`ReadSize` bytes and appends up to the first zero
byte; `Send` copies up to the first zero byte; `WriteSome` writes any number that fits into
`Room`; `WriteFull` is EAGAIN, where the rest of the answer is dropped; `WriteError` is
ECONNRESET (only `state_` changes) or SIGPIPE (`killed`); `ReadEnd` is end of file or an error,
where `Close` destroys the connection. `ReadRefused` is `Read` on a connection a failed write
has closed: it returns before it clears `read_buf_`, and `Business` goes on all the same.

`EchoStream` knows neither buffers nor calls: the server hears, answers what it has heard, and hears on.
`ConnectionIO` implements it with `taken` as what was heard, `replied` as what was answered, `Held` (what
waits in the buffers to be written) as what is due, and the turn read off `state_` and the place in
`Business` (`EchoTurn`). `Hear` is a read, `Turn` the EAGAIN that ends the reading, `Answer` a write, `Return`
the end of the round; `Send` and `ReadRefused` are stutters.

### ServerLife

`members` are the members of `TcpServer` still there; `IsNext` walks them in
`DestructionOrder`, the reverse of `TcpServer.h:33-43`. The two callbacks go first
(`DestroyCallbacks`), while the loops still run; each `Connection` has copies of its own. The pool's destructor is `ThreadPool`'s,
run by the handler while the main thread stands still (`Undisturbed`), so a SIGINT inside
`Add`'s critical section leaves `mutex = Main` for ever. `building` is a connection registered
but not wired; only then can a loop end (`LoopDies`), which is what `Reactor`'s `HandleEmpty`
does. A second SIGINT finds the signal blocked in the main thread and is delivered to a worker
(`InterruptAgain`). Left out: that `malloc` and iostreams in a signal handler are themselves
not async-signal-safe, SIGINT inside the map insertion, and SIGINT before the handler is
installed, which just kills the process.

### EchoClients

A socket is named by the client whose `Create` made it; `sockOf` is the process's descriptor table,
`num` the number both of a client's `Socket` objects hold. `DeleteSock` and `DeleteConn` both clear
the number, whatever it denotes by then, and `Create` takes the lowest free one, or fails, and must fail when none is free: the client goes on without one,
as the code does, and each later call on it fails. So a number that
one client closes for the second time may be another's, and a third may get it next. `Connect`
ignores its result, as the code does. `ReadBegin` tests `IsNonBlocking` before `read` is called:
`fcntl` fails on a closed number and `-1 & O_NONBLOCK` is true, so the client may be sent into
`ReadNonBlocking`; if the number has been reused by then, it waits there for an EAGAIN that never
comes. A blocked `read` keeps its socket although its number is closed (`blocked`). `CloseThrows` is
the empty `delete_connection_`: the exception ends the task and leaks both objects. A write on a
socket not connected yet raises SIGPIPE. The server is external and answers every message.

### TidyRunner

`queue` and `unfinished` are what `queue.Queue` keeps, `failed`, `lock`, `tmpdir` the script's shared
state, `wpc`/`name` a worker's place and file, `mpc`, `next`, `code` the main thread's. A file is its
position in `compile_commands.json`; whether it matches the command line (`unmatched`), lies below
`third_party`, or makes clang-tidy complain is chosen freely.

| Actions | Code |
|---|---|
| `Take`, `Invoke`, `Communicate`, `AppendFailed`, `LockOutput`, `UnlockOutput`, `ReportDone` | `run_tidy`, `run_clang_tidy.py:156-191` |
| `Raise` | whatever raises between the get and `task_done`: the thread is gone, and its file is never done |
| `Refuse`, `Prepare`, `CompileFilter`, `StartThreads` | `main` up to the first put: the directory, the regular expression, the threads |
| `PutFile`, `PutTimesOut`, `Retry`, `Spin`, `Filled` | the loop over the files |
| `Join`, `Export`, `Fix`, `Clean` | lines 324-364; `Export` with yaml's import commented out |
| `Interrupt`, `KillGroup`, `RmtreeRaises` | Ctrl-C inside the `try`, and its handler |
| `Break` | any other exception out of `main`, Ctrl-C outside the `try` and a second Ctrl-C included, at the places `Breakable` names |

`Spin` is the loop over a file the command line does not match: `put_file` stays false for good.

The directory is made before the `try`, which catches `KeyboardInterrupt` only. So a bad regular expression, a
thread that does not start, Ctrl-C before the `try` or behind it, a second one inside the handler, and an
`rmtree` or `print` that fails all leave `main` with the directory there. `left` remembers where; `NothingLeftBehind`
says that `sys.exit` and the SIGKILL leave none, and that when it is there an exception did it: a writing
thread's, or one out of `main`, and then, before the first put, with no replacement file in it.

### FormatCheck

`NextDir`, `CheckFile`, `CheckDone`, `Fix` walk over the source directories; `Exit` returns what the last
call of `check` said.

### LintBlocks, LintBranches, LintFile

A line is a directive, an include, or text of one of the kinds in `TextLines` (class and namespace heads,
braces, semicolons and parentheses; access specifiers, template heads and inline assembly are left out). `LintBlocks!Updated` is what `NestingState.Update`
does to the stack with a line. A directive is such a line too: behind `UpdatePreprocessor` its parentheses are counted
and its tokens consumed, so the `)` of `#if defined(X)` takes away the head of a class or namespace whose brace
has not come yet. `Conditions` bounds what stands behind `#if`, `#elif` to nothing or one pair of parentheses.
`LintFile` adds `UpdatePreprocessor` (`pp_stack`: what to go back
to at `#else` and `#endif`), `CheckIncludeLine`, `FindHeader`, `CheckNextIncludeOrder` and `ResetSection`
(`include_list`, `section`). `path` and `included` are history: which branches the line is in, and what
was included where. `LintBranches` knows no `pp_stack` and keeps one stack, which lines in later branches
do not touch, the `#else` or `#elif` that begins one included; `LintFile` implements it with the checkpoint of the outermost `#if` whose first branch is
over (`FirstBranches`). A header is of the four kinds `_ClassifyInclude` distinguishes that matter to the
order, or `unkept`: one that `CheckIncludeLine` does not put into the list, which is every header with a
capital letter in its name that is not the file's own (`_THIRD_PARTY_HEADERS_PATTERN`, and so every header
of this repository but the lower-case ones).

### LintSession

`level` and `cfg` are the directory tree: which of `Depth` levels each file's directory is, and what
`CPPLINT.cfg` says on each. `filters`, `backup`, `suppressed`, `everywhere`, `error_count`
are the module's globals; `at`, `found`, `todo`, `line` the loop variables. `BeginFile`, `ReadConfig`,
`ExcludeFile`, `NoConfig`, `AddFilters`, `Configured` are `ProcessFile` and `ProcessConfigOverrides`;
`IgnoreFile`, `BeginData`, `Globally`, `NextLine`, `Error`, `EndFile` the rest of the file, `Exit` the
end of `main`. Three things end the process between two files: `BadConfig` is a `CPPLINT.cfg` that is not
UTF-8 or whose `exclude_files` is no regular expression, `BadFilter` a filter without a sign. A filter line
holds any number of filters. `AddFilters` takes the lines from the last to the first, the filters of each from
left to right: in a line the last filter about a category wins, among the lines of one configuration the
first. A configuration is read in one step. What the
checks find is an arbitrary sequence of errors, on the line at hand or another.

## 3. What is model-checked

| Run | Instance | Distinct states | Shows |
|---|---|---|---|
| `pool` | 2 workers, 2 submitters, 3 tasks, fair | 68 612 | `StartedInOrder`, `NoLostWakeup`, `JoinedMeansDrained`, that `ThreadPool` implements `TaskPool`, that accepted tasks finish and the destructor returns when tasks do |
| `reactor_two` | 3 clients, descriptors 4 and 5, 2 sub reactors | 1 461 886 (symmetric) | the five safety invariants, `DiesOnlyOfEarlyData`, `LostOnlyToStaleDelete`, and that `Reactor` implements `Sessions` |
| `reactor_live` | 2 clients, one descriptor, 1 sub reactor | 17 669 | gone clients are cleaned up, sent data is read |
| `io_echo` | 7 bytes, the fifth one zero, reads of up to 3, room for 4 | 10 420 | `RepliesInOrder`, `NothingLost`, that `ConnectionIO` implements `EchoStream`, `EveryByteIsAnswered` |
| `life_start` | 2 sub reactors, 1 connection each, fair | 7 010 | `LoopsHaveTheirServer`, `StartIsNotRefused`, `OrphansHaveNoLoop`, `LoopsAreStarted`, `EarlyInterruptExits` |
| `clients` | 3 clients, 2 messages each, descriptors 3 to 5, a `socket` that may fail, fair | 43 958 | `OnlyTheEndedDisturb`, `UndisturbedIsAnswered`, `EveryClientEnds` |
| `tidy` | 2 threads, 3 files of any kind, any options, fair | 178 395 | `EachCheckedOnce`, `JoinedIsQuiet`, `ExitCodeTells`, `NothingLeftBehind`, `ScriptEnds`, `SurvivorsGoOn` |
| `lint_file` | every file of up to 6 lines | 1 883 276 | `EnclosingIncludesAreFound`, `SectionMovesForward`, that `LintFile` implements `LintBranches` |
| `lint_session` | 2 files of 2 lines, 2 levels, 8 configurations, 2 categories | 1 125 365 | `VerdictIsOwn`, `ExitTells` |

The other three runs end in a violation (below). Type correctness is proved where there is a proof module
(section 4) and not repeated by the runs. Likewise `NoAcceptAfterStop`,
`ClosesOnlyEnded` and `FiltersAreRestored` are proved, and follow from what the runs check
(`ImplementsTaskPool`, `ImplementsSessions`, `VerdictIsOwn`).

Each property comes with a mutant in `PROJECT.json`, a plausible bug in one mapped
definition with which TLC finds the property violated.

**Why the bounds are enough.** *Pool*: two workers are the least for which one can sleep
while the other is notified, two submitters the least for two notifications in flight, three
tasks leave one queued while both workers run. *Reactor*: three clients on two descriptors
force a number to be reused while the first owner's destruction is still going on, in the
same reactor (4 and 4) and with the other one busy (5); one chunk per client is enough to
separate "has data" from "is drained" from "has ended". The runs with one sub reactor and one
descriptor are the least instance in which a number is reused at all. *ConnectionIO*: with
`ReadSize` 3 and 7 bytes a round is cut into several reads, before, across and behind the zero
byte, and with `Room` 4 an answer that holds bytes from behind it meets EAGAIN in its middle;
the first four bytes are out of reach of both, and must all be answered. *ServerLife*: two loops make a first
and a second `Add`, with SIGINT before, between, inside and after them. *EchoClients*: three clients are the least
with one that ends, one it disturbs and one that gets the number; two messages make a client go
on after its number has changed hands. *TidyRunner*: two threads are the least with one that dies and
one that goes on, and three files fill a queue of two places and make `put` wait. *LintFile*: six lines
hold two nested conditions with an `#else` each, text or an include in one of their branches and
behind them. *LintSession*: two files are the least for state that leaks, two levels
for an order between configurations, and the eight of them include one that cannot be opened, one that cannot be decoded, one that ends
the way up, one whose lines and one whose filters contradict each other, one that `AddFilters` refuses and one
whose pattern does not compile; two lines make
NOLINT and NOLINTNEXTLINE meet. What the small
instances cannot show is what the proofs of section 4 are for.

The bounds are constants, named as such where they are declared (`MaxSend`, `MaxSaid`, `Room`,
`MaxConns`, `Fds`); tasks and connections are finite because each is offered once. Symmetry is
used over clients as model values in `reactor_two`, which checks no liveness. `CHECK_DEADLOCK FALSE` is set
everywhere because the systems really stop: the pool ends, clients may fall silent for good,
the process exits or dies.

**Fairness.** *Pool*: every thread keeps running (weak fairness of its steps) and one that waits
for the mutex gets it in the end (strong fairness: no thread keeps the mutex, so it is free
again and again; a weakly fair lock could starve a waiter for ever, which a real one does not).
Nobody has to call `Add` or the destructor, and spurious wake-ups need not come. *Reactor*: each
thread that can go on does, as long as the process runs; clients owe nothing. *ConnectionIO*: the
sub reactor's thread runs; the client need not speak, listen or stay. *ServerLife*: workers and
handler as in the pool, and an `Add` that has the mutex goes on unless SIGINT stops it; clients
and SIGINT owe nothing. *EchoClients*: each client is a thread of its own that runs; the server
answers. *TidyRunner*: the threads run, clang-tidy ends, and a thread that waits for the output lock gets it;
no thread has to die, no `put` has to time out, nobody has to press Ctrl-C.

**Where liveness is conditional.** `EndedIsClosed` and `SentIsRead` hold *up to* `Excused`: the
process has died, the reactor's loop has, the registration has been removed by a stale
`EPOLL_CTL_DEL`, or a failed write came before the reader. Each exception is a failure of the
code by itself. `LoopsAreStarted` and `EarlyInterruptExits` hold up to `Stuck`, a SIGINT inside
`Add`'s critical section, where the handler waits for the thread it interrupted, and up to a
second SIGINT. `NothingLost` and `EveryByteIsAnswered` speak of the bytes before the first `'\0'`
and within the client's backlog (`Clear`); behind either the code drops bytes by design. `NothingLost`
also excepts what is read in the round that meets the end of the stream, and a client that is reset.

`ScriptEnds` holds up to a thread that has died, whose file `join` waits for, and `Spinning`.

`EveryClientEnds` holds up to `Crowded`: two other clients have had the client's number. With two
clients in all it holds without exception; with three, one may read the answer the other waits for,
and `delete pool` at the end of `echo_clients` then joins for ever.

### Where code and words disagree

Three runs end in a violation, and each is a finding in `PROJECT.json` with the line it
contradicts.

- `life_exits`: `~ThreadPool` joins workers whose task is `EventLoop::Loop`, a `while (true)`;
  the SIGINT handler of `echo_server` never reaches `exit`, with the mutex free and one SIGINT.
- `reactor_assert`: the assertion in `DeleteCOnnection` fails for a client that hangs up before
  the main thread has inserted its connection.
- `format_exit`: `check-format` is to exit with a non-zero code "if any files need to be reformatted";
  `had_err` keeps the result of the last directory only.

Five more weaknesses of the code are the exceptions in passing properties, which say that nothing
else goes wrong:

- an event between the registration of the channel and `SetOnRecv` calls an empty `std::function`;
  the exception ends the sub reactor's loop, and nobody notices (`DiesOnlyOfEarlyData`);
- `close` comes before `EPOLL_CTL_DEL`; when the number has been reused in between, the new
  connection is removed from epoll and never served (`LostOnlyToStaleDelete`);
- bytes read in the round that meets the end of the stream are not answered, because `Close`
  destroys the connection before `on_recv_` is called (`NothingLost`);
- `sub_reactors_` is declared after `connections_` and so destroyed before it, so `~Channel` would use a
  destroyed `EventLoop`; only when every loop has died can that happen (`OrphansHaveNoLoop`);
- an exception out of `run_clang_tidy.py`'s `main` leaves the directory for replacements behind
  (`NothingLeftBehind`).

Seen on the way in cpplint:

- `include_list` only grows, so a header included in one branch of a closed condition is still found
  behind it and reported as "already included"; the property is about the other direction, that no real
  repetition is missed.
- The usage text says that a `CPPLINT.cfg` has an effect on files "in the same directory and all sub-directories,
  unless overridden by a nested configuration file" (`cpplint.py:253-254`). For filters the nearest does win. Of
  two line lengths the *outermost* does, because the way goes up from the file and each `linelength` assigns the
  global; and it is never restored, so a file elsewhere that comes later in the same process is checked with it.
  No module has the line length: only the checks look at it, and what they report is chosen freely.
- The usage text says that `"-FOO" and "FOO"` mean the same (`cpplint.py:124`); a filter without a sign ends the
  process with a traceback (`BadFilter`; `cpplint.py:1074-1077`). `ExitTells` only says that this shows in the exit code.
- Within one configuration the *first* filter line about a category wins, because the list of lines is
  reversed as a whole, and in the line the *last* filter. `"Filters are evaluated left to right"` is true of one line.
- The `)` of `#if defined(X)` pops a class or namespace whose brace has not come, so that a file that ends there is
  not reported as incomplete.
- The comment on `previous_stack_top` (`cpplint.py:2825-2829`) says that the stack is not modified in
  place; its entries are.
- Most headers of this repository (`Buffer.h`, `Socket.h`, ...) look like third-party headers to
  cpplint, so their repetition and order go unchecked.

## 4. What is proved

All theorems hold for every value of the constants that satisfies the module's named
assumption; TLC evaluates the assumptions in the runs.

**Assumptions.** `PoolAssumption`: workers, submitters, owner and `None` are different, finitely
many, and there is a worker. `ReactorAssumption`: descriptors are naturals, there is a sub
reactor (`_fd % sub_reactors_.size()` needs one). `ConnectionAssumption`: the read buffer is not
empty. `ClientsAssumption`: descriptors are
naturals and `None` is no client. `LifeAssumption`: as many loops as workers, one submitter.
`TidyAssumption`: there is a thread (with `-j` below one there is none, and `join` waits for ever).
`FileAssumption`: every header is of one of the kinds, and `MaxLines` is a natural.
`SessionAssumption`: what a configuration and a command line may hold; filters of the command line have a
sign, or `main` would have ended.

**ThreadPool** (`ThreadPool_proofs`). The invariant `IInv` adds to `TypeOK` and `StartedInOrder`
who holds the mutex (`LockInv`), what each thread knows at its place (`FlowInv`: a worker about
to block has seen an empty queue and no stop; one that has left saw an empty queue and stop;
`push` implies not stopped), that a thread that needs a task has one (`LocalInv`), and that what
was taken is running or finished (`TakenInv`). `FlowInv` is inductive only with `LockInv`: the
facts a thread knows stay true because nobody else holds the mutex. From it follow
`TypeCorrect`, `FifoExactlyOnce`, `DestructorDrains` and `StoppedPoolAcceptsNothing`.
`EveryTaskIsAttended` is a counting argument on top: a push adds a task and a pending
notification; a notification that wakes somebody turns itself into one awake worker, and one
that wakes nobody found nobody asleep; a worker goes to sleep only on an empty queue.

The refinement, `Refinement == Spec => ImplementsTaskPool`, with `open` as
`~stop`, `running` as the current tasks of workers at `run`, `gone` as the destructor's return.
It needs `OnceInv`, that no task is in two places (accepted twice, offered by two submitters, run by
two workers), and that a worker that takes a task was not running one, which bounds the number
running.

**Reactor** (`Reactor_proofs`). The invariant is four stories that keep each other. `DescInv`: a
live connection owns its number; what epoll and `connections_` hold for a number is its live
owner. `MainInv`: what the main thread is building is live, not in `connections_`, and nobody's
victim. `SubInv`: what a reactor handles is live and its own by `fd % NumSub`; what it is about
to erase is what the table holds; what it is destroying has left the table. `OwnedInv`: who closes
each open number. `DescInv` alone is not inductive: a stale `EPOLL_CTL_DEL` or `close` would break
it unless the victim is known to own the number or the entry only to disappear, and that is
`SubInv`; that no other reactor destroys the same object follows from a number having one
reactor. `EndInv` and `UnreadInv` serve `NeverClosesEarly` and the type of `inbox`. Proved: all
invariants and action properties that `reactor_two` checks, and the refinement.
`LoopsDieOnlyEarly` adds `WiringInv`: a live connection whose callback is not set, or only half, is the
one the main thread is at. `RegistrationsStay` looks at the actions that change `interest`.
`ReactorsServeSessions == Spec => ImplementsSessions` maps `Accept` to `Admit`, `EnableRead` to `Serve`,
`ReadData` to `Hear`, `CloseFd` to `Dismiss`, and every other step of the threads to a stutter: `SubInv`
says that the number `CloseFd` gives back is the victim's, and `EndInv` that the victim had ended and been
read.

**ConnectionIO** (`ConnectionIO_proofs`). The pipeline, `replied \o Held`, is increasing and below
`taken`; a read appends what is above it, a send cuts it to a prefix, a write moves a piece from
its second half to its first, everything else drops its end. That is `AnswersKeepOrder`.
`NothingIsLost` says the pipeline *is* `1..taken` as long as `taken` is below the first zero and
within the room; that excludes EAGAIN because the backlog is at most what has been accepted
(`Backlog`). `Clear(taken')` implies `Clear(taken)`, so the condition needs no history.
`AnswersInTurn == Spec => ImplementsEcho` takes the same pipeline step by step. What it needs besides is
`Clean`: `read_buf_` holds no zero byte, because `Append` has cut each read, so the cut of `Send` takes nothing
away and copying to `send_buf_` is a stutter; and that the buffers are empty where a round begins or
the connection is closed, which the shape of the pipeline at each place of `Business` says.

**ServerLife** (`ServerLife_proofs`). `PoolIsUsedAsMeant == LSpec => Spec`: every step of the server is
a step of the pool or none. With it the pool's invariant holds here, and `LoopsOutliveNothing` needs
only `OrderInv`: but for the two callbacks nothing is destroyed before the workers are joined, and joined workers
run no loop.
`StartSucceeds` follows because `stop_` is raised only while the main thread stands still.
`OrphansAreUnserved` is about tasks instead: connections belong to loops that were submitted
(`SubmitInv`, `ServedInv`), and joined workers have drained the queue (`DrainedWhenJoined`), so behind the
join every loop that has connections has finished.

**EchoClients** (`EchoClients_proofs`). `OnlyTheEndedDisturb` is inductive with types and places: the
first close of a number takes it from its owner or, if the owner is another client, finds that
client disturbed already. `Numberless` says that a client without a number, whose
`Create` failed, never gets to a read. `UndisturbedAreServed` needs more: that a socket is found under no number
but its client's (`Owners`), that whoever reads from another's socket has been disturbed and so has
the other (`Thefts`), and then the books of an undisturbed client (`Balanced`): answers read equal
`count`, and one is owed exactly between its write and its read.

**TidyRunner** (`TidyRunner_proofs`). `CountInv`: `unfinished` is what waits plus the number of threads that
have a file, the dead included, so `join` returns only when there is neither. `FileInv` follows each file:
the queue holds the numbers just below `next`, in order; what lies below the queue is settled or with one
thread. `VerdictInv`: what clang-tidy found fault with is in `failed_files` or about to be. With the join,
the three give `EachCheckedOnce` and `ExitCodeTells`. `MainInv` holds the directory: it is gone at `exited` and
`killed`; a crash that `left` does not place had a writing thread beside it; and until the first put no thread
has anything to write. That is `DirectoryGoes`.

**LintSession** (`LintSession_proofs`). `VerdictIsOwn` compares the last filter about a category in a list
with the nearest configuration that mentions it. Lemmas say who speaks first, and who last, in two
lists one behind the other, of lines (`MentionJoined`, `FirstJoined`, `LastJoined`) and of filters. With them
`WalkInv` is inductive: the lines found so far say what the levels passed say. `AppliedInv` turns them round:
of the lines already added, those above `todo`, the first that mentions a category decides, and if none does
the command line (`OneMoreTold`: the next line takes over, or mentions the category not at all). `StationInv` says where the command line's filters are, `NoteInv`
that the suppressions are the comments of this file. None of it depends on earlier files, which is the
theorem. `ExitIsVerdict` is `error_count` against `blamed`, and that only an exception ends the process early.

**LintFile** (`LintFile_proofs`). `EnclosingIncludesAreFound` is not inductive: that a header is in some list
does not survive an `#else`, which empties the last one. `IInv` adds `EnclosedListsStay`: what was included
in a branch that has since been entered deeper lies in a list before the last, where `ResetSection` cannot
reach it; and `Opened`: a branch is named by the line that opened it, so no later branch is taken for it.
From it follow `TypeCorrect` (no stack is popped empty), `RepeatsAreNoticed` and `SectionsAdvance`.
`LintsFirstBranches == Spec => ImplementsBranches` maps the stack of first branches to the checkpoint of the
outermost `#if` that is past its first branch, or to the stack itself if there is none (`Branch`). `MapInv`
says when there is one; an `#else` or `#endif` at any depth then either leaves that entry alone, and the
step is a stutter of the blocks, or makes, uses up or restores exactly that checkpoint; the directive's own tokens then
count where the line they stand on does. What a line does to the
blocks is a recursion over its tokens; lines have one or two, so it is unfolded and not induced on.

**Only model-checked.** Everything under fairness (`AcceptedTasksFinish`, `LoopsAreStarted`,
`DestructorReturns`, `EndedIsClosed`, `SentIsRead`, `EveryByteIsAnswered`, `EarlyInterruptExits`,
`EveryClientEnds`, `ScriptEnds`, `SurvivorsGoOn`):
liveness and ENABLED are outside what the proof system handles here. The violations are of course
TLC's alone. Every safety invariant, action property and
refinement of the passing runs is a theorem.

## 5. What is not modelled

- *The macOS half of `Poller`*: compiled out, and written against a `Channel` that no longer exists.
- *`echo_client.cpp`* by itself: it is `EchoClients` with one client that never has enough.
- *The server's `Socket::Create`, `Bind`, `Listen`*: they run once, before the first state. In a build with
  `NDEBUG` they would not run at all, being inside `assert` (`Acceptor.cpp:30-32`).
- *`Channel::EnableWrite` and the write callback*: the server never uses them.
- *`common.h`, `Exception.h`, `Log.h`, `util`*: no state; the chat, http and hello programs are stubs.
- *`code/day01` to `day16`*: earlier stages. day16 is an older copy of `myCode`.
- *Starvation inside one read loop*: `ReadNonBlocking` ends at EAGAIN only, so a client that never
  pauses keeps its reactor; the bounds on clients exclude such a client from the runs.
- *The rest of cpplint*: some sixty checks, functions of the text of a line and its neighbours; `_FunctionState`,
  a count of lines; the reading of options and the printing of results. The models choose
  freely what the checks report.
- *What `--linelength`, `--extensions`, `--headers` and `--root` change*: set from `CPPLINT.cfg` too, and
  never restored; it is what single checks look at.
- *The copies of `build_support` under `code/day13` to `day16`*: identical to the one modelled but for line ends.
- *CMake files*: build rules.
- *The single-reactor design of `code/day10` and `day11`*, where handling an event is itself a task: an
  earlier stage that `myCode` has given up.

## 6. Plan

Edge-triggered registration as the code intends it (`SetExist` called): does `SentIsRead` survive?
