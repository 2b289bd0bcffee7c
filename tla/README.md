# simple_web_server: a TLA+ model of the server, its checks and its proofs

The program is a single-process HTTP/1.0 server in C: one thread, one `poll()`
loop, static files, directory listings and CGI scripts. This directory holds a
model of it, the TLC configurations that check the model on small instances,
and proofs that TLAPS checks. Paths below are relative to `src/`.

## 1. Inventory

| Part | State it keeps | Operations | Hard parts |
|---|---|---|---|
| Event loop (`main.c`) | `pfds[]`, `clients[]`, `fd_count`, `fd_size`, `running`, the loop index | `poll()`, the scan over the slots, the signal handler, the shutdown | slots move and appear while the scan runs; a signal at any instruction |
| Connection table (`client_conn/connections.c`) | the two parallel arrays | `add_to_lists`, `close_conn` | growth, compaction, a stream pointer that is already closed |
| Accept loop (`client_conn/accept_new_conn.c`) | none of its own | `accept_new_conn` | runs inside the scan; EMFILE, ECONNABORTED |
| Reader (`client_conn/do_read.c`) | `in_buf`, lengths, `state` | `append`, `do_read` | bytes arrive in any portions; FIN or RST between two `recv()` |
| Writer (`client_conn/do_write.c`) | `out_buf`, `output_sent` | `do_write` | full send buffer, reset peer: the process exits |
| Parser (`requests/parse_request.c`) | `Request` | `parse_request` | several tests can fail at once; the order decides |
| Path resolution (`requests/resolve_path.c`) | `ResolvedPath`, open streams | `resolve_path`, `close_resolve_path_ptr` | two pointers to one stream; failures half way |
| Responses (`response/*.c`) | `out_buf`, the script's pipe and process | `build_okay_response` and its three builders, `build_error_response` | a script runs beside the blocked server; every call can fail |
| Logging (`logging/logging.c`) | the log line and its offset | `log_append`, `do_logging` | the line must say what was sent, and fit |
| Command line (`flags/setFlags.c`) | `app_flags`, the port, the addresses, `log_ptr` | `setFlags` | the order of options that revoke each other; arguments that look like options; ports at the width of a port and of an int |
| Listeners (`sockets/`) | the listening sockets | `get_listener_v4`, `get_listener_v6` | one of two missing; errors nobody sees after `daemon()`; a signal before the loop |

How they interact: `main()` calls the accept loop, the reader, the writer and
`close_conn()` on a slot of the shared arrays; the reader calls the parser, the
resolver and the builders in sequence inside one call and leaves its result in
the slot; the signal handler shares one flag with the loop. The environment is
the kernel's socket buffers, the peers, the filesystem, the CGI scripts and
signals.

Not modelled: `debug/debug.h` (printing), the tests, the build, setup and DTrace
scripts.

## 2. Modules

The process before and behind its loop:

- `StartupState`: constants, variables and record types.
- `SetFlags`: `setFlags()`, one action per option and turn of its loop.
- `GetListener`: `get_listener_v4()` and `get_listener_v6()`, which differ in the
  family only.
- `Startup`: `main()` up to the first test of `running` and behind the loop, the
  signal handler, and the properties. The meaning of a command line (`IsOption`,
  `Asked...`) is defined there once more, over the line as a whole, as the
  reference for what the loop over `argv` leaves in the globals.
- `StartupProofs`: theorems about `Startup`.
- `MCStartup`: words, numbers and command lines for TLC.

The event loop:

- `HttpTypes`: the enumerations of `connections.h`, and `Answers`.
- `ServerState`: constants, variables and record types. `pc` is where the
  process is; one action is the code from one system call to the next.
- `Connections`, `AcceptNewConn`, `DoRead`, `DoWrite`: one module per C file,
  one action per outcome of the system call the process is at.
- `EventLoop`: `main()`, the signal handler and the environment; `Next`, `Spec`,
  `FairSpec` and the properties.
- `ConnLifecycle`: the abstract specification of one connection.
  `EventLoopRefinement` maps the event loop to it.
- `EventLoopProofs`, `ScanProofs`, `HeapProofs`, `ClientProofs`: theorems about
  `EventLoop`. `LifecycleProofs`: its refinement of `ConnLifecycle`.
- `MCEventLoop`: values for TLC.

One request, from the end of its headers to the close of its connection:

- `RequestState`: constants, variables and record types.
- `ParseRequest`, `ResolvePath`, `CgiProcess`, `BuildResponse`, `Logging`: one
  module per component.
- `RequestPipeline`: their composition in the order of `do_read()`, and the
  properties. `MCRequestPipeline`: values for TLC.
- `AnswerContract`: the abstract specification of answering one request.
  `PipelineRefinement` maps the pipeline to it.
- `PipelineProofs`, `AnswerProofs`: theorems about `RequestPipeline` and its
  refinement.

How the three parts fit together:

- `Startup` and the event loop meet at the first test of `running`.
  `ListenersAsAsked` is what `ServerState` assumes of `num_listeners` and
  `ListenFd`; `SettingsAsAsked` and `OneLog` are what the pipeline assumes of
  `flags`, and that a line which is logged has a stream to go to.
- The event loop and the pipeline meet in `ProcessRequest` of `DoRead`. There
  answering a request is one step that chooses a member of `Results`: the code,
  the length queued, whether `c->file_ptr` is left pointing at a closed stream
  (`stale`), whether an open stream is forgotten (`leak`) and whether a block of
  memory is (`lost`). The last is the buffer a script's output is read into:
  `build_response_cgi()` frees it on every path that fails and not on the one
  that succeeds, so `ProcessRequest` adds it to `heap` (`ScriptBlock`) and no
  later step takes it out. The pipeline is
  shown to produce only members of `Answers` (`ImplementsAnswer`), and the
  instances of the event loop choose from `Answers` (`ResultsAreAnswers`). The
  proofs about the event loop hold for every set `Results`.

### How the code is abstracted

- Bytes are counted, not stored. The one thing `do_read()` asks of the bytes is
  whether the end of the headers is among them: `Socket.eoh` is its offset in
  what has arrived and `Client.has_end` whether it is in `in_buf`.
- A request line is a record of what the tests ask of it (`Line`); a file is a
  kind and a size. Lengths of pages are units. An index file is a regular file.
- Peers act only where the process is at a call that looks at the network
  (`AtSystemCall`). What they do in between becomes visible at the next such
  call, so nothing is lost, and the state space is much smaller. A signal may
  arrive anywhere.
- `POLLERR`, `POLLHUP` and `POLLNVAL` are one event, as in `main()`.
- Memory that is not initialised (`GarbageClient`, `GarbagePollfd`) has the
  values that would show most if a step read it. A slot behind the end gets
  these values back when the table shrinks.
- `fclose()` of a stream that is already closed is undefined. `close_conn`
  allows three outcomes: an error, the close of a stream that took its place,
  and an abort (`StaleFcloseAborts`, `RecloseAborts`); the constant
  `StaleFclose` selects them.
- Failing calls are separate actions that count against `MaxFaults`.
- A word of the command line is known by what the code asks of it: its first
  character, whether it is digits, an address, a directory, a file that can be
  opened. A log stream is known by the option that opened it.
- The script has the writing end of its pipe twice, since `dup2()` leaves the
  descriptor it copies. A process that the script starts and leaves behind, and
  that keeps the pipe open, is left out.
- `mime` types, header text and the wording of the log are left out; of an
  address and a log line the length counts. The name of an index file fits
  `PATH_MAX`.
- `open_memstream()` may fail when it is called; that a later write to it runs
  out of memory is left out.

### Correspondence

`PROJECT.json` maps every definition to the lines it models. The stages of the
event loop: `check` and `call_poll` are the two sides of `while (running)` and
`poll()`; `in_poll` is the process blocked; `scan` the head of the `for`;
`accept`, `recv`, `send` the loops of the three callees; `drained` the code
behind the `recv()` loop; `wtest` and `ctest` the two last tests of the loop
body; `shutdown` the code behind the loop; `exited` and `failed` the end.
The stages of the pipeline and of the start-up are the calls about to be made;
`serving` is the time that `EventLoop` models.

A definition whose comment begins with "Mutant" is a wrong version of the
definition that follows it and is used by no other. `PROJECT.json` lists which
property notices which mutant.

## 3. Runs that pass

| Run | Instance | What it shows |
|---|---|---|
| `three_clients` | 3 descriptors, arrays of 1 slot | `TableInv`, `OpenExact`, `ScanExact`, `HeapExact` through two growths, with three reported connections of which any are removed in one scan |
| `faults` | 2 descriptors, five kinds of response, a script's among them, one failing call, a signal | also `WaitsForItsEvent`, `BufferBounds`, `CleanExit`, and `EventLoop` implements `ConnLifecycle` |
| `dual_stack` | 2 listeners, 2 descriptors, a signal | the same table with client slots from 2 on; `TypeOK`; `RequestServed`, `BacklogDrained`, `SignalStops` under `FairSpec` |
| `pipeline` | every combination of the parser's tests, `PATH_MAX` 16, two failing calls | `StatusJustified`, `StagedOnce`, `ResponseComplete`, `LogTruthful`, `LogFits`, `CgiOutputWhole`, `ReleasedExact`, `ChildReaped`, `TypeOK`; `RequestPipeline` implements `AnswerContract`; `RequestFinishes` under `FairSpec` |
| `startup` | 18 options with arguments and 12 wrong ones, lines of up to three, one failing call, a signal | `SettingsAsAsked`, `OneLog`, `ListenersAsAsked`, `SilentFailureHasCause`, `CleanStop`, `TypeOK`; `EarlySignalStops` under `FairSpec` |

The properties, in words:

- `TableInv`: `pfds[k]` and `clients[k]` are the same connection, the listeners
  keep the first slots, no connection has two slots, nothing lies outside the
  allocation.
- `OpenExact`: the open sockets are exactly those the table refers to.
- `HeapExact`: the heap holds exactly the two arrays, the `in_buf` and `out_buf`
  of the connections in the table, and one forgotten block for each script that
  was served. No other block leaks and none is freed twice. In `three_clients`
  all answers are 404, so there it is about `in_buf` and `out_buf`.
- `ScanExact`: a scan looks at every connection that `poll()` reported exactly
  once, although slots move and are added meanwhile. It relates the history
  variable `unseen` to the slots still to come.
- `WaitsForItsEvent`: blocked in `poll()`, every connection waits for the event
  its state needs.
- `BufferBounds`: `append()` stays in `in_buf` and below the ceiling,
  `do_write()` in `out_buf`.
- `CleanExit`: an orderly shutdown has closed every socket and freed every block
  but the forgotten ones. That those should not be there either is `AllFreed`
  (section 4).
- `ImplementsLifecycle`: one request, at most one response, and the connection
  is closed only after all of it was handed to `send()`, or the peer reset the
  connection, or the server stops.
- `BacklogDrained`: a connection that waits in a listener is accepted, if
  descriptors become free; neither listener starves the other.
- `StatusJustified`: every code sent has its reason in the request, the
  filesystem, the script or a failed call, and nothing refused is answered 200.
- `ResponseComplete`: the status line is that of `resp_val`, and the body has the
  announced length, or all of the new contents of a file whose size has changed
  since `fstat()`. For HEAD it is empty, unless it is the output of a script,
  which `HeadersOnly` (section 4) is about.
- `LogTruthful`: the status and the length in the log are those of what is sent,
  also when the response was replaced on the way.
- `LogFits`: no log line reaches `LOG_BUF_SIZE`, for the longest request line,
  address and number; otherwise the size given to the next `vsnprintf()` would
  wrap.
- `ImplementsAnswer`: a request is answered once, with a combination of code,
  length, stale pointer, forgotten stream and forgotten block from `Answers`,
  whatever fails; after the close there is neither a response nor a pointer left,
  and what was forgotten stays. The mapping reads all of this from `c`, `streams`
  and `buffer`, so a close that keeps `out_buf` is noticed.
- `CgiOutputWhole`: a 200 for a script carries all of the output of a script
  that exited with 0.
- `ReleasedExact`: what a request leaves behind when `do_read()` returns: the
  stream of a refused script, the buffer of a script that was served, a pointer to
  a closed stream after a file or a script, and nothing else; and a stream was
  closed twice by then exactly after a failing `fstat()`.
- `SettingsAsAsked`: the globals after `setFlags()` are what the command line
  means as a whole: arguments are not options, the last option of a kind counts,
  and the port bound is the one given modulo 2^16.
- `OneLog`: after every option, the logging flags are set exactly when `log_ptr`
  is a stream, and no other log file is open.
- `ListenersAsAsked`: the loop starts with exactly the listeners asked for,
  non-blocking, listening at the address and port given, in the first slots.
- `SilentFailureHasCause`: behind `daemon()` the start fails only because a call
  failed or the port, cut to 16 bits, is a privileged one.
- `CleanStop`, `EarlySignalStops`: a signal before the loop stops the server
  without its serving, with everything released.

### Bounds

Three descriptors are needed for a removal that moves a reported slot past
another one; two are enough for everything that concerns a pair. Arrays of one
or two slots make the doubling happen at the first connections. `INIT_CAP` 1 and
`MAX_REQUEST_SIZE` 2 reach the first allocation, the doubling and the refusal;
one byte per `recv()` splits a request at every place. A send buffer of one byte
makes a response of two meet a full buffer. `MaxScripts` bounds how many scripts
are served, since each leaves a block for good: 1 in `faults`, where the block
outlives its connection and the shutdown; none in `three_clients` and
`dual_stack`, which are about the table and about progress, neither of which
depends on the block. One failing call shows each error
path; the pipeline has two, so that an error path can fail again. A script that
writes 3 bytes into a buffer of 1 grows it twice, and a pipe of 2 makes it
block. Sizes of the log are those of the code (8192, 46); the request lines of
the parser's tests have the greatest length, so that the longest log line
happens.

In `startup` the ports are the empty word, 80, 1024, 8081, 65536, 65616, one
that is a negative `int`, one that is 80 modulo the width of an `int`, and one
past `LONG_MAX`. The width of an `int` is 2^20 there, because TLC's own integers
have 32 bits; only that it is a multiple of 2^16 matters. Three options are
enough for one that follows another of its kind with a revocation in between.

### Fairness

`FairSpec` of `EventLoop` is weak fairness of the process's own steps: the
kernel schedules a process that is not blocked. `ServerStep` is not enabled when
`poll()` has nothing to report, so nothing is assumed of peers, of signals or of
failures. `FairSpec` of `RequestPipeline` adds weak fairness of the script: the
scripts end; `docs/mainpage.md` documents that one that does not stops the
server. `FairSpec` of `Startup` is weak fairness of the steps before and
behind the loop, none of which waits for anybody; of leaving the loop nothing is
assumed there, since that is what `EventLoop` models.

## 4. Disagreements between the code and what the repository says

Each is a run that TLC ends with a counterexample; `PROJECT.json` quotes the
line that says otherwise.

| Run | What the code does |
|---|---|
| `lost_wakeup` | a signal between the test of `running` and `poll()` does not stop the server |
| `oversize` | a request past the ceiling is neither answered nor closed |
| `recv_error` | CLOSING after a `recv()` error is overwritten |
| `closed_twice` | the stream of a served file is closed twice |
| `cgi_memory` | the buffer of a script's output is still allocated after a shutdown |
| `head_script` | HEAD of a script is answered with the script's output |
| `one_family` | an address for one family leaves the other without a listener |

Others have no run of their own; the model follows the code, and a property of
section 3 says how far it goes where one is named:

- without `-c`, the stream of a script is opened, forgotten and never closed
  (`resolve_path.c:219`; `README.md:305`: `file_ptr` is freed on every connection
  close). `ReleasedExact` says that no other stream stays open;
- `/` without an index file, and a directory asked for with a query, are answered
  with 500 instead of a listing, because `opendir()` is given `req->path + 1`
  (`build_okay_response.c:275`; `docs/mainpage.md:28`). It is one of the reasons
  for a 500 in `StatusJustified`;
- after a failing `fstat()`, `rp->file_ptr` is not NULL and `do_read()` closes the
  stream again (`resolve_path.c:206`; `test_resolve_path.c:33`: "always NULL on -1
  path"). `ReleasedExact` says that `do_read()` closes no other stream twice;
- a script is not reaped when a call between `fork()` and `waitpid()` fails or a
  signal interrupts `waitpid()` (`build_okay_response.c:174`, 184, 208, 219;
  `main.c:38` and 72 say that the kernel reaps children, and
  `setup_signal_handler()` does not arrange it). `ChildReaped` says that it takes
  such a failure;
- without `-c` a script that cannot be opened is a 404 or a 403 (`resolve_path.c:198`
  comes before the test; `resolve_path.h:65` says 501);
- a path of `PATH_MAX - 1` bytes loses its last byte (`resolve_path.c:179`;
  `parse_request.h:83` accepts it and `resolve_path.h:59` prepends "." to it). It is
  the exception in `StatusJustified`;
- an empty port is taken for 0 (`setFlags.c:74`; line 67 says it is refused), and
  port 1024 is refused like the ones below it; a port past 65535 is cut, which can
  end the server without a word (`SilentFailureHasCause`);
- the log file stays open, though `flags.h` says it is closed at once; a family
  whose listener fails ends the process, though the usage text calls the two
  independent; a HEAD for a listing logs the length 0, one for a file the announced
  length.

## 5. Proofs

Every safety invariant that the passing runs check is a theorem, and so are both
refinements. For the event loop they hold for every set of descriptors, one or
two listeners, every set of responses and all bounds; for the pipeline for every
set of request lines, all lengths and sizes and any number of failing calls; for
the start-up for every set of words, command lines of any length, every width of
an `int` that is a multiple of that of a port, and any number of signals and
failing calls:

| Module | Theorem | Establishes |
|---|---|---|
| `EventLoopProofs` | `TypeCorrect` | `[]TypeOK` |
| `EventLoopProofs` | `TableCorrect` | `[]TableInv` |
| `EventLoopProofs` | `OpenCorrect` | `[]OpenExact` |
| `ScanProofs` | `ScanCorrect` | `[]ScanExact` |
| `HeapProofs` | `HeapCorrect` | `[]HeapExact` |
| `HeapProofs` | `CleanExitCorrect` | `[]CleanExit` |
| `ClientProofs` | `BuffersCorrect` | `[]BufferBounds` |
| `ClientProofs` | `EventsCorrect` | `[]WaitsForItsEvent` |
| `LifecycleProofs` | `LoopImplementsLifecycle` | `ImplementsLifecycle` |
| `PipelineProofs` | `PipelineTypeCorrect` | `[]TypeOK` |
| `PipelineProofs` | `PipelineStagedOnce` | `[]StagedOnce` |
| `AnswerProofs` | `PipelineLogFits` | `[]LogFits` |
| `AnswerProofs` | `PipelineChildReaped` | `[]ChildReaped` |
| `AnswerProofs` | `PipelineCgiOutputWhole` | `[]CgiOutputWhole` |
| `AnswerProofs` | `PipelineReleasedExact` | `[]ReleasedExact` |
| `AnswerProofs` | `PipelineResponseComplete` | `[]ResponseComplete` |
| `AnswerProofs` | `PipelineLogTruthful` | `[]LogTruthful` |
| `AnswerProofs` | `PipelineStatusJustified` | `[]StatusJustified` |
| `AnswerProofs` | `PipelineImplementsAnswer` | `ImplementsAnswer` |
| `StartupProofs` | `StartupTypeCorrect` | `[]TypeOK` |
| `StartupProofs` | `SettingsMeanTheLine` | `[]SettingsAsAsked` |
| `StartupProofs` | `OneLogAlways` | `[]OneLog` |
| `StartupProofs` | `LoopFindsItsListeners` | `[]ListenersAsAsked` |
| `StartupProofs` | `NoSilentFailure` | `[]SilentFailureHasCause` |
| `StartupProofs` | `StopsClean` | `[]CleanStop` |

Assumptions: `CapacityAssumption`, `ListenerAssumption`, `ResultsAssumption`,
`BoundsAssumption` of `ServerState`, `PipelineAssumption` of `RequestState`, and
`WordsAssumption` and `WidthAssumption` of `StartupState`, which TLC evaluates in
every run of the part. `MaxFaults`, `MaxOutput`, `MaxSize`
and `PipeSize` are any numbers, so that a proof covers as many failures as one
likes.

The invariants of the event loop. `IInv` (`EventLoopProofs`) is the conjunction of `TypeOK`,
`TableInv`, `OpenExact` and `IndexInv`, which says for every stage where `i` may
be. No part is inductive alone: `close_conn(i)` keeps the table only if slot `i`
holds a client, which depends on the loop index; and a new descriptor is fresh
only because the open sockets are those in the table. The other three modules
build on `IInv`:

- `ScanExact` is inductive given `IInv`. The step that matters is `ClosedTodo`:
  after `close_conn(i)` the reported slots from `i` on are those that were
  behind `i`.
- `HInv` adds to `HeapExact` and `CleanExit` that a connection owns only its own
  blocks (so `close_conn()` frees neither an array nor the forgotten block of a
  script), that it has no response while it reads (so that queuing one overwrites
  no pointer), and that the shutdown loop stays at the first client slot.
- `CInv` adds to the bounds of the buffers that the capacity is one of the
  doubling (`GrowToBounds` then shows that the last doubling does not pass the
  ceiling), that nothing is sent before a response is queued, and that only the
  connection being served can be CLOSING.

The argument for the event loop. `CloseConnMoves` is about `close_conn(k)` alone: the slots after
it are in bijection with those before it except `k`. `CloseConnTable`,
`AddToListsTable` and `EditTable` turn this into what the table keeps, and each
module has the same lemmas for its own invariant. The lemmas `Main...`,
`Accept...`, `Read...`, `Write...` and `Env...` go through the actions one by
one, and `Next...` collects them.

The refinement of `ConnLifecycle`. The abstract state is about a descriptor, the
concrete one about slots that move, so `SlotMaps` and `PhaseMaps` first say, from
`TableInv` and `OpenExact`, that the slot of a descriptor is unique and that its
phase is the one of the client found there. Steps are then sorted by what they
do to the table: nothing (`NothingMaps`), an edit of the slot being served
(`ServedMaps`), its removal (`ClosedMaps`, whatever slot moves into its place) or
a new one (`AddedMaps`). What is left is to show for each action which abstract
step its outcome is: `Open`, `Refuse`, `GiveUp`, `Respond`, `Send`, `Finish`,
`Close`, `Break`, `Stop`, or none. That needs, beside `IInv` and `CInv`, the four
parts of `LInv`:

- `DrainedInv`: behind the `recv()` loop the client is READING or CLOSING, so
  that a second request is never answered;
- `ReportInv`: when `poll()` reported an error, the connection is still reset
  when the scan gets to it, so that the `Close` is that of a broken connection
  and not the loss of a response;
- `StopInv`: the clients are closed at the shutdown only after a signal;
- `QueueInv`: without an `out_buf` there is nothing to send, so that
  `do_write()` closes such a connection without losing bytes.

The invariant of the pipeline. A property of what is sent is about the end of a
request, so the invariant says what holds at each stage before. `PInv`
(`PipelineProofs`) is the conjunction of `TypeOK` and of

- `PathInv`: what the path led to. The builders are only reached with a file, a
  directory or a script, and the client has a stream exactly for the first and
  the last of them;
- `CodeInv`: there is no code before the builders, 200 inside them, an error
  behind a failure, and nothing is staged before a builder has succeeded;
- `StreamInv`: which stream is open and who points at it, with the one request
  whose stream is forgotten (`Leaks`) and the one whose stream `do_read()` closes
  twice (`FstatFailed`), and the ends of the pipe;
- `RoomInv`: the script's output fits the buffer, so that `read()` is never given
  a negative size. The types need it.

The types need the stages too: `build_okay_response()` has no branch for a path
that was not resolved. `AInv` (`AnswerProofs`) adds one part for each theorem:
`BuilderInv` (which builder runs for what was found), `LogInv` (the length of the
line before and after the request is answered), `ChildInv`, `OutputInv` (the
bytes a script wrote are in the buffer or in the pipe, which is empty at the end
of file), `HeldInv` (the buffer is allocated while the output is collected and,
behind that, exactly for a script that is answered with 200), `SizeInv` (the size
of the file is the one announced unless it changed meanwhile) and `ReasonInv` (a request that goes on has passed all the tests, and
one that is refused has a reason that stays). `NextReasonInv` rests on
`RefusalReason`, which goes through the parser's tests, and on `ReasonStays`. The
refinement is `StepMaps`: `FinishRequest` is the contract's `Answer`,
`ConnectionCloses` its `Close` (by `LeakSurvives` the stream that stays is one
nobody points at), and every other step a stutter.

The invariant of the start-up. `SettingsAsAsked` compares the end of a loop with
a definition over the whole line, so `SInv` (`StartupProofs`) says what holds in
the middle of it:

- `IndexInv`: the loop's index is never at a word that is an option's argument;
- `ReadInv`: each setting is what the last option of its kind before the index
  says (`CgiRead`, `LogRead`, `BindRead`, `PortRead`). `OptionRead` shows that
  reading one more option makes it the last one of its kind and leaves the other
  kinds alone, `WordSkipped` the same for a word that is none;
- `LogInv`: the flags, `log_ptr` and the open log files agree after every option,
  also while one log replaces another;
- `SocketInv`: how far each family's socket is at each stage, at which address
  and port. An address that `get_listener` parses again was accepted by
  `setFlags()`, which `AddressRead` remembers; without it `inet_pton()` could
  fail behind `daemon()`;
- `SilentInv`: a failure behind `daemon()` has its cause, and the arrays are
  freed when `main()` returns.

`IsOption`, which says whether a word is an option or an argument, is defined by
recursion over the line. The library's induction theorems cannot be used here,
but a set of numbers that is not empty has a least member (`LeastMember`, from
`WFMin`), and an induction over a set (`SetInduction`) follows. That is enough for
`IsOptionDef`, the recursion as an equation. The port goes through an `int` and
16 bits; `LowBits` shows that only the second cut matters.

## 6. Only model-checked

Liveness and the fairness it needs, which are outside the prover's reach:
`RequestServed`, `BacklogDrained` and `SignalStops` of the event loop,
`RequestFinishes` of the pipeline, `EarlySignalStops` of the start-up. The runs of
section 4 are counterexamples, which need no proof.

## 7. Not modelled

The text of requests, headers and listings; MIME detection, what libmagic does
beyond being loaded; the DEBUG build, which does not call `daemon()`; real
time. SIGPIPE is the same end of the process as a failing
`send()`. Two descriptors of one connection table are interchangeable, so the
safety runs use symmetry; the liveness runs do not.

## 8. Plan

1. Event loop, table, accept, read, write (done), the theorems on their
   safety invariants (done).
2. Request pipeline with failing calls and the CGI process (done).
3. `Startup`: the command line, the listeners, the signal before the loop (done).
4. `AnswerContract` between the event loop and the pipeline, and the length of
   the log line (done).
5. Theorems on the safety of the pipeline and its refinement of `AnswerContract`
   (done).
6. Theorems on the safety of `Startup`, and the refinement of `ConnLifecycle`
   (done).
7. Next: what the counterexamples of section 4 leave of the properties they
   refute, as theorems (for instance that only a request past the ceiling is
   left unanswered, as `HeapExact` and `CleanExit` say what is left of
   `AllFreed`), and shorter proofs where lemmas are shared.
