# A verification development for BVS

BVS loads modules from shared libraries, connects their inputs and outputs, and
lets them execute in rounds on a set of threads. This directory holds a TLA+
model of the parts of it whose correctness depends on the order of events: the
barrier and the round protocol of `Control`, the commands of the facade and of
the daemon, the loader and the connectors, the log system, and the way from
config files to modules and pools. TLC checks finite instances, TLAPS proves
the safety properties for every value of the constants. All source paths below
are relative to `src/`; "the master" is the thread that runs
`Control::masterController`.

## 1. Inventory

| component | source | state | operations | hard behaviour | correct when |
|---|---|---|---|---|---|
| Barrier | `lib/src/barrier.*` | mutex, condition variable, atomic `parties`, `queued` | `attachParty`, `detachParty`, `enqueue(lock)`, `enqueue(lock, predicate)`, `notify` | `notify()` takes no lock; predicates read variables the mutex does not protect; spurious wakeups | a party leaves only when its predicate holds; the counters are exact; nobody sleeps when all the others have arrived |
| Control | `lib/src/control.*`, `controldata.h` | `flag`, `activePools`, `pools` (a flag and a vector of modules each), module flags and statuses, `round`, `shutdownRequested`, `shutdownRound`, `controlThread` | `masterController`, `poolController`, `moduleController`, `sendCommand`, `startModule`, `stopModule`, `waitUntilInactive`, `checkModuleStatus` | one thread per pool, one master, the client's thread; unprotected flags; a count raised after the threads it counts have been started | rounds exclude each other; what a module returned is acted upon; every round, command and shutdown comes to its end |
| BVS facade | `lib/src/bvs.cc`, `bvs.h` | `moduleStack`, `parallelism` | constructor, `loadConfigFile`, `loadModule(s)`, `unloadModule(s)`, `connect…`, `start`, `run`, `step`, `pause`, `hotSwap`, `quit`, log settings | called by the client, by the master for a DONE module and by the shutdown handler | modules are destroyed only when nobody executes them; a command is not lost; modules run in the order and the pools the options ask for |
| Daemon | `daemon/src/bvsd.*` | none | main loop, `shutdownFunction`, `mainSignal` | `quit()` on the master's thread, then again on the client's by SIGALRM | a shutdown request ends the process |
| Loader | `lib/src/loader.*` | map of modules, library handles, connections | `registerModule`, `load`, `unload`, `connectModule`, `disconnectModule`, `hotSwapModule` | order of disconnecting, destroying and closing; libraries shared by modules; loops that change the pointers they compare | no pointer to a destroyed module, no code of a closed library |
| Connector | `connector.h`, `connectordata.h` | pointer, mutex and lock of a connection | `send`, `receive`, `operator*`, `lockConnection`, `unlockConnection` | writer and readers in several pools decide by flags of their own whether to lock; the loader changes them | readers see whole values; locks are obtained and given back |
| Module interface | `module.h` | the status a module returns | `execute`, `status`, registration | a status is read a round after it was returned | see Control and Loader |
| Config | `config.*` | map of options, sections | command line, files, inclusion, queries | many sources for one option; a file may include itself; modules read while the client loads | the first source wins, additions follow, a reader sees no half-loaded list |
| LogSystem, Logger | `logsystem.*`, `logger.*` | output mutex, streams, level per name | `announce`, `out`, `endl`, settings, `updateLoggerLevels` | a mutex held between two calls; settings change without it; error handlers that log | lines do not mix, reach the right sinks, LOG returns |
| Duplicating and null streams (`streams.h`), Info, utilities, traits, Android glue, build files | | | | | not modelled (section 7) |

How they interact: the client constructs the system from the command line and
the config files (Config), which decide the modules and their pools. It loads
them (Loader), which starts one thread per named pool (Control), connects their
connectors, forks the master, and sends commands. A command is a write to the
shared `flag` followed by `Barrier::notify()`. The master runs rounds: round
sync (wait for `activePools == 0`), read `flag`, check the statuses of all
modules, unload those that are DONE (Loader again, on the master's thread), set
all module and pool flags to RUN, add the pools to `activePools`, notify,
execute the modules of the pool "master". Each pool executes its modules, which
send and receive through connectors and log; then it lowers its flag, subtracts
itself from `activePools` and waits on the barrier until its flag is raised.

The hazards of this code are listed in `PROJECT.json`, each at its line. The
heart of them: everything is signalled through `notify()` without the mutex;
most flags are plain variables that several threads test and set in two steps;
a connection belongs to two modules of which either may be unloaded first; and
settings are changed under the feet of threads that use them.

## 2. Modules

| module | what it is |
|---|---|
| `Barrier` | the barrier's state and one operator per step of its operations. A wait is three steps: arrive and test (mutex held), fall asleep, wake and test again. A notification between the first two is missed, as in the code. |
| `Rendezvous` | the barrier alone with its one-argument `enqueue(lock)`, parties that come and go |
| `Control` | client, master and pool threads composed with `Barrier` (INSTANCE): all of `control.cc`'s forked mode with the parts of `bvs.cc`, `bvsd.cc` and `loader.cc` that drive it; its properties |
| `Rounds` | the abstract specification: a round lets every module of the system execute once, and the next starts when all have done so. `Control` implements it (`LockStepRounds`). |
| `Inline` | extends `Control` by the mode without a thread for the master: `masterController` runs on the thread of the caller of each command, and inside itself for a DONE module |
| `Connector` | the data of all connectors and the statements of modules that use them, one step per access to shared memory |
| `Loader` | extends `Connector` by the loader, which creates, connects, cuts and destroys that data, at any time |
| `System` | extends `Loader` by the rounds: when modules execute and when the loader works |
| `LogSystem` | LOG as the steps out, write, endl and handler of each thread; the client's settings; levels shared through cells |
| `Config` | command line, config files as sequences of lines, the parser one line per step with a stack for inclusion, readers |
| `Startup` | extends `Config` by `bvs.cc` up to the started modules: parallelism, the list of modules, pools, order |
| `MCRendezvous`, `MCControl`, `MCInline`, `MCLoader`, `MCNested`, `MCLogSystem`, `MCStartup` | finite instances; `MCStartup` also holds the reference definition of what config files mean |
| `BarrierProof`, `RendezvousProof`, `ControlProof`, `ControlRounds`, `InlineProof`, `LoaderProof`, `LogProof`, `StartupProof` | the proofs |

`Control` abstracts the loader's work to the membership of a module. `System`
abstracts the round protocol to what `Rounds` promises of it: a round lets every
module of the system execute once, the next one starts when all have, and modules
come and go between rounds. Only a hot swap may meet a round, since
`SwapExclusive` of `Control` is false. That `Control` keeps this promise is
`RoundsImplemented`; it keeps it as long as the master runs its loop, so `System`
ends where the master leaves it. `Rounds` is not instantiated there: its number of
the round would multiply the states and nothing reads it. `Startup` and `Control`
meet in `startModule`: `poolOf` and `order` of the one are `PoolName` and
`ModuleList` of the other.

Operators whose comment starts with "Fault:" are mistakes the code could
contain. They are used by no specification; putting one in the place of the
operator below it shows that a property notices the mistake (section 6).

### How Control corresponds to the code

`pc[t]` names the next statement of thread `t`:

- client: `load`, `count`, `push` (startModule), `assign` (start), `ready`,
  `idle` (the daemon waits for input), `notify`, `join` (sendCommand),
  `swapPause` .. `swap` (hotSwap), `unloadNext` .. `unloaded` (quit), `delete`, `end`;
- master: `startup`, `startSync`, `reset` (lines 44-46), `head` (52), `sync` (54),
  `dispatch` (82), `pause` (87), `check` (94), `launch` (100), `run`, `exec` (103),
  `step`, `stepWrite` (108), `tail` (114-116), `exit` (119), `handler`, `handlerNotify`,
  then the labels of unloading;
- pool: `attach` (264), `head` (268), `run`, `exec` (271), `finish`, `finishWrite` (273),
  `sub` (274), `wait` (279), `erase` (282), `done`.

Every access to a shared variable that another thread can invalidate is a step
of its own: the two halves of `if (flag==STEP) flag = PAUSE`, of
`if (data->flag!=QUIT) data->flag = WAIT`, of "query the flag, then send PAUSE",
the write of a flag and the notification after it, `pools[...]->flag = RUN` and
`activePools.fetch_add`. Four pairs are one step because swapping or separating
them shows nothing new: `fetch_add` (100) with the notification after it (102),
the restoring of a pool's flag with the notification in `stopModule` (200-201),
the test at the end of the round (114-116), and a module's `status` with its flag
(246-247). Two loops are one step although their iterations are visible:
raising the flags of all pools (99) and telling them to quit (119).

Undefined behaviour is a choice: a step that uses a destroyed module, a null
pool pointer or an invalidated iterator may end the process (`crashed`) or go
on; a use that is certain to dereference a null pointer ends it.

Data is abstracted to what the properties tell apart: a module is its id, its
pool, its flag and its last status; `execute()` returns any member of
`Returns[m]`; a pool's vector is a sequence of modules; the module map is a set,
visited in any order.

### How Inline corresponds to the code

There is one thread beside the pools. `pc["master"]` is its place in the
innermost call of `masterController`; `pc["client"]` is `called` as long as there
is one. `frames` is the stack of those calls: who called, where the caller goes on,
and the locals it goes on with (`Frame`). `Call` enters at the startup sync
(line 44), `Return` is the `return *this` of lines 85, 116 and 122. `Start`,
`ClientCommand` and `InnerCommand` take the place of `Fork`, `Join` and the
notifications of `Control`; every other action is `Control`'s own, with the
handle `controlThread` never joinable. An outer loop over the modules goes on with
those that the inner calls have left. `MaxDepth` bounds the stack: a call beyond
it is the end of the process.

### How Loader and Connector correspond to the code

Every load of a module creates one object per output, with the mutex inside its
`ConnectorData`: `<<output, number of the load>>`, a member of `alive` while it
exists. For every connector, `active`, `pointer`, `lockOn` and `owns` (the
`unique_lock`), `locked` are the fields of its `ConnectorData`, and `connection`
is the shared pointer of the `Connector` itself, which `activate` copies once from
`pointer` and nobody updates. `at[m]` is the statement module `m` is at: the body
of `send` (write), of `receive` (read), a use through `operator*` (access), or
waiting for a mutex on behalf of one of them, and `cur[m]` the connector it works
on. `inside` holds the connectors between `lockConnection` and `unlockConnection`:
a module may keep several of them locked and call the others meanwhile. The
actions are `Send`, `Receive`, `LockConnection`, `Access`, `UnlockConnection`,
`Misuse`, and `Lock`, `Done` as the inner steps; the loader's are `Load`,
`Connect`, `Unload` followed by `Destroy` and `Close`, `SwapClose` and
`SwapReopen`. In `System`, `pending` is the set of modules that still have to
execute in the round: `StartRound` is line 97 for all of them, `Statement` a step
of `execute()`, `Finish` its return (246-247); `BetweenRounds` are the client's
calls before `run()` or in a pause, and the unloading of DONE modules, `Swap` are
the steps of `BVS::hotSwap` at any time.

`disconnectModule` compares with a pointer that it has set to null itself: an
active output cuts only what comes before it in the module map (`Cut`, `Rank`);
an active input switches off an output nobody else reads (`Unread`). The
parsing of connector options is abstracted to the wish of each input. Locking a
destroyed mutex may end the process or go well, unlocking a `unique_lock` that
owns nothing throws, a failed check that logs with level 0 exits.

A hot swap is two steps, `SwapClose` (`dlclose`, line 232) and `SwapReopen`
(`dlopen`, line 233): in between `swapping` is the module, its library has one
user less, and everybody goes on. `handles` is `dlopen`'s count. A module whose
library is closed has no code: its next statement is a crash (`ModuleStep`),
except that a thread that waits for a mutex notices only when it has got it,
and survives if the library has been opened again by then at the same place;
that it is somewhere else is the other choice of `SwapReopen`. `Close` asks
whether the library is open, as `unloadLibrary` does (297-300).

### How LogSystem corresponds to the code

`at[t]`: `out` (waiting for `outMutex`), `args` (writing), `endl`, `handler`,
`stuck` (a nested LOG waits for the mutex of its own thread). Between `out` and
`args`, every look `LogSystem::out` takes at a setting is a step: the system's
verbosity (line 57, with the mutex, in `Out`), the logger's (58, `level`), the
file and then the console for both targets (76-77, `askBoth`, `askBothCli`), the
file (78, `askFile`), the console (79-91, `askCli`). The setters take no mutex, so
they work between any two of them, and each of their writes is a step of its own
in the order of the code (`EnableLogFile`, `UpdateSettings`). `wasOn` and `wasOff`
are history: what has been enabled, and what has not, at some moment since the
message being logged got the mutex; the properties are stated with them, no action
reads them. A verbosity is a cell that loggers of one name share (`verbosity`,
`loggerLevels`, `level`). `updateLoggerLevels` is two steps per option, find and
store, because a logger may be announced in between. The sinks are the console and
the file (`console`, `file`), and `stream[t]` is the stream that `out` has
returned; what `outBoth`'s buffers do with a line is not modelled (section 7).
Formatting, colours and the text are left out.

### How Config and Startup correspond to the code

A line is a section, an assignment, an addition, an inclusion or bad; a value is
the sequence of the list's elements. `stack` holds the calls of
`loadConfigFile`: a file, the line in it, its section. `MayRead` is the
recursive mutex, held for the outermost call. `Startup` adds the client's
phases: construct (the command line, then parallelism is read once), options
(more files), list (elements one by one: `SinglePool`, `Pool`, the refusal of a
second module of one id and of "+" with a pool), done (more files, modules
read). `Pool` is what the code computes, `AskedPool` what the documentation
promises for an element under a word, without the code's detour over names and
flags. A refusal ends the process in one step. The `LOG(0)` of `bvs.cc:77` calls
the client's shutdown handler, which exits by default; one that returns, like
the daemon's, has begun the shutdown, and the loader, which is then asked for a
library called `[pool]name`, exits, unless the element names a library itself:
those last moments of a process that is ending are left out.

## 3. Runs

| run | instance | shows | states |
|---|---|---|---|
| `Rendezvous` | 3 parties, 2 meetings each, parties leave and join | `queued` is the number of parties inside, a party leaves only when all attached ones are inside | 232 (symmetry) |
| `Commands` | TwoPools; RUN, PAUSE and hot swap at any time, spurious wakeups, 2 rounds, fair | rounds exclude each other, `activePools` is exact, nobody oversleeps at the barrier, all stand still only in a pause, rounds end, a module whose pool has a thread gets swapped | 90 780 |
| `Requests` | OnePool; every command, one module may ask for shutdown, another may be DONE, 4 rounds | the inductive invariant with the types, statuses are heeded, Control implements Rounds through unloading, handler and alarm | 810 943 |
| `LiveShutdown` | OnePool; quit at any time, one module may ask for shutdown, spurious wakeups, 5 rounds, fair | `run()` and `quit()` reach the master unless they notify it between its test and its sleep, the system stops at the shutdown round, the process ends | 109 001 |
| `Inline` | OnePool; start(false), every command and hot swap, one module may ask for shutdown, another may be DONE, spurious wakeups, 4 rounds, calls 4 deep, fair | no pool executes a destroyed module up to the round a requested shutdown is due in, every command returns unless running pools have been counted twice | 130 179 |
| `Dataflow` | 3 modules in 2 libraries: a source and a reader on either side of it in the module map; each is loaded up to twice, between rounds; two of them, one alone in its library and one not, are hot swapped at any time | values are whole, lock and object belong together, an output knows its readers, readers before it stop with it, a library is open while one of its modules is in the map but for the swap of its only user, locks are given back before the round ends, only the first lock of an input throws | 286 187 |
| `Nested` | 2 modules, 2 outputs of the one connected to 2 inputs of the other, each locks either and uses the other meanwhile; loaded up to twice, hot swap; fair | a module that waits gets its lock unless there is a circle of waiting modules, and circles do occur here; who waits holds only what `lockConnection` has locked | 44 379 |
| `Options` | every file of up to 3 lines over 7 kinds of line, a second file that may be missing, 3 command lines, a second load at any time after construction, 1 reader | the store is what the files mean, readers see no half-loaded list, every module starts in the pool its element asks for under the word of the constructor, in the order of the list, all of them before `loadModules` returns, every load ends | 477 722 |
| `Logging` | 2 threads of which one is the client, 2 loggers of one name with different targets and handlers, 1 option, levels 0 and 1 | lines do not mix, a line is sent to no sink that was not enabled during its call and misses none that was enabled all the time but for one race, loggers of a name share their level, LOG returns | 248 504 |

Bounds, named in the modules: `MaxRound` (the master starts no further round),
`MaxLoads` of `Connector` (loads of a module) and of `Config` (files loaded by
the client), `MaxOpen` (open files), `MaxMeetings`, `MaxDepth` (calls of
`masterController` inside each other). In `Control` the user does not hot swap
when the master has set QUIT: to send the kept QUIT again would join the master
and leave the system to the caller's thread.

Why they are enough. `Control`: three modules, one in the pool "master" and two in
two named pools (`TwoPools`), in one (`OnePool`), or all with the master
(`MasterOnly`), so that a pool with one module, one with several and the master's
own meet; two pools interfere with each other. Two rounds show everything that
passes from one round to the next. A status returned in the first round is read in
the second; with two pools ("master" and one more) a shutdown requested there is
due at the end of the fourth, so four rounds contain the unloading of a DONE
module, the rounds after it and a whole shutdown, and a fifth could be overshot
into. `Loader`: what disconnecting does depends only on whether a reader is before
or behind the output, and whether it is the only one; one source and two readers
give all cases. `Nested` has what `Dataflow` lacks, modules with more than one
connector: two modules and two connections are the smallest system in which each
can hold what the other waits for. The second load of a module meets the leavings
of the first; a third would meet nothing else. `Config`: a section, an assignment
and an addition or inclusion fit into three lines, and two open files let a file
include another or itself until the limit. `LogSystem`: two threads for a mutex,
two loggers for a name; the level of a message and the levels in force may differ
in both directions with two levels. The proofs (section 5) do without these bounds
for the safety properties.

Deadlock is not checked: each of these systems may stop, by a pause with no
user, at the end of the process, at a bound, or with parties that wait for one
that has stopped. That they do not stop where they should go on is what the
liveness properties say, and for the round protocol, for every instance,
`NoDeadlock`: whenever the master and all pools wait in the barrier and none of
them can go on, the master is in a pause, or a pool's thread has been lost.

Symmetry is used in `Rendezvous` only, which has no liveness property. In the
others modules and pools are told apart by the configuration.

### Runs that find the code at odds with its documentation

Each checks one statement and ends in a counterexample; the statement is quoted
in `PROJECT.json` under "findings".

| run | what happens |
|---|---|
| `QuitOverwritten` | the master tests `flag==STEP`, the client writes QUIT, the master writes PAUSE: `join()` waits for ever |
| `QuitUnload` | `quit()` joins the master, not the pools, and `stopModule` sets the flag to WAIT that it then waits for: a module is destroyed while a pool executes it |
| `StaleReader` | unloading a source leaves a reader behind it in the module map active, with a lock on a mutex that is then destroyed: `receive()` locks it |

### Observed with the model or while writing it, without a run of their own

The round protocol:

- A DONE module was alone in its pool: the pool leaves its loop without
  subtracting itself, the count it has been added to never gets to zero, and the
  next round does not end (`control.cc:268`). `RoundCompletes` fails as soon as
  such a module may return DONE; `Lost` and `LeftBehind` count such pools. The
  documentation says that a DONE module "can be unloaded" (`module.h:22`).
- A notification is sent without the mutex, so `run()` may notify between the
  master's test and its sleep: the master sleeps with `flag == RUN` until the
  next command (`control.cc:132`). `EveryRunObeyed`, which is what `bvs.h:204-206`
  says of `run()`, fails at that step and at no other: `RunTakesEffect`.
- A pool's thread that finds no module yet leaves before `startModule` adds the
  first one; the module then has no thread (`control.cc:166`; `ModulesHaveThread`).
- The forked master may find `controlThread` not assigned yet and return at its
  first PAUSE (`control.cc:38`; `StartLeavesMaster`).
- The master is past its reading of `flag` when `hotSwap` pauses and finds the
  module inactive: it is replaced while it executes (`bvs.cc:307`; `SwapExclusive`).
  `bvs.h:236-238` says that the system is paused, `bvs.h:232` warns that a swap
  "is inherently not safe".
- `hotSwap` of a module of the pool "master" waits for ever once a round has
  run: line 99 raises the flag of that pool too, and nothing lowers it
  (`control.cc:99`, `227`; `SwapHappens`). `PooledSwapHappens` is about the others.
- A command sent after the shutdown round overwrites the QUIT the master has set
  (`control.cc:114`, `130`); `round==shutdownRound` is then never true again.
  `NoOvershoot` fails as soon as `Commands` contains RUN and QUIT.
- The shutdown comes after as many rounds as there are pools (`control.cc:306`),
  the documentation says modules (`module.h:23-25`).
- With `enqueue(lock)` a party that has been released stays counted in `queued`
  until it has the mutex again; a party that comes back first counts it and
  passes the second meeting alone (`barrier.cc:36`), which the second disjunct of
  `LeavesOnlyWhenFull` allows. The other way round, the last party to arrive goes
  on at once and lowers `queued`; those it has woken test `queued == parties` after
  that and sleep again. Control does not use that overload.
- Several pools insert into the maps of `Info` at once (`control.cc:251`).

Without a thread for the master (`Inline`):

- A module that is DONE during a STEP, or while a shutdown is due, makes an inner
  call that runs a round and returns from line 116 while the pools execute. The
  outer call counts the same pools again, `activePools` stays above what they
  will subtract, and the next command waits for ever in its startup sync
  (`control.cc:45`; `WaitsForNobody`). Until then the outer call unloads and
  raises flags while pools execute: `RoundExclusion` of `Control` fails here.
- The shutdown round returns from line 116 before line 120, so the handler is
  never called, which `bvs.h:105` promises; `run()` does return then, which
  `bvs.h:196` denies.
- A `quit()` after that reaches line 120, whose handler calls `quit()`, which
  calls `masterController`: the recursion ends with the stack.
- `step()` with a DONE module runs two rounds.
- From the round of a requested shutdown on, a module may be executed after it has
  been unloaded, so `NoUseBeforeShutdown` stops there. The inner call that ends
  that round returns with `flag == QUIT` and the pools at work. The outer one
  unloads the next DONE module without a PAUSE (`bvs.cc:159`): `stopModule` finds
  a pool that executes, and afterwards puts back the RUN it has saved although the
  pool may be through by then. `activePools` is one too low; after one more RUN or
  STEP the startup sync of `quit()` is passed while a pool executes, and `quit()`
  unloads under it. TLC finds 175 steps for `a` in "master" that returns DONE, `b`
  (OK, DONE) and `c` (OK, SHUTDOWN) in one pool, RUN, STEP and QUIT, 5 rounds and
  3 calls.

Loader and connectors:

- `lockConnection` on an input that has not received yet locks nothing,
  `operator*` activates the input, and `unlockConnection` then unlocks what it
  does not own, which throws (`connector.h:223-240`; `ThrowsOnlyUnguarded` says
  that nothing else does). The documentation of `operator*` asks for the lock
  (`connector.h:79-80`).
- Modules that keep a connection locked while they call another one can wait for
  each other for ever (`connector.h:194`, `225`): two modules connected in a
  circle that each lock their output and then receive, or two modules that lock
  the same two connections in different orders. A module with two inputs from one
  output waits for itself. `NestedWaits` says that it takes such nested calls. The
  run `Nested` contains the second kind: there `LocksComeFree` excuses exactly
  these circles (`Circle`), and without the excuse TLC finds one. In `Dataflow` no
  module has two connectors.
- A reader does not come back after its source has been loaded anew: `activate`
  copies the pointer only while `connection` is null, and connecting a reader
  that was left active ends the process with "Input already connected"
  (`loader.cc:156`). Different types are documented as a warning (`bvs.h:44`,
  `bvs.conf:14`) but are logged with level 0, which exits (`loader.cc:167`).
- A hot swap of the only module of a library closes it under a module that
  executes: paused or not, the swap meets rounds (`SwapExclusive`), and the next
  statement of the module is a crash in the model. `bvs.h:229` warns of the other
  case, two modules of one library, where the library is never closed and so
  the old code stays.
- An object that a reader keeps beyond its source is destroyed by code of a
  library that may be closed.
- `hotSwapModule` looks for a function named after the id (`loader.cc:237`),
  `module.h` names it after the class; an unknown id exits.

Log system:

- `outBoth` is bound to the buffer of `clog` at construction: with a file open,
  `enableLogConsole` of another stream has no effect on loggers with both targets
  (`logsystem.cc:38`), and a file that is closed or full silences both for good
  (`streams.h:34`). The model ends at the choice of `outBoth`.
- `out()` looks at the file, and at the console, up to twice
  (`logsystem.cc:76-79`): if the file is opened in between, a line for both
  targets goes to the file alone, although the console has been enabled all the
  time. `RightSinks` excepts this and nothing else.
- Every `loadConfigFile` applies the log options again: a log file that is not
  appended to is truncated, and a verbosity set by a call is undone.

Options:

- A value of the command line gets the additions of the files (`config.cc:221`),
  although the command line is said to override always (`config.h:25`).
- An option whose name begins with "source" is taken for an inclusion (169);
  `arg.erase(0, 13)` fits section names of three letters only (58, 71); an option
  without "=" on the command line is undefined behaviour (89-90), and an empty
  value leaves a number uninitialised (`config.h:245-259`).
- The word for threads is THREAD in the documentation (`bvs.conf:34`) and
  "THREADS" in the traits; every unknown word acts the same way.
- `parallelism` and `connectorTypeMatching` are read in the constructor only
  (`bvs.cc:19-23`): a config file loaded later does not change them, although
  `loadConfigFile` is said to update the system (`bvs.h:150`). `PoolsAsConfigured`
  is therefore about the word of the constructor; `PoolsAsOption`, which asks for
  the option's value when the modules are started, fails.
- Under FORCE a module named "master" shares the master's pool.

## 4. Fairness

`Control`: `FairSpec` assumes weak fairness of the client's own steps and strong
fairness of the master and of each pool, and nothing of the user: no property
relies on a further command. The alarm counts as a step of the client, since the
timer goes off by itself. Strong fairness is needed because a thread that wants
the barrier's mutex is disabled whenever another one holds it. The mutex is held
only for a test of a predicate, and the operating system runs every runnable
thread, so a thread that finds the mutex free infinitely often takes it.
`waitUntilInactive` is a poll with a notification, so it ends when the pool's
flag is lowered, and a module's `execute()` returns.

`RoundCompletes` is worth a word: a pool may miss the notification that begins
its round. It is saved by the other half of the barrier: whoever arrives last,
the master or another pool, wakes all of them. Removing that wake-up breaks the
property, and so does a party that is counted but gone.

`QuitEnds` and `RunTakesEffect` begin where the flag is written and the
notification is still to come. They except the master that has tested the flag
before and is about to sleep at that moment (`AboutToSleep`), and nothing else of
the kind: a command that is written and not notified would violate them, and one
that meets the master there is the missed notification of section 3. `Obeyed` also
excuses `Lost` (a pool left at startup while its party is attached).
`LiveShutdown` sends no STEP, whose race with QUIT is `QuitOverwritten`, and no
further RUN or PAUSE, which overwrite the QUIT of a shutdown; the first RUN is the
daemon's own.

`System`: weak fairness of a module's statement while it writes, reads or uses
an object (that ends) and strong fairness of it while it waits for a lock
(`FairModule`), strong fairness of `UnlockConnection` for each of its connectors
while its `execute()` lasts, and weak fairness of `SwapReopen` (`dlopen` returns): a
mutex goes to everybody who waits for it, and a module that has locked a
connection unlocks it. The last is an obligation the documentation puts on
modules; without it the other users of the object wait for ever. Nothing is
assumed of the loader, of the beginning of rounds or of calls that have not
begun. `LocksComeFree` excuses `Circle`, modules that wait for each other or for
themselves: an unlocking that is behind such a wait never comes, however fair.

`Inline`: strong fairness of the one thread and of each pool, for the same
reason; nothing of the user. `CommandReturns` excuses RUN, which keeps its caller,
the bound on rounds, and `WaitsForNobody`, which is the defect of section 3 and
not left once entered.

`Startup`: weak fairness of the parser's step, since the client's thread runs.
`LogSystem`: strong fairness of `Out`, which waits for the mutex, weak fairness
of the steps after it (`Finishes`). `LogReturns` excuses the end of the process and a thread
that waits for itself (`Nested`): a LOG whose arguments log, or a signal handler
of the daemon that logs (`bvsd.cc:90`).

## 5. Proofs

Proved by TLAPS for all values of the constants that satisfy the named
assumptions (`ControlAssumption`, `InlineAssumption`, `RendezvousAssumption`,
`ConnectorAssumption`, `LoaderAssumption`, `LogAssumption`, `ConfigAssumption`),
which TLC evaluates in every run of the module. They are finiteness and types of
the constants, with two exceptions: `LoaderAssumption` says that no output is
connected to an input of its own module, which `connectModule`
(`loader.cc:129-184`) would allow, and `ConfigAssumption` that `Options` is closed
(see Options below):

| theorem | module | statement |
|---|---|---|
| `TypeCorrect` | `ControlProof` | `Spec => []TypeOK` |
| `Inductive` | `ControlProof` | `Spec => []IInv` |
| `CountCovered`, `ActiveIsExact` | `ControlProof` | `Spec => []CountCovers`, `[]ActiveExact` |
| `RoundsExclude` | `ControlProof` | `Spec => []RoundExclusion` |
| `RoundsImplemented` | `ControlRounds` | `Spec => LockStepRounds` |
| `ThreadsCounted` | `ControlProof` | `Spec => []QueuedExact` |
| `StatusesHeeded` | `ControlProof` | `Spec => []StatusHeeded` |
| `NobodyForgotten`, `NoDeadlocks` | `ControlProof` | `Spec => []NobodyOversleeps`, `[]NoDeadlock` |
| `ShutdownEnds` | `ControlProof` | `Commands \subseteq {"PAUSE", "QUIT"}` and `Swappable = {}` imply `Spec => []NoOvershoot` |
| `LoadedWhileRunning` | `ControlRounds` | `Spec => [](~Closing => NoUseAfterUnload)` |
| `LoadedInline` | `InlineProof` | `InlineSpec => []NoUseBeforeShutdown` |
| `CountersAgree`, `CountExact` | `RendezvousProof` | `Spec => []TypeOK`, `[]QueuedExact` |
| `AllMeet` | `RendezvousProof` | `Spec => LeavesOnlyWhenFull` |
| `LoaderTypes`, `LocksGuard`, `OutputsKnow`, `ReadersStop`, `CodeIsThere` | `LoaderProof` | `Spec => []TypeOK`, `[]LockGuardsObject`, `[]OutputKnows`, `[]EarlierReadersStop`, `[]CodeStays` |
| `ValuesWhole`, `ThrowsExplained` | `LoaderProof` | `SystemSpec => []WholeValues`, `[]ThrowsOnlyUnguarded` |
| `LocksAreReturned`, `NestedWaits` | `LoaderProof` | `SystemSpec => []LocksReturned`, `[]WaitersNest` |
| `LogTypes`, `LinesSeparate` | `LogProof` | `Spec => []TypeOK`, `[]OneLineAtATime` |
| `SinksRight`, `SharingKept` | `LogProof` | `Spec => []RightSinks`, `LevelLostOnlyByRace` |
| `StartupTyped`, `ValuesGrow`, `CommandLineStays` | `StartupProof` | `Spec => []TypeOK`, `ValuesOnlyGrow`, `[]CommandLineFirst` |
| `PoolsFollow`, `ListOrder`, `AllListed` | `StartupProof` | `Spec => []PoolsAsConfigured`, `[]OrderAsListed`, `AllStarted` |

**The round protocol.** `RoundExclusion` says that between the round sync and
the launch of the next round no pool executes. The only guard is
`activePools == 0`, so one must know that `activePools`, plus the additions that
are still to come (`Pending`: a pool that has been started but not counted,
pools that have been told to run but not counted), is never smaller than the
number of pools that owe a subtraction (`Owing`): that is `CountCovers`. It is
not inductive alone: a pool that is about to subtract must have lowered its flag
(`SubLowered`), or it would owe a second time after subtracting; a sleeping pool
may begin to owe only because the master arms it, and then it must not owe
already (`Quiet`, which is what the round sync establishes through
`CountCovers`); the master that unloads a DONE module writes pool flags, and must
put back WAIT (`SavedIdle`); the registered pools must be the living ones
(`Registered`), so that `pools.size()-1` counts them all; and pools must not be
told to quit before the master has left its loop (`NoQuitYet`). The order of the
phases (`LoadFirst`, `UnloadLast`, `HandlerLast`, `HandlerQuits`) keeps the
client's loading and unloading apart from the master's loop. In short:
`CountCovers` at the sync gives `Quiet`, `Quiet` at the launch gives
`CountCovers`.

`ControlProof` proves the type invariant with one lemma per role and one step
per action; the Boolean variables are treated apart because they need another
prover. Then it proves, again per role, first that the phases are kept
(`...Phases`) and then that the count is (`...Count`), using that steps which
change neither flags, count nor owing keep it (`CountFrame`). The cardinality
arguments rest on the library's `FiniteSetTheorems`.

**The refinement.** `RoundsImplemented` maps a module that is pending in `Rounds` to
a loaded one whose flag is RUN. A step of the master that prepares a round is a
stutter; `Arm` is `StartRound`, `EndExecute` is `Execute`, `Free` is `Leave`,
leaving the loop is `Close`. Two of these need more than `IInv`. `StartRound` may
happen only when nobody is pending, and the code never looks at the flags: what
it looks at is `activePools`. So a module with flag RUN must be still to come in
its thread's pass (`AllToCome`), and a thread that waits has none. That in turn
needs every module to be in the vector of a pool that is there (`AllPlaced`).
It is not so while the system starts: a pool's thread may find its vector empty,
erase the pool and leave the module without a thread. The rounds are saved by the
count: such a pool has been added to `activePools` and never subtracts, so the
startup sync is not passed and there is no round (`StartCovers`, the second half
of the invariant: while a module is stranded, `activePools` with what is still to
be added exceeds the number of pools that owe). `RoundsInv` is `IInv` with these;
the proof goes role by role again, once for the course of a round (`...Course`),
once for the count at the start (`...Start`), and then shows for each role that
its steps are stutters (`...Same`) but for the five above.

**The barrier.** `BarrierProof` proves once, for any set of parties, that in
every step of the barrier the counter and the set of the parties inside move
together (`Together`), which gives `QueuedExact`. `RendezvousProof` adds that the
parties inside are attached, and that nobody is released but by a full meeting:
a subset of the attached parties with their cardinality is all of them.
`ControlProof` instantiates `BarrierProof` with the threads of `Control` and
shows that every step of `Control` is one of the barrier's or leaves it alone
(`SyncStep`).

**Missed notifications.** A flag is written, and `notify()` called, without the
mutex, so a thread between its test and its sleep misses both.
`NobodyOversleeps` says why the rounds survive this: when all parties are inside
the barrier, so that nobody is left who could notify, no one sleeps or is about
to who could go on. The last party to arrive finds all
others asleep, because it has the mutex, and wakes them; and from then on none of
them can write a pool's flag or the count before it is outside again. The
invariant `AwakeInv` adds to `IInv` and to the exact counter that who is inside
is at one of the waits (`InsideWaits`), and that there are at least as many
parties as attached pools and the master (`PartiesCover`): so while one of them
is at work, `queued` is less than `parties`, and nothing is claimed. A step is
then either one of the waits (`Waits`), whose test has just failed if the thread
stays, or leaves who is inside alone (`Aside`). That a command of the client can
be missed is not excluded: the client is no party.

**No deadlock.** `NoDeadlock` says that the parties of the barrier never stand
still together but in a pause: when the master and all pools are asleep there
(`StandStill`), the master waits at line 87 for the client. `NobodyOversleeps`
does not give it, since it is content when no predicate holds. What is needed is
that the count is not too high either. `ActiveExact` adds this to `CountCovers`:
`activePools` with the additions still to come (`Pending`) is at least the number
of pools that owe a subtraction, and at most that number and one for each pool
that has been left behind (`CountMet`, `LeftBehind`: a thread that left its loop
without subtracting, as that of a DONE module or of an empty pool at startup). `CountInv` is
`AwakeInv` with `CountMet`; role by role again, every step is shown to keep it.
The theorem then follows without induction. At a standstill everybody is inside,
so `NobodyOversleeps` says that nobody could go on: a pool sleeps with its flag
lowered and owes nothing; no addition is to come, since whoever adds is outside;
so the count is zero, and a master at one of the two syncs could go on. What
remains is the pause. `Lost` excuses systems in which a pool has been left behind.

**Shutdown.** `NoOvershoot`, that no round begins after the one the shutdown is
due in, is false in general: RUN overwrites the QUIT the master has written
(section 3). `ShutdownEnds` shows that this is the only way, for users who only
pause and quit: `DueInv` says that the flag the master reads at the head of its
loop is not RUN or STEP when the shutdown is due (`DueHeeded`), and that nothing is
requested before the first `run()` (`StartQuiet`, `StartClean`), which is the last
RUN there is.

**Statuses.** `StatusHeeded` needs that the modules in a thread's hands are its
own (`OwnModules`, since a module may be unloaded and its status is not the
thread's to read), that a module flagged RUN has nothing unheeded (`RunHeeded`:
the master flags only what it has checked), and that the module that executes is
flagged RUN (`ExecRun`), which loading could disturb, but loading ends before the
first flag is raised (`IdleUnborn`). With the rounds, the same gives
`LoadedWhileRunning`: only loaded modules are flagged RUN (`RunLoaded`); the one
unloaded for DONE is not, since a DONE module has been heeded by nobody yet
(`TargetIdle`). Two protections hold here at once, the flag and the order of the
rounds; each alone would do, so no single mistake in the code would show.

**Without a thread.** `Inline` has no `RoundExclusion`, from which
`LoadedWhileRunning` follows: a call that interrupts the unloading of a module may
leave pools at work, and the controller that goes on tells them to run again.
`LoadedInline` says that modules are nevertheless executed only while they are
loaded, up to the round of a requested shutdown. Its invariant has five parts.
`CallsInv` describes the stack: the last call is the client's, only the latest can
be one that stops the pools for an unloading, and `flag` is QUIT exactly from the
client's `quit()` on. `DoneInv` says that every module that some call is unloading
is DONE, and that a module flagged RUN is loaded. `RestInv` says where the pools
are at rest: at the statements between `stopModule` and the unloading, in
particular, so that the flag saved there is WAIT and nothing is put back that was
not there. `CoverInv` counts: the pools that have been told to run again before
they have lowered the count (`Twice`) are counted twice among those that owe, and
`activePools` is never below that (`Cover(0)`). If such a pool runs once for two
tellings, the count is too high for good (`Cover(1)`) and no wait for it ends; so
a wait that ends has found it exact, and then each module flagged RUN still has a
pool to come to it (`Exact`). `NothingInv` is what remains for `quit()`: when its
startup sync is passed, all pools are at rest and have nothing to come to, so no
module is flagged RUN in a pool's hands, and its unloading, which waits for
nobody, is safe. That is what fails in `QuitUnload`, where `quit()` waits for the
master alone. The step to a crash is treated apart, since the invariant says
nothing of the state after it.

**Connectors.** The invariant has two layers. `Structure` is about what the
loader builds and holds whenever it works: pointers refer to objects of loads
that have happened (`NotNewer`), an output to its own object (`OwnObjects`), an
input's lock to the mutex of the object its pointer refers to (`LocksFollow`), a
module that is gone has no pointers (`Blank`), `dlopen`'s count of a library is
the number of its modules in the map, less one between the two halves of a swap
(`HandlesExact`, `Missing`; with both halves in one step it would hold by
construction, with them apart it is what loading, unloading and swapping keep
against each other), and an input that points to
something destroyed is behind its output in the map (`LaterLeft`, the induction
that `EarlierReadersStop` lacks). These theorems are about `Spec` of `Loader`, in which
the loader works at any moment.

`Locking` is about who owns which mutex, and needs the rounds. `Turns` is what
they give: who is in the middle of `execute()` is pending, and while the loader
takes a module apart nobody is. `SystemSpec => Spec`, so `Structure` holds there
too. What each statement has established (`Established`), that an owned mutex is
in use (`OwnsInUse`), that a locked connection is owned, active and inside
(`LockedInside`), and that every active output inside is locked (`InsideLocked`),
are kept by the steps of modules (`Disciplined`), and so is that a mutex has one
owner (`OneOwner`); the loader, in its turn, finds no lock taken. `OwnFrame` and
`LockingFrame` reduce each of these steps to the one connector it is about, so it
does not matter how many others the module keeps locked. A hot swap may meet all
of this. It touches no connector (`SwapFrame`), and `CodeIsThere` follows from the
count: it is zero for a module of the map only if the one user there is is being
swapped. `LocksAreReturned` is `OwnsInUse` with `Turns`: no mutex is owned between
rounds, so none is destroyed while it is locked. `NestedWaits` is what can be said
without looking at the connections: a module that waits owns nothing but what it
has locked with `lockConnection`, so nobody waits in a circle without such a lock.
In `quit()`, where the master has left its loop, none of this is promised
(`QuitUnload`).

**Options.** A value is a sequence and only ever extended or kept
(`StoreTyped`), the frames of the stack are in files that exist (`StackTyped`), at
most one line behind their ends and in sections that have been declared
(`Places`), so that an option that is set is one of a declared section
(`Declared`); what is left of the list is a tail of the option's value, which only
grows, so the modules started so far are a prefix of it (`ListLeft`, `Ordered`).
No file is read while modules are started, so nothing of the list is left out
when the last one is (`Whole`, which gives `AllListed`). `PoolsFollow` is about the
pool of every module: a started module has the pool its element asked for
(`PoolsKept`, which rests on `PoolChosen`: the code's choice is the documented one
for every element and word), and it keeps it because its element keeps its
place in a list that only grows. The word is the one the constructor has read;
against the option's value at that time the statement is false (`PoolsAsOption`).
`CommandLineFirst`, that what the command line gives stays in front, holds when
the command line is loaded, and is kept because extending is transitive
(`ExtendsFurther`). Neither it nor `ValuesOnlyGrow`, that no value is replaced or
shortened, is checked by a run: `StoreIsMeaning` says more, for the instance.
`ConfigAssumption` says of `Options` that it is closed: every section that is
named makes an option with every name.

**Logging.** `LogInv` ties each statement to the mutex, the client's find and
store to the option they are at, and loggers to their cells. `RightSinks` compares
the stream that was chosen with the whole history of the call, during which the
settings may have been anything: `SeenSoFar` says, for every place between two
looks, what the looks so far have noticed (`Noticed`), and a change of settings
disturbs none of it because the history only grows (`HistoryGrows`). The exception
in `SinksOf`, a file opened during the call, is the race of section 3.

Model-checked only: all liveness properties and whatever depends on them, which
are out of the prover's reach; `StoreIsMeaning` and `ReadsWhole`, because the
reference definition is recursive, and induction over data is out of reach.
`NoUseAfterUnload` without restriction is neither checked nor proved, because it
is false: forked, when the system closes (`QuitUnload`), and without a thread
beyond the round of a shutdown (section 3). `NoOvershoot` is proved under the
hypotheses of its run, without which it is false.

## 6. Faults

Every property of every passing run is violated when one operator of the model
is replaced by its "Fault:" variant, under the same configuration:
`PROJECT.json`, "mutants".

## 7. Not modelled, and the plan

Not modelled in `Control`: what `sendCommand` does when the master has been joined
and the client sends one more command, `STEP_BACK` (not implemented in the code),
the minimum round time and the statistics, the signals SIGINT and SIGSEGV but for
their logging. `Info` and the utilities: nothing
depends on them. The traits are compile-time constants, here constants or
initial values. The Android front end is a second client of the same facade. The
build files, templates and scripts are not part of the running program.

Abstracted on purpose: the characters of options (`convertStringTo`, the parsing
of connector options), the text and colours of log lines and what the buffers of
`streams.h` do with it, the objects sent.

Planned, in this order:

1. A refinement of lines 99 and 119 into one step per pool, against
   `pools.erase` on the pools' threads.
2. `System` beyond the end of the master's loop: `quit()` with connectors in use.
3. `Inline` beyond the round of a shutdown, with what is left to promise there:
   users who send nothing but QUIT after it.
