# Verification of the sylar server library

TLA+ models of the C++ library under `sylar/` (logging, configuration, threads
and locks, fibers, a scheduler that is begun), the TLC configurations that check
them, and TLAPS proofs about them. Source references are to the files under
`sylar/`.

## The system

| Part | Files | What it does | State that can go wrong | Here |
| --- | --- | --- | --- | --- |
| Fiber | `fiber.h`, `fiber.cc` | coroutines on `ucontext`, one main fiber per thread | `t_fiber`, `t_threadFiber`, `m_state`, `m_ctx`, reference counts, `s_fiber_count` | `Fiber`, `Coroutine`, `FiberProofs` |
| ConfigVar | `config.h` | a value behind a read-write lock, with listeners | `m_val`, `m_cbs`, `m_mutex`, the static `s_fun_id` | `ConfigVar`, `ConfigVarProofs` |
| Config registry | `config.h`, `config.cc` | name to variable; `Lookup`, `LoadFromYaml`, `Visit` | `s_datas` and its lock | `Config` (on top of `ConfigVar`), `ConfigProofs` |
| LexicalCast | `config.h` | text to containers and back | none (pure) | `LexicalCast`, `ConfigVarProofs` (second part) |
| LogFormatter | `log.cc` | parses a pattern into items | the parser's three states and its pending text | `LogFormatter`, `LogFormatterProofs` |
| LogDefine conversions | `log.cc` | definitions of loggers to and from YAML | none (pure) | `LogDefine` (on top of `LexicalCast`), `LoggerProofs` (first part) |
| Logger, LogAppender, LoggerManager, LogIniter | `log.h`, `log.cc` | level filter, appenders or the root logger, formatter inheritance; the listener on `logs` that rebuilds the loggers | `m_level`, `m_appenders`, `m_formatter`, `m_loggers` | `Logger` (on top of `LogDefine` and `Locks`), `LoggerProofs` |
| FileLogAppender | `log.cc` | reopens its file once a second | the stream, `m_lastTime` | `FileLogAppender`, `FileLogAppenderProofs` |
| Locks | `thread.h` | mutex, spin lock, CAS lock, read-write lock, guards | who holds what | `Locks`, `SharedLock`, `LocksProofs` |
| Thread, Semaphore | `thread.h`, `thread.cc` | start handshake, join, detach | `t_thread`, the semaphore, the handle | `Thread`, `SchedulerProofs` |
| Scheduler | `scheduler.h`, `scheduler.cc` | queue of fibers and callbacks; `start`, `stop`, `tickle` are empty | `m_fibers` | `Scheduler` (on top of `Thread`), `SchedulerProofs` |
| Util, macros, singleton, LogEvent, format items | `util.cc`, `macro.h`, `singleton.h`, `log.cc` | ids, backtraces, assertions, formatting | none | left out |

How they interact: every log line carries `Fiber::GetFiberId()`; `Fiber` reads
its stack size from a `ConfigVar`; the loggers are configured by a listener on a
`ConfigVar`; a formatter that the parser rejects is not installed; the callbacks of
threads schedule tasks. `Config` composes the registry with `ConfigVar`, `Logger`
the loggers with the conversion of definitions and the locks, `Scheduler` the
threads, the locks and the queue.

## Fiber

`Fiber.tla` keeps what the program believes (`t_fiber`, `t_threadFiber`,
`m_state`, `m_cb`, who holds a pointer) apart from what the machine does: the
stack each thread executes on (`running`) and the object in which the
continuation of a suspended stack was stored last (`parked`). `Jump` is
`setcontext` and the return through `uc_link`; `SwapContext` is `swapcontext`.
A jump to a context that is not the latest one of its stack, or whose `MainFunc`
has ended, is undefined in C; the model sends the thread to `pc = "wild"`, where
it stays.

| Action | Code |
| --- | --- |
| `GetThis`, `KeepThis` | `Fiber()` through `GetThis`; a callback that keeps the pointer |
| `NewFiber`, `Reset`, `DropHandle`, `ThreadExit` | `Fiber(cb)`, `reset`, `~Fiber` of a child and of the main fiber |
| `SwapIn`, `SwapInSwitch` | `swapIn` before and at the switch |
| `Yield`, `SwapOut` | `YieldToReady`/`YieldToHold` and `swapOut`: `m_state` is written first, visible to other threads, then the context is saved |
| `MainFunc` | the callback returns or throws |
| `MainFuncReturn`, `MainFuncSwapOut` | its end with and without `SYLAR_FIBER_RETURN_USE_UCLINK` (`UseUcLink`) |
| `MainFuncLastRef` | its end when `cur` is the last reference |

The API trusts its clients. The constant `Liberties` says what they do beyond
disciplined use: `nested`, `migrate`, `race`, `rerun`, `yieldMain`,
`dropInside` (explained in the module). `Liberties = {}` is the use that
`tests/test_fiber.cc` makes of the class.

`Coroutine.tla` is the abstract specification: a coroutine is unborn, fresh,
running, suspended, done or gone; a thread executes itself or one coroutine. The
mapping reads the status off the stacks (`Status`), and `IsCoroutine` says that
`Fiber` implements it.

| Run | Build, liberties | Result |
| --- | --- | --- |
| `fiber_uclink` | uc_link, none | all hold: `ThisIsRunning`, `NoWildJump`, `WayBack`, `LiveStackKept`, `NoAssertFails`, `StateTellsContext`, `IsCoroutine` |
| `fiber_liberal` | swapOut; `migrate`, `rerun`, `yieldMain`, `dropInside` | `OwnMainStack` holds: this build lets any thread continue a suspended fiber and gives the thread back to itself; `CountIsAlive` holds even so |

`MCFiber_migrate.cfg` (swapOut, `migrate` alone) passes with `ThisIsRunning`,
`NoWildJump`, `OwnMainStack` and `IsCoroutine`; all of these are proved for that use.

Three more configurations of `MCFiber` show what disciplined use is needed for.
They end in a counterexample each:

| Configuration | Build, liberties | What fails |
| --- | --- | --- |
| `MCFiber_nested.cfg` | uc_link, `nested` | `ThisIsRunning`: `swapOut` sets `t_fiber` to the main fiber while the outer fiber executes, though `fiber.h:50` says that `GetThis` returns the fiber of the current point of execution |
| `MCFiber_uclink_migrate.cfg` | uc_link, `migrate` | `OwnMainStack`: `uc_link` is fixed at construction (`fiber.cc:74`), so the fiber returns into its builder's stack |
| `MCFiber_race.cfg` | uc_link, `migrate` and `race` | `StackExclusive`: `m_state` is READY before the context is saved (`fiber.cc:166`) |

Two more liberties are only in `fiber_liberal`, because no line of the repository
speaks against them: with `yieldMain` the assertion at `fiber.cc:95` fails when
the thread ends, and with `dropInside` the fiber's stack is freed by `cur` while
`MainFunc` executes on it (`NoAssertFails` and `LiveStackKept` fail when they are
added to that configuration).

Bounds: two threads and two fibers, each built once. Every property speaks of at
most two threads and two stacks, and a fiber can be reset and used again without
bound. Ids are not bounded: there are as many as fibers. Threads may end, so
deadlock is not checked. Symmetry is used where no refinement is checked.

Proved for any finite sets of threads and fibers, under `Disciplined` (no
liberties; or `migrate` alone in the swapOut build): `TypeCorrect`,
`CountExact`, `ThisCorrect`, `SwitchesSafe` (`NoWildJump` and `StackExclusive`),
`WayBackKept`, `MainStackOwn`, `AssertsHold`, `DestructionSafe`, `StateTruthful`
and `Refinement`, all in `FiberProofs`, with one lemma per call. The inductive invariant is `Inv`: `ThreadInv` says, for each point of the code a
thread may be at, which stack it is on, what `t_fiber` is and that the main
context is parked where `swapOut` looks for it; `FiberInv` ties `m_state` of a
fiber nobody executes to what its `m_ctx` holds and its life to the references.
The stated properties alone are not inductive: `NoWildJump`, for one, needs to
know that a HOLD fiber's context is the one saved last, which is a fact about
the other threads' past switches.

## ConfigVar

One action per lock-protected section: `SetValue` (read lock and comparison),
`Notify`/`NotifyThrows` (one callback), `Notified` (unlock), `Assign` (write
lock); `addListener` in four steps because `++s_fun_id` is neither atomic nor
guarded by a lock that the variables share; `DelListener`, `ClearListener`. The
history variables `heard` and `reg` record what each callback was told and which
key its owner got. A callback is a step that does nothing to the variable;
callbacks that call back into it are not modelled.

| Run | Instance | Result |
| --- | --- | --- |
| `config_single` | 1 variable, 1 setter, 2 threads, 2 callbacks, 3 calls each, fair | `ListenersInSync`, `KeyFindsListener`, `LoopUndisturbed`, `ToldBefore`, `CallsReturn` hold |
| `config_shared_counter` | 2 variables, nobody sets | `KeyFindsListener` fails |

`MCConfigVar_two_setters.cfg` (1 variable, 2 setters) ends in a counterexample to
`ListenersInSync`: the setters notify in one order and assign in the other, because
the lock is let go at `config.h:320`. With a callback that throws,
`MCConfigVar_throwing.cfg` passes with `LoopUndisturbed` and `CallsReturn`; the run
`config_registry` below has one too.

`MaxCalls` bounds the calls of a thread; it stops the system, so deadlock is not
checked. Fairness is weak fairness of the steps inside a call, for each thread:
the operating system runs a runnable thread, and a lock that stays free is
granted. Nothing is assumed about who starts a call.

Proved in `ConfigVarProofs`: `TypeCorrect` and `LoopSafe` for all constants
(from `LockInv`: who holds which lock where, which needs of the types only `Shape`,
nothing about the values); `KeysUnique`, `ListenersStayInSync`
and the action property `ToldBefore` (`ToldBeforeAssigned`) under `Sole` (one
variable of the type, one setter, no callback that throws), from `KeyInv` (the keys are below the
counter and each is known to its owner or to the thread that is returning it)
and `SyncInv` (what each callback has heard at each point of the setter). The
two counterexamples show that one setter and one variable are needed.
`CallsReturn` is liveness and stays with TLC.

## LogFormatter

One action per branch of the loop in `LogFormatter::init`, and `Finish` for the
end check and the table. TLC starts from every pattern of up to `MaxLen = 6`
characters over `%`, `{`, `}`, a letter that is a name, one that is not, and one
other character: long enough for text, an item with a format and text again.
`formatter_parse` checks that nothing is lost (`NothingLost`), that the error
flag agrees with a reference grammar (`ErrorExact`) and with the items
(`ErrorShown`). `formatter_documented` shows that a pattern that ends with
`%x{...}`, one of the documented forms, is taken for an error. `ErrorExact` says
that this and the empty pattern are the only differences from the grammar.

Proved in `LogFormatterProofs` for patterns of any length, any characters and any
table of names: `PatternKept` (`NothingLost`) and `ErrorsShown` (`ErrorShown`).
`ParseInv` adds to `NothingLost` the shape of the parser's locals in each state:
which text is pending, and that an empty format has only just been opened. `MarkInv`
says that `m_error` is set exactly if `vec` holds the mark of an error. What is
needed of sequences (`FlattenSeq` of an appended sequence) is proved from a least
counterexample. `LogFormatterAssumption` keeps the two error texts, which are single
elements in the model, apart from the characters. So `ErrorShown` tells an error
from plain text by what put it there; a pattern that spells out an error text is
not told apart by a reader of the line. `ErrorExact` stays with TLC: it compares with a
grammar, whose sentences are defined by recursion, and needs an induction over them.

## Config registry and LexicalCast

`LexicalCast.tla` has the conversions as operators between YAML trees and values;
yaml-cpp, which turns text into a tree, is external. A conversion from a tree gives
the set of its results, empty when the code throws. `Config.tla` extends `ConfigVar`
with the registry. A name is the sequence of its words, and a word is valid or not.
`ListAllMember` lists a document level by level: each level puts the members of a map
behind the map, which gives the order of the code's depth-first recursion.

| Action | Code |
| --- | --- |
| `Lookup` | `Lookup(name)` under the read lock and the decision of `Lookup(name, default)` |
| `LookupReport` | the report of a wrong type, which prints the variable under both locks |
| `LookupInsert` | the write lock and `GetDatas()[name] = v` |
| `Load`, `LoadNode`, `Loaded` | `ListAllMember`, one turn of `LoadFromYaml`'s loop (whose `setValue` then runs as steps of `ConfigVar`), the return |
| `Visit`, `VisitNode`, `Visited` | `Visit` with a callback that prints, as in `tests/test_config.cc:297` |
| `Listen` | `addListener` on a registered variable |

Run `config_registry`: two threads, six variables that may be constructed (of the
types set, int, vector and map), five calls of `Lookup`, two documents with a value
that cannot be converted, a repeated key and an invalid key, and a listener that may
throw. One thread loads, because the order of two setters is a matter of `ConfigVar`.
`MaxDepth` bounds the depth of a document, and both are no deeper than it.

- `RegisteredStays`: a name that one thread registers with one type keeps its
  variable. The look and the insertion are two critical sections, so with two
  registrars a variable is replaced; that happens in the run and is not excluded.
- `VisitUndisturbed`: nothing is inserted during `Visit`'s loop.
- `LoadReachesAll`: a load sets every variable that was registered all the time and has
  no listener that throws, whatever the other nodes did.
- `PrintedIsRead`: what `toString` prints, `fromString` reads back.
- `ConfigReturns`: every call of `Config` returns, under weak fairness of the steps
  inside a call, as for `ConfigVar`.

Proved for any threads, names, variables and documents, all in `ConfigProofs`:

- `EntriesStay` (`RegisteredStays`) and `VisitsUndisturbed` (`VisitUndisturbed`), from
  `Registered`: who holds the registry's lock where, and that a variable under way into
  the registry is constructed, in no entry and in no other thread's hands, and that
  an entry has the type of a call that asked for its name. Without the last a second
  call of the only registrar could find another type, and replace the entry.
- `PrintedAndRead` (`PrintedIsRead`), from `Valued`, which adds that variables, and
  setters on their way, have values of the variable's type. It rests on `RoundTrip` at the
  end of `ConfigVarProofs`: a value of any of the four types, of any size, printed and
  read again is that value.
- `LoadsReachAll` (`LoadReachesAll`) under `OneSetter` (one thread loads), from `Loads`:
  which node a setter under way belongs to, that a node behind the loader's place has
  been given to its variable unless a later node had the same name, and which listeners
  a variable has. With two loading threads the property fails, since each sets what the
  other has set.
- `ConfigImplements`: `ConfigSpec` implements `ConfigVar`'s `Spec`, where the values of
  the defaults and documents are among `Values` (`Covered`). So what is proved of
  `ConfigVar` alone holds of it inside `Config`; `LoadsNotifySafely` (`LoopUndisturbed`)
  is drawn from that.

`ConfigAssumption` says what yaml-cpp and the C++ types give: the defaults have the types
of their variables, and lists in a tree are lists. TLC evaluates it on the documents of the
run. `ConfigReturns` is liveness and stays with TLC.

## LogDefine and Logger

`LogDefine.tla` reads a definition field by field with the early returns of
`_read_name` to `_read_an_appender`: a definition that fails keeps what was read. The
set of definitions compares names alone, so of two with one name the first stays.

`Logger.tla` has the loggers by name, one call in progress per thread (`call`) and the
listener's call (`change`).

| Action | Code |
| --- | --- |
| `Log` | `SYLAR_LOG_LEVEL`: `getLogger`, the level, the event |
| `Check`, `Enter`, `Deliver`, `Leave` | `Logger::log`: the level without the lock, the lock and the route, one appender, the unlock; root's `log()` runs inside a logger's |
| `SetUp` | a client calls `addAppender`, `delAppender`, `setFormatter` or `clearAppenders` |
| `Change` | `fromString` of `logs` and the start of the listener |
| `Take`, `ApplyLevel`, `ApplyFormatter`, `ApplyClear`, `ApplyAppender`, `Applied`, `Assign` | the listener's loops, one member call per step, and the assignment |
| `PrintAll`, `PrintLogger`, `Printed` | `LoggerManager::toYamlString` |

`clearAppenders` takes no lock. If another thread holds the logger's lock at that
moment, inside `log()` or printing, and the list is not empty, the C++ program has a
data race, nothing is known of what follows, and the model stops (`raced`). The
members that are one step here (`addAppender`, `delAppender`, `setFormatter`) are not
met half way. Levels are plain words that are read and written without a lock.

Run `log_reconfigure`: two threads, the loggers `root`, one that is configured and one
that a client sets up, and three documents: a full definition with an appender that
cannot be read, a partial one together with `root` and a bad formatter, and none.

- `ConfigApplied`: when no change is under way the loggers are what `logs` says.
- `OneRoute`: an event goes to the appenders of one logger, each once, in order.
- `AppendersFormatted`: no listed appender lacks a formatter.
- `LogsReloads`: what `print_log_config_var` prints can be loaded again. The exception
  stated in it, an appender to a file with an empty name, is real.
- `LogCallsReturn`: manager before logger before root is an order without a cycle.

Proved for any threads, names, documents and events, all in `LoggerProofs`:
`AppendersHaveFormatter` (`AppendersFormatted`), `EventsRouted` (`OneRoute`) and
`LoggerLocksExclude`, from `LoggerInv`: the types, the agreement of locks and guards,
and `RouteInv`, which says for each point of `log()` which locks the thread holds and
what it has sent. `OneRoute` is not inductive alone: that the list does not change
under the loop follows from the lock. `ConfigurationApplied`
(`ConfigApplied`) follows from `ChangeInv`, which says of every definition that it is applied,
waits to be, or is being applied as far as `Progress` says. As in the properties,
nothing is claimed once `raced` holds. `LogsReloaded` (`LogsReloads`) follows from
`LogsInv`, which says that the definitions in `logs`, and those a change is about to
assign, are finitely many, have different names and are as the conversion makes them;
the lemmas at the head of the module then take a definition to a tree and back, field by
field and appender by appender.

The assumptions: the mutexes of `log.h` are not Null classes and root is not set up by
a client (`LoggerAssumption`); the literals that stand for texts are strings, which
the provers cannot see (`TextsAssumption`); and the documents' lists are lists and define no
logger that a client sets up (`DocsAssumption`). The last is a restriction on use, not something the
code enforces: a client that changes a configured logger makes it differ from `logs`.
`LogCallsReturn` is liveness and stays with TLC.

Run `log_deleted` finds `DeletedIsSilent` violated: an event that passed the check at
`log.cc:365` before its logger was deleted finds no appenders and goes to root's.

## FileLogAppender

The appender's stream has a file and a state; `Open` and `Close` are `std::ofstream`'s.
Around it are the clock, a disk that may be full for a time, a name that may be
impossible to open for a time and a rotation. `log()` is `Log`, `Check`, `ReopenLock`,
`Reopen`, `Stamp`, `WriteLock`, `Write`; `Check` and `Stamp` touch `m_lastTime` under no
lock. The model counts whole seconds and lets the clock go forward only.

Run `file_appender` (two threads, two calls each, three seconds, two changes of the
surroundings, CASLock): `FollowsRotation`, `RecoversFromOpen` and
`LogReturns` hold. Two calls and three seconds let one thread stamp an old second
after another has stamped a newer one. Run `file_stuck` finds `RecoversAfterASecond`
violated: after a write that fails, `reopen()` skips `close()` (`log.cc:464`) and
`open()` fails on the open stream from then on.

Proved in `FileLogAppenderProofs` for any number of threads, seconds and faults:
`RotationFollowed` and `OpenRecovers`, from `StreamInv`. Its core is `After(s)`: as soon
as a second later than `s` is in `m_lastTime`, or in a thread that has passed the
reopening, the stream has been reopened since `s`. The properties alone are not
inductive, since a thread that finds `m_lastTime` up to date relies on the reopening of
another. `AppenderLocksMatch` carries `LockMatchesGuards` over from `LocksProofs`.

## Locks, Thread and Scheduler

`Locks.tla` is shared by the modules that use locks. A lock has readers and an owner;
a CASLock's owner is only `Taken`, since its flag does not know who set it; the Null
classes change nothing. `Construct`, `Lock`, `Unlock` and `Destruct` are the members
of the three guards. `SharedLock.tla` is the abstract lock, and `IsSharedLock` says
that guards over every class but the Null ones implement it.

`Thread.tla` has the owner's calls (`New`, `NewFails`, `Wait`, `WaitFails`, `Join`,
`JoinReturns`, `Destroy`) and the thread's (`Run`, `Notify`, `SetName`, `RunEnds`).
`late` records a use of the object after its life. `Scheduler.tla` adds the queue and a
callback that calls `schedule()` and uses guards on other locks. `schedule()` is one
step per lock, test, push, unlock and tickle, and two for the `swap` that takes a task
out of the caller's pointer (`ScheduleTake`, `ScheduleClear`), which reads the pointer
and then empties it. Any thread may give the address of any pointer, also of one that is
empty by then. `told` says whether `tickle()` was called with work in the queue.

Run `threads` (two threads; a Mutex for the scheduler, an RWMutex and a CASLock for the
callbacks; a task given by value and one in a pointer; two calls for one thread and one
for the other): `ReadyOnReturn`, `NotUsedLate`, `HandleReleasedOnce`, `LockMatchesGuards`,
`HandedOverOnce`, `WorkIsAnnounced`, `IsSharedLock`, `OwnerReturns` and `ScheduleReturns`
hold. `HandedOverOnce` depends on the lock: without it two threads that give the same
pointer both queue its task. `NotUsedLate` allows one way to a late use: a `sem_wait` that is interrupted
throws out of the constructor (`thread.cc:99`) while the new thread uses the object;
the same way leaks the handle. A thread that calls `SetName` is joined before its
object is destroyed (`Renaming`), because `SetName` writes through `t_thread`.

Fairness is weak, per thread, for the steps inside a call and for leaving the scopes of
guards: the operating system runs a runnable thread, and a callback comes to its end.
A writer that waits for readers is granted the lock because the bounds end the reading;
`pthread_rwlock` may let readers starve a writer, and nothing here says otherwise.

Proved in `LocksProofs` for all threads, locks and classes: `LocksMatch` (which is
inductive with the types), `GuardsExclude` and, from them, `GuardsImplement`. Proved in
`SchedulerProofs`: the composition uses locks only through guards (`UsesLocks`), so that
`SchedulerExcludes` and `SchedulerImplements` follow; `ThreadsReady`,
`ThreadsNotUsedLate` and `HandlesReleased` from `ThreadInv`, which ties the point of
`run()` to the semaphore and the object's life; `WorkAnnounced` from `WorkInv`, which
adds that a thread that will not tell the others has found work in the queue; and
`PointersHandedOver` (`HandedOverOnce`) from `HandInv`. That one says where a task is at
each point of the swap, and is kept because one thread at a time is inside
`scheduleNoLock()` (`OneInside`), which follows from `SchedulerExcludes` and from
`InsideInv`: a thread inside has the scheduler's lock. Liveness stays with TLC.

## What is only model-checked

Liveness everywhere, which the provers do not reach; `ErrorExact`, for the reason given
above; and what `ListAllMember` computes, which is a recursive function over a document:
the proofs about `Config` take its list as it is. All the constants of a run that bound
something are named `Max...`; since they stop the system, deadlock is not checked, and
the liveness properties say instead that no call is left waiting.

## What is not modelled

- What the format items write, `LogEvent`, and the colours of levels: formatting of one
  event, without state that two steps share.
- `Backtrace`, `GetThreadId`, `Singleton`, the macros: no state, or glibc's.
- `Scheduler::schedule(begin, end)`: it calls `scheduleNoLock` with one argument too few
  and cannot be instantiated. `start`, `stop`, `GetThis` and `tickle` have empty bodies.
- A listener that calls back into its own variable (it would wait for its own lock), and
  two threads that set `logs` at once.
- `getValue` returns a reference that is read without the lock; values are atomic here.
- `setLevel` and `setFormatter` on an appender that is already listed.
- The messages that `Config` and `ConfigVar` log about errors: a call of `Logger` each.
- A failure of `pthread_join` (`thread.cc:41`): with one owner, and no second `join()` of
  a thread, it does not happen.
- What listeners throw is taken to be a `std::exception`, which `fromString` catches.
- Some neighbouring statements of one thread are one step: `SetName`'s two assignments, of
  which no other thread sees the second; `cur.reset()` and `swapOut` at the end of
  `MainFunc`; and, in `LoadFromYaml`, the lookup of a name and `setValue`'s first look at
  the variable. A name that is registered again between the last two leaves the call with
  the old variable, as it does when that happens a step later.
- The memory of stacks, failures of `malloc`, `getcontext` and `sem_post`, wrap-around of
  64-bit ids, and the order of static initialisation.
