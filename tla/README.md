# A formal model of the shadPS4 Elisa port

This directory is the verification project kept beside the Elisa port of the
shadPS4 emulator: TLA+ modules translated from the source, TLC
configurations that model-check them, and theorems checked by TLAPS.  Paths
below are relative to `src/` of the repository.

## 1. The system

The program runs PlayStation 4 code on a host machine.  Guest machine code is
executed natively (`core/guest_exec.elisa`); every call the guest makes into a
PS4 system library is routed by `core/linker.elisa` to an emulated function
under `core/libraries/`, which works on process-global tables and on host
primitives.  Guest threads are host pthreads (`kt_runtime.elisa`), and no lock
is held around an emulated call: two guest threads run library code at the same
time.  That is where most of what is hard in this program comes from.

| Part | Source | State it keeps | Operations |
|---|---|---|---|
| Native semaphores | `core/libraries/kernel/threads/kt_runtime.elisa` | `KtSem`: host mutex, condvar, value, waiters, canceled, deleted, destroy_requested | wait, timedwait, trywait, post, set, cancel, delete, destroy |
| Native mutexes and condvars | same file | `KtMutex`: host mutex plus owner/locked/recursion shadow; `KtCond` | lock, trylock, unlock, isowned, cond wait/timedwait/signal/broadcast |
| Native event flags | same file | `KtEvent`: bits, waiters, canceled, deleted | wait, poll, set, clear, cancel, delete |
| Native threads | same file | `KtThread`: finished, detached, joined, refcount-free ownership | create, finish, join, timedjoin, detach, cancel |
| Orbis semaphores and event flags | `threads_sema_spec.elisa`, `threads_event_exception_clean.elisa` | 64-entry tables that mirror the native count and bits | Create/Wait/Poll/Signal/Cancel/Delete |
| Guest mutexes, condvars, rwlocks | `threads_sync.elisa` | guest-memory slots that hold 0/1/2 or a native handle | lazy init, lock, unlock, wait |
| Threads facade | `threads.elisa` | fake-thread table (256), attribute pool, `pthread_once` control | create, exit, join, detach, cancel, once |
| Event queues | `core/libraries/kernel/equeue.elisa` | 64 queues, 2048 event slots | create, add, trigger, wait, delete |
| Direct and virtual memory | `core/memory.elisa`, `core/address_space.elisa` | dmem area list, vma map, mapped ranges, backing table | Allocate, Free, Map, Unmap, Protect |
| Asynchronous file I/O | `core/libraries/kernel/aio.elisa` | request states `[512]`, wrapping id | submit, poll, wait, cancel, delete |
| AvPlayer | `core/libraries/avplayer/*` | per-player state machine and 16-entry event queue | add source, start, stop, jump, pause, events |
| GPU command path | `video_core/*` (`vk_scheduler`, `vk_master_semaphore`, `vk_resource_pool`, `buffer_cache`, `page_manager`) | ticks, pending operations, command-buffer pool, dirty ranges | submit, wait, pop, commit |
| Linker, module loader | `core/linker.elisa`, `core/module.elisa` | modules, relocations, TLS generation | load, relocate, resolve |
| Services | save data, user/system service, audio/video out, np, pad, ... | per-library tables | one handler per library call |
| Real-execution lane | `emulator_cusa07399_x64_exec.py` | artifact file of a boot, the test process it started, mode and attempt | lint, run target, kill and retry, judge artifacts, emit a row |
| Parity gate | `emulator_cpp_parity_gate.py` | results of its steps, report and copy, fallback queue, milestones | select and run steps, summarise, rule, write, exit code |
| Port provenance and review | `tools/port_provenance.py`, `tools/port_review.py` | `# @port` anchors with hashes in the Elisa files | autoanchor, update, check, review |
| Boot comparisons | `tools/boot_oracle_diff.py`, `difftest/boot_difftest.py` | two traces of one boot | parse, key, compare |
| Validation suite, ledgers, matrices | `check_elisa_port.py`, `parity_ledger_check.py`, `parity_workqueue.py`, `*_parity_matrix*.py` | matrix JSON files, lowered files | generate, gate, lower and put back, exit code |

Guest threads interact through the shared tables and through the native
objects; a library call is a sequence of reads and writes of globals with calls
of kt_ functions in between.  The kt_ functions take a host mutex around their
state; the layers above them mostly do not.

The Python programs around the emulator decide whether the port is what it
claims to be.  They interact through processes and files: the gate starts the
lane and boot tests as children with a timeout, the lane starts its target in a
session of its own, the targets write the artifact file, lane and gate read it,
and the files outlive every run.  Generators of the suite write matrices that
the gates behind them read, developers edit both source trees in between.

What makes the parts hard, and what makes each correct:

- **Native objects** (`kt_*`).  Waits that ask for different things share one
  condition variable; timeouts, cancels and deletes race grants; the one who
  destroys the host mutex is decided under the mutex and acts after its unlock;
  a mutex's owner is tested without any lock.  Correct means: counts are exact,
  no wake-up is lost, objects are destroyed once and under nobody, tokens and
  bits are neither made nor lost, the owner test is never wrong.
- **Wrappers** (`sceKernel*`).  Each keeps unlocked copies of what the native
  object knows and answers from them.  Correct means: the copy agrees where the
  answer depends on it, nothing is handed out twice, a wait is not missed.
- **Tables** (threads, event queues, memory areas, AIO requests).  Slots are
  searched without a lock and filled later; operations have several steps that
  can fail one by one.  Correct means: one owner per slot, no half-made entry.
- **State machines** (AvPlayer, GPU scheduler).  Bounded queues that drop, ticks
  that are cached.  Correct means: legal transitions, nothing reused too early.
- **Verdicts** (gate, lane, suite).  Steps fail one by one, hang, are killed
  with or without what they started; files of an earlier run look like those of
  this one.  Correct means: green says that everything selected was looked at
  now and was in order, every run ends, nothing is left running unexplained.
- **Comparisons** (anchors, boot traces).  Line numbers and event counts shift
  under what has been found by them.  The C++ is matched, not parsed; artifacts leave
  out what the reader does not know of.  Correct means: an anchor stays with its
  function and, where the C++ is written as expected, sees each change of it and
  no other; the divergence named is the first that the artifacts tell.

## 2. Structure

Ordered by what everything else stands on.  The native layer comes first: every
blocking call of a guest ends in it, and wrappers are composed with its modules
instead of being modelled over a guess.  The tools are second: they have
processes, timeouts and files, and their answer is what the port is trusted for.

| # | Module | Builds on | State |
|---|---|---|---|
| 1 | `KtSem`, abstract `Semaphore` | implements `Semaphore` | checked, proved |
| 2 | `KtEvent`, abstract `EventBits` | implements `EventBits` | checked, proved |
| 3 | `KtMutex` (with the condition variable), abstract `ReentrantLock` | implements `ReentrantLock` | checked, proved |
| 4 | `KtThread` | | checked, safety proved |
| 5 | `PthreadOnce` | | checked, proved |
| 6 | `EventFlag` | composed with `KtEvent` | checked, safety proved |
| 7 | `CusaArtifacts`: rows of a boot, read as lane and gate read them | | operators of 8 and 9 |
| 8 | `X64Lane`: the lane and its test processes | `CusaArtifacts` | checked |
| 9 | `ParityGate`: the gate | composed with `X64Lane`; `PortLedger` | checked, safety proved |
| 10 | `PortLedger`, `ParityMatrices`: classification of the port | | operators of 9 and 13 |
| 11 | `PortAnchors` | | checked, proved |
| 12 | `BootTrace`: the artifacts' rows and the two comparisons | | checked, proved |
| 13 | `PortSuite` | `PortLedger`, `ParityMatrices` | checked, proved |

The proofs are in `KtSem_proofs`, `KtEvent_proofs`, `KtMutex_proofs`,
`KtThread_proofs`, `EventFlag_proofs`, `ParityGate_proofs`, `PortTools_proofs`
(modules 11 to 13), and, for the one short proof, in `PthreadOnce`.  The `MC...`
modules only give the constants values; `MCGuestThreads` lets modules 4 and 5
interleave, which share nothing, and `MCPortTools` runs one of 11 to 13 at a time.

## 3. Modules and code

A critical section of the code (from `kt_raw_mutex_lock` to
`kt_raw_mutex_unlock`, or to the `kt_raw_cond_wait` that releases the mutex) is
one action, because every access to those fields takes the same mutex; what the
code does after the unlock, or with no lock at all, has steps of its own.
Handles, out-parameters, error codes that change nothing and the conversion of
deadlines are abstracted.  `PROJECT.json` maps each definition to its lines.

**`KtSem`** (`kt_runtime.elisa`, struct `KtSem`).  `value`, `waiters`,
`canceled`, `deleted`, `destroy_requested` are the fields; `pc`, `need` and
`timed` the frames of the waiting threads; `destroyed` counts destructions of
the natives; `granted` records whose last wait or trywait returned 0.  `LoopHead` is the test of
`while state.value < need_count` with its four exits in the order of the code
(tokens, deleted, canceled, sleep); `Wait` enters it, `Rewait` re-enters it
after a wake-up.  `Expire` is the host's ETIMEDOUT, `LeaveExpired` what the
thread does with it once it has the mutex again.  `Post`, `Set`, `Cancel`,
`Delete` broadcast.  `Finalize` is the destruction after the unlock, by the
thread that computed `finalize_now` or `should_finalize`.

**`Semaphore`** is what a counting semaphore promises, without lock or wake-up:
requests are met whole, nobody parks in front of enough tokens, a parked caller
in front of enough tokens is met in the end unless it leaves.  `served` is the
outcome callers saw; without it an implementation could drop tokens and call it
an abandoned request.

**`KtEvent`, `EventBits`**: the same for event flags, with requests
`[pattern, all, clear]` (the wait mode's AND/OR and clear bits).  `kt_event_wait`
tests cancel before delete before a match, and its first leaver resets
`canceled`.

**`KtMutex`**.  The shadow fields `owner`, `locked`, `recursion` are read at the
head of every call without the host mutex, so `ReadLocked` and `ReadOwner...`
are two steps, and `SetOwner`, `SetLocked`, `Clear` and `Release` are steps of
their own.  Stores of one thread are seen in program order: the program targets
x86-64 (`x86_64-apple-darwin`), whose memory model keeps stores in order and
loads in order.  The stores the code makes next to each other to `locked` and
`recursion` are one step, for `recursion` is only touched by the thread that
passed the owner test.  `depth` is what the guest was told.  `ReentrantLock`
is the lock the callers believe in: `depth` goes up from nothing only when no
thread has the lock, up again only on a recursive one, and down one level at a
time, each in one step.

**`KtThread`**: one record, the worker (`phase`) and the callers (`pc`).
`mustFree` and `seen` are the copies `kt_thread_finish` and `kt_thread_detach`
take under the lock and act on after it.  `LoadThread` is the detacher's read of
`state.thread` after its unlock (line 1397): from a record that the worker has
freed meanwhile it gets the id or whatever the memory holds (`target`), and
`NativeDetach` is `pthread_detach` of that.  The finish runs in a
thread-specific-data destructor, so also after a cancellation.

**`PthreadOnce`** (`threads.elisa`, `posix_pthread_once`): test, write
InProgress, routine, write Done.

**`EventFlag`** (`threads_event_exception_clean.elisa`): one slot of
`g_event_flags` composed with `KtEvent` (`Native == INSTANCE KtEvent`, same
variables).  `mirror` is `g_event_flags[ef].bits`, `inWait` is
`g_event_waiters[ef]`; each load and each store of them is a step, each
`elisa_kernel_event_*` call is the native action.  `frame` holds the locals,
`step` the place in the call.

**`CusaArtifacts`**.  A row of the artifact file is a function from the keys it
has to integers.  `ArtifactErrors` is `validate_artifacts` of the lane, one name
per objection; `Metrics` is `parse_cusa_metrics` of the gate, where each key has
its own rule of how rows are joined (largest, last, last but zero, ever seen);
`Stages` is what the report says of the boot.  The two readings differ on
purpose: the lane lets the last row win, the gate collects.

**`X64Lane`**.  `lane.pc` follows `main`: lint, first target, second target
under Rosetta, judging of the artifacts after a failed target, the final reading
that is emitted.  `target[<<run, attempt>>]` is a test process: building, then
the artifacts of loading, then the outcome, which is not written after a fatal library call; it dies or
hangs anywhere.
`TargetTimesOut` kills the whole session of the target, as `run` does.  The test
writes `/tmp/cusa07399_artifacts.txt` and the tools read the file of that name
in the repository; the module takes them for one (a link), the only arrangement
in which the lane can see what it asked for.

**`ParityGate`**.  `gate.pc` is `step` (between steps), `running`, and after the
loop `fallbacks` (the second reading of the artifact file), `write`, `copy`
(`--write-report`), `queue`, `finish`.  The steps are those the verdict tells
apart: `checks` (scripts without a timeout), `lane`, `boot`, `suite`.
`LaneTimesOut` and `SmokeTimesOut` kill the child alone, for that is what
`subprocess.run` does; `Interrupted` takes the process group, and with it the
lane, but not the target in its own session; a report or a `Milestones.md` being
written may be left cut short.  `Rules` is `validate_rules`,
`DidImprove` is `did_gate_improve`.  `base` (the report on disk when the gate
started) and `cut` (runs in which a child was killed) are history.

**`PortLedger`, `ParityMatrices`**: classification of C++ units, the ledger
check, and of each of five matrices the behaviour classes, the status of a
function and the gate over the table.  What a regular expression finds in a body
is a set of marks.

**`PortAnchors`**.  The ported file is a sequence of lines (def, decorator,
anchor, other), a C++ file the sequence of places where a symbol stands before a
parenthesis.  Of a place there is what it is (`defines`) and what the tool takes
it for: `brace` says whether a `{` follows sooner than a `;` and whether the
braces behind it, counted in strings and comments as well, close.  `Candidates` are
the tool's definitions, `Definitions` the real ones; what the tool extracts
(`Source`) and what the definition is (`Text`) differ in what stands above the
symbol's line and in what a stray brace cuts off or lets in.  `Plain` says that
none of this happens to a symbol in a file.
A run of `port_provenance.py` reads each file once: `Update` and
`Check` are one step each.  `Autoanchor` is the scan that settles what goes above
which line (`todo`), and each `Insert` puts in the one with the highest line
number, as the loop over `reversed(insertions)` does; between the two nothing else
happens to the file.  `AddDef`, `AddCpp`, `ChangeCpp`, `RemoveCpp`,
`RemoveFile` are the developers.

**`BootTrace`**.  A boot is a sequence of events; `OracleRows`, `ElisaRows` and
`Log` say what is printed of it, the parsers, keys, aliases and ignored fields
are those of the two tools.  `ElisaRows` is `RealGameBoot_EmitArtifacts`: modules
up to a cap and their imports (`Emitted`), probes of some imports before them,
a row without the field `resolved` behind them for every import that got a stub,
the last `Ring` calls, counted from the first one ever made; a file may be cut
before its last kinds.  A list that is filtered is a function on the
positions that are left of it (`KeptRows`, `Emitted`), so that the number a
record gets, which the tools keep in counters, is a count of positions
(`NumberOf`); the entry and the last call made up from facts stand behind all
rows.  Names are split into directory, stem and an extension a tool may strip.
The port's boot is the reference's with up to
`MaxParts` events changed, left out, repeated or swapped.  `Told` and
`ToldImport` say which event of the port the artifacts show as the counterpart of
one of the reference, `Same` when the two are told as the same behaviour.  That is
the tool's notion, which leaves out base, return and what a stubbed import
resolves to; section 6 says where the docs ask for more.

**`PortSuite`**.  `suite.todo` holds the steps left; a step that fails leaves
`ok` false and the next one runs.  `Generate` may fail and leave the file of an
earlier run, `Lower` writes over the checked-in file and `PutBack` restores it,
`Interrupt` kills the run anywhere and may cut short the file being written.

Guest contracts the modules assume, because the code does not check them:
no call starts on a semaphore or flag whose natives are being or have been
destroyed (`Alive`); a condition wait holds its mutex once; a mutex is destroyed
while no thread is in a call on it; nobody else joins or detaches a thread while
one is in a timedjoin of it, and a handle is not used after it was given up; an
event flag is deleted when its only users are its waiters.

## 4. Runs

| Run | Instance | States | Shows |
|---|---|---|---|
| `ktsem` | 3 threads, 2 tokens, requests of 1 and 2 | 6 045 | exact waiter count, no lost wake-up, natives destroyed once and under nobody; delete and cancel dismiss every waiter, timed waits return; implements `Semaphore` with its fairness |
| `ktevent` | 3 threads, 2 bits, 3 kinds of request | 18 580 | the same for event flags, and a cancel is taken; implements `EventBits` with its fairness |
| `ktmutex` | 3 threads, plain and recursive, depth 2 | 17 696 | the owner test is right, exclusion, nobody waits for itself or sleeps with the host mutex, what the guest is told and what is destroyed is what `ReentrantLock` allows |
| `threads` | worker and 4 callers, one of them the worker; beside them 3 threads at a `pthread_once`, one call each | 94 639 | record destroyed once and with one possible late use, host thread reaped once, detached records are freed, joiners of a cancelled thread return; no caller of `pthread_once` goes on before an initialisation is complete |
| `eventflag` | 2 threads, 1 bit, single-waiter mode; one thread modifies, the other's requests clear nothing | 69 608 | in this regime the copy agrees with the native flag between the modifier's calls and a set reaches a waiter; a delete empties the slot |
| `gate` | 2 gates, 2 command lines, with lane and targets | 435 598 | exit 0 is earned, milestones are compared with the right report, orphans come from kills only, every gate ends |
| `tools` | anchors (3 functions, 2 C++ files, 6 lines, 3 edits), comparisons and suite, one of them at a time | 1 203 082 | anchors stay with their functions; drift is seen, and nothing else taken for it, where the C++ is as the tool expects; the first divergence the artifacts tell is reported; a green suite is about this run and this port |
| `thread_detach` | as `threads` | fails | a detach of a joinable thread fails, unlike in the test at `kt_runtime_stage4_tests.elisa:97`: it reads the id from a record the worker has freed |
| `once_twice` | as `threads`, 3 calls each | fails | `init_routine` can run twice, unlike the comment at `threads.elisa:547` |
| `eventflag_lost` | the thread that does not modify clears what it waits for | fails | a waiter loses a set for good: its poll takes the bits, the old copy says there were none |
| `eventflag_once` | both threads clear the same bit | fails | one set is handed out twice, for a poll is answered from the copy |
| `lane_strict` | 2 strict runs of the lane | fails | a strict run answers ok on the artifacts of the run before it |

*Bounds.*  Three threads are one that sleeps, one that robs or outruns it, and
one that posts, cancels or deletes; the counted exits (first, middle, last
waiter) all occur.  Two tokens and requests of one and two make a request that
fits and one that does not under the same count; the value is bounded by
`max_value` itself.  Two bits tell AND from OR and a partial clear from a one.  `MaxDepth` = 2 gives a recursive mutex one inner level.  One call of each
of three threads has a first, one that comes in between and one that comes after;
a thread that has returned only finds Done.  `MaxDrift` = 1 stops new
waits once the raced waiter count is further than 1 off: the drift itself is
reached, its growth without bound is not interesting.  The event flag has two
threads because the regime of its property has two roles, the modifier and
everybody else, and one bit because its properties are about one request; the
proof of `MirrorAgrees` is for any number of both.

Two runs of the gate give a run whatever another has left: files, a report that
is better, worse, torn or none, and a target that is still alive.  The two
command lines have every switch that changes the verdict on in one and off in
the other; a boot reaches its first HLE call and a frame, or stops at an unresolved
import.  For the anchors, `MaxLines` = 6 holds two functions with a decorator or
an anchor, `MaxEdits` = 3 lets a function be ported, its C++ be changed, and a
second one of the name appear; `Cpp` has a place of each odd kind.  Of the two boot traces one has
module starts;
the variants of their events are divergences (another size, entry, symbol or
argument, an import resolved or a stub) or none (another base, directory, return,
page or stale register; a library without its extension);
`MaxParts` = 2 lets a second difference shift or hide the
first, `Ring` = 2 (2048 in the code) lets calls be forgotten, `MaxModules` = 2 (8)
lets a repeated module, with what is imported by it, fall behind the cap, and
`Probed` names one import that is probed besides its row.  The suite has a port in order and two
that are not, each in other places, and two runs so that one finds the matrices
of the other.

`CHECK_DEADLOCK FALSE` is given where a thread may legitimately sleep for ever,
the object is gone, or the last run of a tool is over; `ktmutex` checks deadlock.

*Fairness.*  `WF(Continue)`: a thread that can run gets the processor and the
host mutex; critical sections are a few instructions long and none blocks inside
one, so this excludes only that other threads win the race for the mutex for
ever.  `SF(Expire)`: the deadline is an absolute
time computed before the loop, so a thread that is woken in vain again and
again does expire.  No fairness is assumed of calls, spurious wake-ups, the
return of a guest's entry, or of the expiry of a timedjoin.  In `KtThread` a
pending cancellation is acted upon in the end.  `WF(GateStep)`: the gate goes on,
a step it waits for returns or the step's timeout does; the steps without a
timeout are scripts that read files.  Nothing is assumed of the lane, of its
targets (they may hang for good) or of interrupts.  The other tools have safety
properties only.

## 5. Proofs

Checked by TLAPS for all values of the constants under the named assumptions
(`SemAssumption`, ...: finite thread sets, counts that are naturals).

- **`KtSem_proofs`, `KtEvent_proofs`.**  The type invariant, `WaitersExact`,
  `NoLostWakeup` and `FinalizedOnce` are inductive together: the count decides
  who finalizes, finalizing needs that no thread waits, and the count is exact
  only because nobody enters after that.  `Refinement` (`Spec =>
  Abstract!Spec`) needs two more conjuncts: a thread outside a wait asks for
  nothing, and a waiting thread has not been served, so that leaving and being
  granted are told apart.
- **`KtMutex_proofs`.**  The safety properties rest on what the shadow says
  while it is true: `locked` implies that `owner` is the holder (`ShadowTrue`);
  a thread between its acquisition and its last write, or between its clear and
  its release, is the holder and nobody is recorded (`Handover`); a thread that
  was told it has the mutex is recorded (`Holding`).  From these a stranger
  that read `locked` before a release and `owner` after the next acquisition
  still finds somebody else's name.  `Refinement` (`Spec => ImplementsLock`,
  the whole property, which has no fairness) needs the depth as well
  (`Levels`): a thread that lets go of the host mutex has it exactly once,
  because a plain mutex is never counted twice, a recursive one is left level
  by level and a `cond_wait` is not called deeper than that (the contract).
- **`KtThread_proofs`.**  At most one caller ever gets past the test of joined
  and detached (`OneReaper`); the accounts of who still has to destroy and to
  reap (`Accounts`) then add up to at most one.  The record has one use that can
  come after its end, and `DestroyedOnce` says which: a detacher's read of the
  id, if the worker found `detached` set.  The run `thread_detach` shows that it
  does come too late.
- **`PthreadOnce`.**  Done is written only after a complete run of the routine.
- **`EventFlag_proofs`.**  `MirrorAgrees` for any number of threads, if one
  thread modifies and the requests of the others clear nothing.  The invariant
  (`OwnerState`) says that what the modifier is about to store is what the native
  flag holds, and that it waits natively only for bits that nobody else could
  set, so that its own clearing wait, which leaves the copy alone, takes nothing.
  The run `eventflag_once` shows that the regime is needed.  Without any regime,
  for all requests and modifiers, `UsesNative` (`Spec => NativeProofs!Spec`) shows
  that the composition is sound: a thread holds a request of `Request` from its
  look at the copy to its native wait, and is inside the native flag only where
  the wrapper has it so (`WInv`), so every step of a `sceKernel` call is a step of
  `KtEvent` or leaves its state alone.  The theorems of `KtEvent_proofs` then hold
  of the native flag inside the slot (`NativeStaysSound`): its waiter count is
  exact while the slot's own count drifts, nobody sleeps through its bits, and a
  delete destroys the natives once.  `KtEvent`'s assumption on its constants is
  not taken over but follows from `FlagAssumption` (`NativeAssumption`).
- **`ParityGate_proofs`**: `GateTypeOK`, `GreenIsEarned`, `MilestoneIffImproved`
  and `OrphansOnlyFromKills` for any number of runs, any artifacts and any
  command lines, from `IInv`.  A green exit says what was done because the
  results are exactly those of the first selected steps (`Order`) and because a
  row of the lane that says ok carries, in its type, artifacts that were in
  order (`TypeInv`); `Verdict` ties exit code and rules to both.  `Books` says
  which report is on disk at each point, so that the one the milestone is
  compared with is still that of the start.  For the processes, a target is
  waited for or its run was cut (`Accounted`); that a new lane finds none of its
  own alive needs that a lane starts once in a run (`OncePerRun`, `LaneInside`),
  and then the second attempt never runs beside the first (`Apart`).

- **`PortTools_proofs`**: `AnchorsStayPut`, `DriftSeen`, `SuiteGreenIsCurrent` and
  `FirstDivergence` for files, oracles, ports, boots and histories of any size.
  For the anchors (`AnchorIInv`), every anchor leads through decorators to the def
  of its symbol (`Placed`); an anchor still to be inserted has such a place too,
  not behind another anchor or among decorators, and no two share one (`Pending`).
  Inserting the highest first keeps this: what is below has lost nothing, what
  is above has not moved.  A stamp is what was hashed at the last update of its
  target (`StampsAreLast`); that needs no anchor to be
  stamped with a line of its own choosing, and a verdict to be withdrawn by
  every edit.  "OK" then means in sync where the C++ is `Plain`, now and when the
  anchor was stamped, and `DriftSeen` says no more: of the rest section 6 says
  why it cannot.
  For the suite (`SuiteIInv`), the steps still to do are the end of the selected
  list, and while none has failed everything before them passed (`Progress`).
  Each passed step then says what it saw (`MatricesSeen`, `PortSeen`).  A gate
  says something of the port only because its generator stands before it in the
  list (`Steps`, proved of what `Selected` builds) and has passed in this run: a
  gate alone may well have read the matrix of an earlier run.  `LoweredKept` says
  that at most the file being lowered differs from what it was.  That a matrix
  of `MATCHED` entries means `Ported` is proved class by class (`SystemPorted`,
  `ImguiPorted`, `PassPorted`, `GatePorted`).
  For the boot comparisons (`EarliestReported`), the invariant `BootIInv` only
  says that boots are logs of events and that what the last comparison said is
  said of the boots as they are; the work is in what is said.  Counting is
  one-to-one on the positions of a list (`Counted`), and so, there being as many
  numbers as positions, every number has its position (`NthIs`): this replaces
  an induction over the logs.  `ExpectedIs` and `ActualIs` then say which record
  stands for which event, under which key and with which fields, although calls
  are numbered after the unregistered ones are dropped on one side and from the
  first call ever made on the other; `FoundIs` that the dictionary holds,
  under the key of an event, the record of its counterpart or nothing;
  `AgreeModule` to `AgreeCall` that the fields compared agree just if the two
  events are the same behaviour.  Hence the records at fault are those of the
  events `Alone` (`BadIs`) and of the kinds in `Surplus` (`ExtraIs`).  Of an
  import several rows have the same key, the newest of which is compared
  (`ToldIs`, `ImportTold`).  All this is proved for any limit and any set of
  kinds, any cap, ring and probes, and files cut or whole: what is left out of
  the artifacts counts as not told, so that the theorem says what the tool says
  of them and not that the port is at fault.  `BootAssumption` says of the
  constants that boots and variants are made of events; an event has the fields
  the two emulators print, with any values.

Only model-checked: every liveness property (`GateEnds` among them) and the
fairness part of the refinements of `KtSem` and `KtEvent`, which are outside the
prover's reach; and the runs expected to fail.  Every invariant of a run that
passes is stated by a theorem.

## 6. Divergences found

Five runs of the table find a statement of the repository violated by what its
code does.  Those of the kernel come from one cause: guest threads are real host threads,
while parts of the code are written as if calls were serialised.  `lane_strict`
comes from a result file that no run removes.

Another one is part of a property that holds.  `FirstDivergence` says just when the
boot comparison reports nothing, in the tool's terms (`Same`, `Told`), and these
are not those of `docs/shadps4_boot_oracle.md`:

- "base/size/entry and resolved-or-not facts must match" (line 52): the base of
  a module is passed over (`boot_oracle_diff.py:234`), and an import for which the
  port has a stub agrees with any, also one the reference does not resolve, because
  the `fallback_import` row replaces the `resolve` row (line 113) and has no field
  `resolved`.
- returns "are visible as `hle.return` parity" (line 77): they are passed over
  (line 236), so no difference of them is ever reported.
- "`FIRST_DIVERGENCE` ... That is the fact to fix" (line 70): a module past the
  eighth is not in the artifacts (`emulator_real_game_boot_smoke.elisa:1780`) and is
  reported as missing though the port has loaded it.

These six are the entries under `findings` in `PROJECT.json`.  `DriftSeen`, too,
speaks of C++ that is `Plain` because it is wrong of any other, in both
directions:

- "Declarations (ending in `;`) and call sites are ignored"
  (`port_provenance.py:75`): the call in `if (f(x)) {` is taken for a second
  definition of `f` (lines 87-91), and its anchors are BROKEN.
- "any real C++ change flips the hash, so drift is never missed"
  (`docs/porting_provenance.md:94`): a return type or template head above the line
  of the symbol is not hashed (line 94), and a brace in a string ends the text
  early or late (56-69).

Met while modelling, and not part of a property:

- `threads_event_exception_clean.elisa:216` says that only one waiter is allowed
  on a single-waiter flag: the count is tested at 217 and raised at 222 under no
  lock, so two threads that call together both get in.  `EventFlag` has the steps.

- `kt_runtime.elisa:1059` says that a cancelled worker never sets `finished`;
  the thread-specific-data destructor that is there by now does (`CanceledIsReaped`).
- The gate's report asks for a step `guest exec x64 subprocess smoke`
  (`emulator_cpp_parity_gate.py:871`) that `all_steps` does not have, so this line
  always says FAIL.
- The gate gives the lane 360 s (line 125), the lane gives its lint 600 s and each
  of its two targets 300 s: a slow lane is killed by the gate, and its target goes on.
- `validate_rules` looks for a fallback symbol without a queue; every symbol gets
  one, so the rule never speaks.
- `coverage_for` (`shader_recompiler_backend_spirv_parity_matrix.py:158`) takes
  every function of the SPIR-V emitter as covered by its file, ported or not.
- `port_provenance.py --update` stamps drifted anchors too: a drift nobody has
  looked at is gone after an update.
- `system_parity_matrix.py:68` takes a function that logs `(STUBBED) called` and
  somewhere returns `ORBIS_OK` for a stub, whatever it checks or changes before
  that: it needs no test.  In `shader_recompiler_ir_passes_parity_matrix.py:90`
  a pass that returns and has no block and no assignment is `OTHER`, also if it
  asserts or replaces.  `Ported` leaves both out.
- In `imgui_big_picture_parity_matrix.py:217` one `== null` in a test file
  counts as a test of every error-guarded function.

## 7. Not modelled

`PROJECT.json` lists every part by its main files.  The reasons are of four kinds.

- *Nothing to state that holds or that the repository says.*  The semaphore
  wrapper, the lazily created guest mutexes and the thread table keep their state
  without any lock; two concurrent callers break each of them at once.  `EventFlag`
  shows what can be said of such a wrapper, in the
  regime it is right for.
- *Producers outside the model.*  Event queues are filled by timers, the GPU
  and video out; caches, scheduler and pools of the GPU end in the Vulkan driver;
  AvPlayer reads media sources outside the repository.
- *Data rather than control.*  The shader recompiler, PM4 decoding, relocation,
  name tables, address arithmetic of the memory manager: sequential functions over
  large values.  Of the parity matrices the regular expressions and the report
  layout are left out for the same reason, and the matrix of the core libraries,
  which no script of the suite runs.
- *No state of their own.*  Services that answer constants, glue to host devices,
  file-system calls, presentation, build scripts.

Native execution of guest code is outside any model; the lane sees it as a
process that writes rows, hangs or dies.  Host errors of correct calls (a failing
`pthread_cond_wait`) are left out of all modules.  Under `hazards` the entries
without a property are exposed in the code and covered by none; their notes say
why.
