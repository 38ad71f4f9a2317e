# Verification of qbox's stateful components

This directory holds TLA+ models of the parts of `src/` that keep state and
run concurrently or in a protocol. It also holds the TLC configurations that
check them on small instances, and TLAPS proofs of the main properties of the
global pause for every value of its constants. `PROJECT.json` lists:

- every component;
- every run and the properties it checks;
- a mutant for every checked property;
- the source lines each definition models;
- the findings;
- the hazards;
- the theorems.

## The system and its parts

| Part | Source | Modules | Status |
|---|---|---|---|
| global_pause | `systemc-components/common/src/libgssync/pre_suspending_sc_support.cc` | `GlobalPause`, `SuspendCoordinator`, `GlobalPauseProofs` | modelled |
| QemuInstance, QemuInstanceManager | `include/libqbox/qemu-instance.h` | `QemuInstance` | modelled |
| CharBackendStdio | `include/greensocs/systemc-uarts/backends/char-bf/stdio.h` | `CharBackendStdio` | modelled |
| python_binder | `systemc-components/python_binder/src/python_binder.cc` | `PythonBinder` | partly |
| LuaFile_Tool | `include/greensocs/gsutils/luafile_tool.h` | `LuaFileCmdLine`, `LuaTable` | partly |
| LibQemuObjectCallback | `src/internals.h` | none | not modelled |
| reset_gpio | `qemu-components/reset_gpio/include/reset_gpio.h` | none | not modelled |
| libqemu-cxx console | `qemu-components/common/src/libqemu-cxx/console.cc` | none | not modelled |

Each component has an `MC_` module that gives its constants model values for
TLC.

**How the parts interact.**

- A simulation's `sc_main` reads its configuration through LuaFile_Tool: the
  command line first, then the Lua tables.
- It then creates QEMU instances through QemuInstanceManager.
- Their CPUs agree on the TCG and icount modes.
- UART backends such as CharBackendStdio feed bytes from host threads into
  the SystemC kernel.
- Whenever work arrives from outside the kernel, the global pause decides
  whether the kernel may advance time, spin, or sleep. This happens through
  `async_event`, the QEMU CPUs and python_binder's threads.

Each component is modelled alone. The global pause carries the kernel model
the others would share.

## Modules

### GlobalPause

`GlobalPause` models the pre-suspending global pause together with the part
of the SystemC kernel it queries. The kernel is not in the repository, so
its definitions are marked `spec_modelled`. They follow spec section 6.

- **State.** The variables are the fields of `global_pause`: `m_suspend`,
  `m_unsuspendable`, the two per-process maps, the channel vector (as a set,
  because of find-before-push) and `wakeups`. They sit beside the kernel's
  runnable set, its delta-notified set, one relative timed trigger per
  process, and the async-event waiters and pending update.
- **Control variables.**
  - `kpc` is what the kernel thread executes.
  - `slp` is where the sleeper is inside one activation.
  - `ntf` is, for each foreign thread, whether it sits between
    `async_request_update` and `async_wakeup`.
- **The mutex** is implicit. Every stretch of code that holds it is one
  step, and the sleeper releases it only while blocked in `cond.wait`.
- **Actions.**
  - The four caller methods are actions, each with its early return, its
    `assert`, and its trailing `sleeper_event.notify`.
  - The decision table of `sleeper()` (lines 27-50) is four actions.
  - `cond.wait` is two actions, `SleeperBlock` and `SleeperWake`. A spurious
    wakeup is an action of its own.
  - The foreign entry points are `async_wakeup`, `attach_suspending` and
    `detach_suspending`.
  - The kernel loop is `Dispatch`, `DeltaCycle`, `AdvanceTime` and
    `EndOfSimulation`.

### The other global-pause modules

- **`SuspendCoordinator`** is the abstract specification of what the
  coordinator promises (spec sections 3 and 4). Its state is:
  - the set of callers with a suspend-all request, and its count;
  - the set of callers inside an unsuspendable region, and its count;
  - the wakeups not yet consumed;
  - the channel registry.

  It has no scheduler. `GlobalPause` defines the refinement mapping `Coord`
  with `INSTANCE SuspendCoordinator WITH ...`:
  - a request or region is a map entry that is set;
  - the callers are the SystemC processes;
  - the registry is the vector.

Calls of `suspend_all` and `unsuspend_all` with no current process, and
processes that end while holding a request or a region, are not modelled.
Spec sections 4.1 and 5 allow these calls only from the running SystemC
process. While the sleeper blocks, `sc_get_current_process_handle()`
returns the sleeper itself, so such a call returns at line 118. Spec
section 5 (line 69) makes a caller that never releases its request or
region a contract violation, to be documented rather than handled.

### QemuInstance

`QemuInstance` models the constructor with `push_default_args`,
`set_tcg_mode` and `set_icount_mode`, and `get()` with the `init()` it calls.
It also models `QemuInstanceManager::new_instance`.

- **Calls.** A call made through a reference is performed by `CallThrough`.
  It checks whether the reference's generation is still the vector's.
- **The vector.** `HasRoom` is `std::vector`'s rule for `emplace_back`
  (line 312). It is library behaviour, not a line of `qemu-instance.h`.
  Growth past the capacity is a reallocation that invalidates every
  reference.
- **Asserts.** `NDEBUG` chooses between a debug build, where the asserts
  fire, and a release build.
- **Arguments.** Each argument a `push_*_args` function pushes is a token.
  `push_default_args` is the single token `"defaults"`. The switch of
  `push_tcg_mode_args` is the table `TcgAccel`. The `set_*` methods are IF
  chains in the code's order: the assert on an initialised instance, the
  early return for an unspecified mode, the mismatch throw, and then the
  assignment.
- **The shift.** The string `ss << m_icount_mips << ",nosleep"` is the
  constant operator `ShiftText`. `MC_QemuInstance` gives it its meaning:
  the shift printed in decimal, followed by `",nosleep"`. The module itself
  types the arguments over the finite set `ArgTokens` and not over
  `STRING`, because TLAPS cannot decide membership in `STRING` or reason
  about `ToString`.

### CharBackendStdio

`CharBackendStdio` models the receive thread of the stdio UART backend and
its shutdown.

- **Receive thread.** Each step of `rcv_thread` is an action: `sigaction`,
  `pthread_self`, the unmask, the `m_running` check, `read()` and its three
  outcomes.
- **Destructor.** Each statement of the destructor is an action.
- **Signals.**
  - SIGURG is delivered either inside `read()` (`ReadInterrupted`) or
    outside it (`SignalLost`).
  - The SIGINT handler is `SigInt`.
  - The terminal types bytes or closes stdin.
- **`InputForwardedInOrder`** compares the data bytes of `queue` with
  `input`. `Rank(q, j)` is the number of data places up to `j`. This says
  what `SelectSeq(queue, IsData) = SubSeq(input, 1, pos)` says, but without
  `SelectSeq`'s recursion, which TLAPS knows no fact about. TLC checked the
  two forms equal on every reachable state.

### PythonBinder

`PythonBinder` models the python_binder lifecycle: its constructor,
`init_binder`, and the four callbacks through `exec_if_py_fn_exist`. It also
models the threads the Python `sc_spawn` creates.

- **`Dispatch(v)`** is `sc_thread_try_wait`'s chain of casts applied to one
  yielded value. It includes the unspecified order in which the two
  arguments of the TIMED_SC_EVENT call are evaluated.
- **`IsSequence(v)`** is what `ret.cast<pybind11::tuple>()` accepts.
  pybind11 converts any sequence with `PySequence_Tuple`. A `str`
  (`PyStr(n)`, `NoneStr`) becomes the tuple of its one-character strings.
  Any other value raises a TypeError, which `sc_thread_try_wait` turns into
  `false`. So the empty string makes `t[0]` raise an IndexError, which is
  rethrown.
- **`Intended(v)`** is what the FIXME comment and the abort message say the
  dispatch does.
- **The `&&` chain** of lines 93-96 is four nested `OrElse` steps: a try
  whose outcome is `"false"` passes to the rest.
- **`WaitsFollowYields`** says that `waited[t]` is the subsequence of the
  intended outcomes that are waits. It is written with `WaitPos` and
  `WRank`, a count of places, rather than with `SelectSeq`.

### LuaFileCmdLine

`LuaFileCmdLine` models `parseCommandLineWithGetOpt`:

- the argv copy into the 8192-byte buffer, one `CopyArg` per element;
- the overflow check after the copy;
- the two `getopt_long` passes, including the `--param` checks;
- the positional configuration files;
- `enforce_config_file`.

`config()` is one step with its four outcomes.

Each getopt pass walks argv from `argv[1]`. It takes the options it reads
and passes over the other elements. This is what GNU `getopt_long`'s
permutation of argv amounts to for these two passes.

- `NeededUpTo[k]` is the buffer space the first `k` elements need.
- `LastDirUpTo[k]` is the last `-i` among them.

Both are recursive functions over `Nat`, not `RECURSIVE` operators. Their
defining equations come from `NatInductiveDef`.

### LuaTable

`LuaTable` models `setParamsFromLuaTable`.

- **State.**
  - The Lua stack is a sequence.
  - Each table's `lua_next` order is an arbitrary permutation of its keys.
  - The recursion's frames hold the current `t`, the key prefix and the
    count.
  - `presets` is the parameter store.
- **`StoredKey`** is what `static_key` holds after the key is written.
  `strcpy` writes a string key whole, and one that does not fit is a write
  past the buffer. `snprintf` truncates a number key. A scalar is then set
  under the truncated name. A table value writes its `'.'` at
  `next_level`, past the buffer. No cfg has a number key that long, so
  the truncation is modelled but not explored.
- **`Reached`** is the reference flattening of the heap, computed by `Entries`. `Entries` is the
  only `RECURSIVE` operator. It lives in this TLC-only module.

## Runs

| Run | Expect | What it shows |
|---|---|---|
| `safety` | pass | Global pause under `FairSpec`. Invariants: `TypeOK`, `CountersMatchMaps`, `SuspendArmed`, `NoMissedWakeup`. Properties: `PauseFreezesTime`, `ImplementsCoordinator`, `AsyncWorkRuns`, `SuspendedKernelSleeps` |
| `stdio_safety` | pass | `InputForwardedInOrder` (the bytes of stdin reach the socket once each, in order) and `ShutdownAtEOF` (EOF ends the receive thread, and a started destructor joins) |
| `qemu_safety` | pass | Release build. `AgreedMode` (a CPU whose calls returned runs in the modes it asked for) and `ArgsMatchMode` (QEMU's arguments encode those modes) |
| `pyb_threads` | pass | `WaitsFollowYields`: a thread performs exactly the waits its generator yielded, in order |
| `lua_cmdline_safety` | pass | `OverflowCheckExact` (`overflow_error` is thrown exactly when argv does not fit) and `ImagesDirBeforeConfig` (every file is read with the last `--images-dir`) |
| `lua_walk` | pass | `WalkSetsFlattening`: for every `lua_next` order, the walk sets exactly the dotted, 0-based flattening of the table and leaves the stack balanced |
| `attach` | violation | `PolicyArmed`: `attach_suspending` never triggers a re-evaluation |
| `stdio_lostsignal` | violation | `DestructorTerminates`: a lost SIGURG makes `join()` hang |
| `qemu_dangling` | violation | `NoDanglingUse`: the reference `new_instance` returns dangles after the vector grows |
| `lua_overrun` | violation | `NoBufferOverrun`: `strcpy` writes past `argv_buffer` before the check |

The directory also keeps cfgs that reproduce further disagreements. The
hazards in `PROJECT.json` describe them:

- `MC_GlobalPause_channelspin.cfg`: with only a channel attached, the
  sleeper spins in zero-time deltas and never sleeps.
- `MC_PythonBinder_waitargs.cfg`: a `(time, event)` tuple may be dispatched
  as a plain event wait.
- `MC_PythonBinder_callbacks.cfg`: an AttributeError raised inside an
  existing callback is swallowed.
- `MC_LuaFileCmdLine_enforce.cfg`: a file that fails to load still counts
  as found.
- `MC_LuaTable_badkey.cfg`: an invalid key makes `lua_next` panic instead of
  the walk returning -1.
- `MC_LuaTable_overrun.cfg`: a long dotted key aborts the walk.

Every property of a passing run has a mutant in `PROJECT.json`. A mutant is
a plausible bug in the mapped code, for example:

- a dropped idempotence check;
- a missing notify;
- a dropped "Loop again";
- an off-by-one in the overflow test;
- a skipped first getopt pass;
- swapped tuple items;
- the missing `-1` adjustment of a negative stack index.

TLC finds each mutant with the run's own cfg.

**Bounds, and why they suffice.**

- **Global pause.** The safety run uses two processes, two notifiers, one
  channel, MaxDelay = 2 and MaxWakeups = 2.
  - Two processes can hold a request and a region at once.
  - Two notifiers let one post while the other is mid-call.
  - Two delays let one timed trigger overtake another.
  - Two wakeups let a stale wakeup sit in the counter while another is in
    flight.

  Symmetry is not used, because the run checks liveness.
- **QemuInstance.** Two CPUs and two instances, with capacity 2, reach the
  reallocation and a mode conflict.
- **CharBackendStdio.** Three bytes and one Ctrl-C interleave reads, EINTR
  and SIGINT.
- **LuaFileCmdLine.** Up to 3 arguments of length up to 2 against an
  8-byte buffer put the overflow both just inside and just outside.
- **LuaTable.** The heaps have a cycle through `_G`, an `__index` back-edge,
  a nested table, integer and fractional number keys, and a self-reference.
  Names up to 20 characters are allowed.

**Fairness.**

- **The SystemC kernel thread** is never preempted, and processes are
  cooperative. So the kernel loop, the sleeper and each process's end of
  activation are weakly fair.
- **A foreign thread** that called `async_request_update` goes on to call
  `async_wakeup`, so that step is weakly fair.
- **In stdio**, the receive thread, the signal delivery, and the
  destructor's `kill` and `join` are weakly fair. These are OS threads that
  are not blocked.
- **Not required to happen:** new requests, attach and detach calls,
  spurious wakeups, terminal input, and the start of the destructor.

## Findings

1. **`attach_suspending` never notifies `sleeper_event`** (`attach`). This
   is contrary to spec section 4.1.
2. **A lost SIGURG hangs the stdio destructor** (`stdio_lostsignal`). The
   signal arrives between the `m_running` check and `read()`.
3. **The manager hands out references that dangle** (`qemu_dangling`).
   `std::vector` moves its instances when it grows.
4. **The argv copy overruns its stack buffer before the check**
   (`lua_overrun`).

## Proofs

`GlobalPauseProofs` proves six theorems for every value of the constants.
It rests on `ConstantsAssumption`:

- the sleeper is no user process;
- the markers `"kernel"` and `"aborted"` are no process;
- the bounds are positive;
- `Procs` is finite.

The theorems are:

- **`TypeCorrect`: `Spec => []TypeOK`.** `TypeOK` is split into three parts,
  proved one action at a time.
- **`CountersConserved`: `Spec => []CountersMatchMaps`.** The invariant is
  inductive with `TypeOK`. The lemmas `CountAdd` and `CountRemove` give the
  cardinality after setting or clearing one map entry (from `FS_AddElement`
  and `FS_RemoveElement`). They also show that a set entry makes the count
  positive, so the asserts never fire.
- **`NoLostWakeup`: `Spec => []NoMissedWakeup`.** It is proved through the
  strengthening `BlockedInv`, which says what a blocked sleeper implies:
  - the kernel thread is inside the sleeper;
  - every disjunct of the wait predicate is false;
  - the runnable and delta sets are empty;
  - a pending async update has a notifier mid-call.

  TLC checked `BlockedInv` before it was proved.
- **`SuspendArmedHolds`: `Spec => []SuspendArmed`.** It is inductive with
  `TypeOK`. The lemmas are:
  - `DeltaArms`: a zero-time notify arms the sleeper;
  - `NotifyAtArms`: a finite-delay notify arms it, which covers line 32's
    re-arm with `sc_time_to_pending_activity()`;
  - `AdvanceArms`: advancing time keeps the sleeper's timed trigger either
    firing or pending;
  - `ArmedFrame`: a step that does not touch the triggers keeps the sleeper
    armed.

  It also needs `TimeToPendingRange`: when `m_suspend > 0`, line 32 is taken
  only with activity pending, so the delay is finite.
- **`Refinement`: `Spec => ImplementsCoordinator`** (that is, `Coord!Spec`).
  - The initial states map to the coordinator's initial state.
  - Each of the four caller methods maps to the matching request, release,
    entry or exit, or to a stutter. This is shown by the lemmas
    `RequestStep`, `ReleaseStep`, `EnterStep` and `ExitStep`.
  - `async_wakeup` maps to `NotifyAsync`.
  - `SleeperWake` with a counted wakeup maps to `ConsumeWakeup`.
  - `attach_suspending` and `detach_suspending` map to `Attach` and
    `Detach`.
  - Every other step leaves the abstract state unchanged.

  It uses `CountersConserved`: without it, the assert-failing branches could
  clear a map entry while the counter stayed at zero.

- **`PauseFrozen`: `Spec => PauseFreezesTime`.** Time advances only when
  the kernel thread is idle and nothing is due now. The strengthening is
  `FrozenInv`: while a suspend is in force with no unsuspendable process, the
  sleeper is runnable, due in the current delta, or running. The sleeper
  never waits on a timed trigger then, because it re-notifies itself with
  `SC_ZERO_TIME` while `m_suspend > 0`. `IdleNotFrozen` turns `FrozenInv`
  into the guard `AdvanceTime` cannot meet. `FrozenHolds` proves
  `Spec => []FrozenInv` one action at a time. TLC checked `FrozenInv`
  before it was proved.

`QemuInstanceProofs` proves three theorems about `QemuInstance`, for every
CPU set, capacity bound, `Mips` set and build (`NDEBUG` true or false). It
rests on `QemuAssumption`: the MIPS values are naturals including 0, and
the bounds are naturals.

- **`TypeCorrect`: `Spec => []TypeOK`.** It is proved through `TypeInv`,
  which is `TypeOK` split into the store and the CPU parts, plus
  `gen = 0 => cap = 0`. That conjunct is what makes a reference taken from
  an empty vector impossible. Each call through `CallThrough` is shown to
  have the same shape (`CallShape`): it changes only the calling CPU and the
  instance it refers to. So one lemma, `CallKeepsType`, covers
  `set_tcg_mode`, `set_icount_mode` and `get()`.
  No run checks `TypeOK` as a property. The proof is what supports the
  other two theorems.
- **`ModesAgreed`: `Spec => []AgreedMode`.** It is inductive with `TypeInv`.
  There is one lemma per action:
  - `new_instance` invalidates every reference (`AgreedNewInstance`);
  - a call of another CPU only strengthens the instance (`AgreedOther`);
  - the mismatch throws of `set_tcg_mode` and `set_icount_mode` are what
    keep a CPU's requested mode on the instance (`AgreedSetTcg`,
    `AgreedSetIcount`);
  - `init()` leaves the modes as they were (`InitInstModes`).
- **`ArgsEncodeModes`: `Spec => []ArgsMatchMode`.** It is proved through
  `ArgsInv`, which says two things. An instance that is not initialised
  holds just the default arguments. An initialised one has specified modes
  and the arguments that encode them. In a release build a late `set_*`
  call still cannot change the modes of an initialised instance: the
  mismatch check throws first, and an equal mode leaves the instance
  unchanged. TLC checked `ArgsInv` and `TypeInv` as invariants, with
  `NDEBUG` both true and false, before they were proved.

`CharBackendStdioProofs` proves two theorems, for every set of bytes and every bound. It
rests on `StdioAssumption`.

- **`TypeCorrect`: `Spec => []TypeOK`.**
- **`ForwardedInOrder`: `Spec => []InputForwardedInOrder`.** The invariant
  is inductive with `TypeOK`.
  - `AppendData` and `AppendCtrlC` give the data places and ranks of a queue
    after the receive thread or the SIGINT handler appends to it. They rest
    on `FS_AddElement`.
  - A read that `Type` has not fed yet needs `pos \in 0..Len(input)`, and
    `TypeOK` carries that.

`LuaFileCmdLineProofs` proves two theorems, for every argv of bounded
elements and every buffer size. It rests on `CmdLineAssumption`.

- **`OverflowExact`: `Spec => []OverflowCheckExact`.** The strengthening
  `OverflowInv` says what `bufp` is at each stage:
  - during the copy, `bufp` is `NeededUpTo[i - 1]`;
  - after the copy, it is `Needed`;
  - parsing is reached only when `bufp <= BUFFER_SIZE`, and the overflow
    state only when it is not.
- **`ImagesDirFirst`: `Spec => []ImagesDirBeforeConfig`.** The
  strengthening `DirInv` has three parts:
  - during the first pass, `imagesDir` is `LastDirUpTo[i - 1]`, and after it
    `LastImagesDir`;
  - no file is read before the second pass;
  - every logged read used the current `imagesDir`.

TLC checked both strengthenings, with and without `HAS_LUA`.

`PythonBinderProofs` proves `WaitsFollowYieldsHolds`:
`Spec => []WaitsFollowYields`, for every set of threads and every bound on
yields. It rests on `BinderAssumption`.

- `DispatchWait` and `DispatchNone` evaluate the cast chain on each wait
  argument and on None. The evaluation covers both orders of the
  TIMED_SC_EVENT casts.
- The strengthening is `ThreadOK`, stated per thread. A thread has yielded
  a prefix of its script. Each value but a possible last None was a wait
  argument, and was waited on as intended. A last None ended the thread.
- `UpdateThread` shows that a step changing one thread keeps the invariant
  of the others.

TLC checked `ThreadOK` on the `pyb_threads` instance before it was proved.

**Only model-checked.** These stay with TLC:

- the liveness properties `AsyncWorkRuns`, `SuspendedKernelSleeps` and
  `ShutdownAtEOF`, because TLAPS does not reason about fairness or
  `ENABLED`;
- the liveness property `ShutdownAtEOF` of `CharBackendStdio`;
- `WalkSetsFlattening`, because its reference `Entries` is a `RECURSIVE`
  operator, which keeps the prover's SMT backend out of any module that
  reaches it. What a recursive definition computes for every heap would
  also need induction over data, which the installed provers cannot
  instantiate;
- the properties of the violation runs, which TLC shows false.

## Not modelled

- **Parts of the components.**
  - The unlocked vector updates of `attach_suspending` and
    `detach_suspending` are modelled as atomic calls.
  - The missing `return` at line 228 of `async_attach_suspending` is
    undefined behaviour. No caller in `src/` reads its result.
  - python_binder's pybind11 registrations and TLM forwarding functions
    only forward to Python or to a socket.
  - The Lua interpreter, LuaFile_Tool's constructor and the non-getopt
    `parseCommandLine` path are not modelled.
  - `writefn` and `tty_reset` are terminal I/O.
- **Components left out.**
  - `LibQemuObjectCallback` is a holder for one callback.
  - `reset_gpio` forwards a GPIO edge to a QEMU reset.
  - The libqemu-cxx console functions are forwarding wrappers around
    libqemu exports.

  None of these has concurrency or a protocol of its own.
