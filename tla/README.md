# TLA+ models of the qemu-hexagon-testing lock/timer harness

This directory holds TLA+ models of the concurrent parts of
`src/standalone_systests`, of two of its sequential tests (`pmu.c` with the helpers of `pmu.h`, and `vwctrl.c`), and the TLC configurations that check them.
`PROJECT.json` is the machine-readable index. It lists the components, the
runs, the mutants, the map from definitions to source lines, the findings and
the hazards.

## 1. Inventory

Most of the repository consists of bare-metal probes of a simulated Hexagon
CPU. Each probe runs one sequential scenario: write a register, trap, assert.
The state those probes test lives in the simulator, not in `src/`. The
concurrent code is the multi-threaded harness that the spec calls the core,
plus a few small multi-thread probes.

| Component | Source | State | Operations |
|---|---|---|---|
| Start barrier | `thread_common.c`, `include/thread_common.h` | `thread_semaphore[32]` (OFF / ON_WAIT / GO) | `create_waiting_thread`, `thread_wrapper` + `wait_on_semaphore`, `start_waiting_threads` (the wait loop, then the GO loop), `thread_create_blocked`, `thread_run_blocked` |
| Lock under test | `lock_timer_test.c` 69-84 | one global hardware lock (k0lock or tlblock) | `lock_func`, `unlock_func` |
| Workers | `lock_timer_test.c` `thread_func` | locals `round`, `start_time`, `end_time`; shared `global_round_counter`, `lock_records[]`, `test_complete` | loop test, lock, fetch-and-add claim, quota break, two timer reads, zero-duration abort, unlock, record write |
| Controller | `lock_timer_test.c` `run_lock_test`, `main` | `swi_issued_count`, `ints_by_irq[]`, `ints_by_tid[]`, the phase | reset, create the workers, run the barrier, `iassignw`, the swi pacing loop, `test_complete`, join, count checks, `verify_no_overlaps`; two phases |
| Interrupt router | `include/interrupts.h`, `interrupt_handler` | pending lines, per-line routing (`iassignw`), per-thread `imask` | `swi`, `iassignw`, `set_thread_imask`, delivery to one eligible thread, the counting handler |
| Overlap verification | `compare_records`, `verify_no_overlaps` | the log | qsort by start time, then a scan of adjacent pairs |
| Timer | `include/timer.h` `timer_read_pair` | QTimer counter | monotonic 64-bit read |
| swi wait/wake tests | `swi_wait.c`, `swi.c`, `swi2.c` | wait-mode threads, counters, `tasks_enabled` | swi while masked or globally disabled, wake counting, teardown |
| Lock probes | `k0lock.c`, `tlblock.c`, `k0locklock.c`, `tlblocklock.c`, `k0lock-syscfg.c` | the hardware lock | lock held across `thread_create`, double unlock, re-lock |
| Thread probes | `test-thread.c`, `thread_scheduling.c` | `Mx`, `thcnt`, `thid[]`, `running` | trylock spin, flag handoff |
| PMU helpers | `include/pmu.h` | PMUEVTCFG, PMUEVTCFG1, PMUCFG, SYSCFG.PM, pmucnt0..7, SSR:PE | `pmu_config` (read, insert, write back of two fields), `pmu_reset`, `pmu_start`, `pmu_stop`, `pmu_set_counters`, `toggle_ssr_pe`, `get_counter`, the check helpers |
| PMU counter tests | `pmu.c` | the counters, `err` | ten tests run by `main`; `thread_run_blocked` of `work` or `config_thread` on a second hardware thread while main spins |
| VTCM window test | `vwctrl.c`, `include/dma.h` | VWCTRL, SSR:UM, `window_miss_seen`, `err` | `get_vwctrl`, `set_vwctrl`, `calc_win_boundaries`, scatter/HMX/DMA accesses in user mode, the error handler (window miss, privilege trap) |
| Stack-limit probe | `framelimit.c` | FRAMELIMIT, SP, FP, SSR:UM, `framelimit_exception_found` | three `test_framelimit` calls: set FRAMELIMIT, `allocframe`, conditional `deallocframe`, the error handler (stack limit, privilege trap) |
| Privilege probe | `checkforpriv.c` | SSR:UM, `priv_exception_found`, `guest_exception_found` | `rte` and `gelr` in user mode, the error handler with its early return |
| HSV39 TLB helpers | `include/hsv39.h`, `hsv39_tlb.c` | the extended TLB entry (`TLBEntry64`) | `pow4`, `hsv39_make_tlb_entry`, `page_start64`, `test_page_size` up to the TLB write |
| User DMA test | `udma.c`, `include/dma.h` | the aligned buffer, `desc0_1`, `desc0_2`, `fail` | `memset` of two sources, `fill_descriptor0` of two chained descriptors, `do_dmastart` (`dmstart`, `dmwait`), two `memcmp`, `exit(-3)` |
| Everything else | MMU/TLB, FP, register and file-I/O probes | simulator registers | single-threaded; not modelled (see `PROJECT.json`) |

**How the parts interact.**
- Thread 0 (the controller) creates workers 1..N through the barrier. A
  worker writes ON_WAIT into its own slot and spins until its slot is GO.
  The controller spins on each slot in turn until it reads ON_WAIT, then
  writes GO slot by slot. Early workers can therefore run while later ones
  are still held.
- The workers share the lock under test, the atomic round counter and the
  log. The log is written after the unlock, outside the lock.
- The controller raises every line with `swi`. It then spins until the
  handlers, which run on the workers, have counted the interrupts.
- Once `global_round_counter` reaches `ROUNDS_PER_THREAD`, the controller
  sets `test_complete`, joins the workers and checks the counts and the log.
- `main` runs all of this twice: once with k0lock and once with tlblock.

**What is hard.**
- The interleaving of N workers with the controller and with interrupt
  delivery.
- The barrier's two loops.
- Writes that land after the unlock.
- A `swi` can merge with a raise of the same line that is still pending.
- Nothing is re-initialised between the two phases except what
  `reset_test_state` and `create_waiting_thread` reset.
- Spins with no timeout: the barrier and `wait_for_int_count`.
- Counter bounds: the round quota against the size of `lock_records[]`.

**What makes each part correct.**
- Barrier: no worker runs before all of the mask have arrived, and every
  waiting worker is eventually released.
- Workers with the lock: the recorded intervals never overlap. Every claimed
  round below the quota is recorded before the log is verified, and the count
  verified fits the array.
- Controller: it terminates, and it issues no `swi` while a line is pending.
  No interrupt is lost and the two count tables agree. A correct lock passes.
- Overlap verification: the sort-and-scan decides pairwise disjointness.
- PMU configuration: configuring one counter never changes the event of
  another, although counters share registers.
- PMU tests: every counter reads the packets of the thread its event
  selects, although main commits packets of its own while it waits for the
  other thread, and SSR:PE is left over from the previous test.
- VTCM window test: the window the test computes is the one the hardware
  enforces, and the VWCTRL writes made from user mode take effect.

## 2. Modules

| Module | Models | Kind |
|---|---|---|
| `OverlapCheck` | `compare_records`, `verify_no_overlaps` | operators |
| `PmuConfig` | `include/pmu.h`: `pmu_config`, `pmu_reset`, `pmu_start`, `pmu_stop` | state machine |
| `PmuTest` | `pmu.c` with the rest of `include/pmu.h` | state machine |
| `Vwctrl` | `vwctrl.c`, `do_dmastart` and `fill_descriptor0` of `include/dma.h` | state machine |
| `Framelimit` | `framelimit.c` | state machine |
| `CheckForPriv` | `checkforpriv.c` | state machine |
| `Hsv39` | `include/hsv39.h` and `hsv39_tlb.c`'s `test_page_size` calls | operators and a state machine |
| `Udma` | `udma.c`, `do_dmastart` and `fill_descriptor0` of `include/dma.h` | state machine |
| `MC_Algorithms` | `OverlapCheck`, `PmuConfig`, `PmuTest`, `Vwctrl`, `Framelimit`, `CheckForPriv` and `Udma` as disjoint parts | MC module |
| `LockTimerTest`, `MC_LockTimerTest` | `lock_timer_test.c`: barrier, workers, controller, interrupt delivery, both phases | state machine |
| `ThreadLaunch` | the contract of the start barrier (spec 4.1), every operation atomic | abstract spec |
| `StartBarrier` | `thread_common.c` / `thread_common.h` step by step, under the launch programs of four tests | detailed spec, refines `ThreadLaunch` |
| `SwiWait`, `MC_SwiWait` | `swi_wait.c` | state machine |
| `SwiRing` | `swi.c` | state machine |
| `SwiCycle` | `swi2.c` | state machine |
| `K0LockProbe` | `k0lock.c` (and `tlblock.c`, the same program on the TLB lock) | state machine |
| `TestThread` | `test-thread.c` | state machine |
| `ProbeTests` | `SwiRing`, `SwiCycle`, `K0LockProbe` (twice: k0lock.c and tlblock.c), `TestThread` and `StartBarrier` as six disjoint parts | composition |

`ProbeTests` checks six independent programs in one run: the five
thread and lock probes and the start barrier of `thread_common.c`. They share
nothing (each is its own `main` on its own target), so the composition is
a disjoint union rather than a product: `part` picks one program per
behaviour, its steps run while the others stay at their initial
state, the variables they have in common are renamed (`WITH`), and each
program's fairness is assumed only in its own part
(`part = "swi.c" => Ring!Fairness`). A property of one program is stated
for its part, so it holds in the run exactly when it holds for that
program alone, and the state count is the sum of the parts, not their
product.

## 3. Modules and how they correspond to the code

### OverlapCheck.tla
- `StartsInOrder` is `compare_records`.
- `QsortOrders` is the set of arrangements qsort may leave. qsort is not
  stable, so ties come in any order.
- `AdjacentScanPasses` is the loop of `verify_no_overlaps`.
- `VerifyNoOverlaps` is the set of verdicts the code can return.
- `PairwiseDisjoint` is the reference definition.

### LockTimerTest.tla
The variables are named after the C globals: `sem`, `counter`, `records`,
`testComplete`, `byIrq`, `byTid` and `swiIssued`. Beside those:
- `wpc` and `cpc` are the threads' program counters.
- `myRound`, `tStart` and `tEnd` are `thread_func`'s locals.
- `lockHolder` is the hardware lock.
- `pending`, `disabled` and `imask` are the interrupt controller's state.
- `now` is the last timer value read.

One action per step of the code:
- `WaitOnSemaphoreArrive` and `WaitOnSemaphoreGo` are `wait_on_semaphore`.
- The worker steps are `LoopTest`, `LockFunc`, `ClaimRound`, `BreakUnlock`,
  `ReadStartTime`, `ReadEndTime` (which includes `do_work` and the
  `dur == 0` abort), `UnlockFunc` and `RecordTiming`.
- The controller steps are `ResetTestState` (which includes
  `register_interrupt` and `set_thread_imask`), `CreateWaitingThread`,
  `WaitSemaphoreState`, `SetSemaphoreState`, `AssignInterrupts`, `SwiLoop`,
  `WaitForIntCount`, `SignalComplete`, `ThreadJoin` and `CheckResults`.
- `CheckResults` makes the asserts and returns in the code's order. It then
  moves to the next phase, or finishes.
- `InterruptHandler(l, t)` is one delivery of line `l` to thread `t`,
  followed by `interrupt_handler`.

Abstractions:
- `do_work` and the `printf` calls are left out.
- A timer read returns the last value read or that value plus one. Only the
  order of the readings matters to the properties, and one tick stands for
  any positive gap.
- `total_int_count`'s entry-by-entry read is taken as one read of the sum.
  The counters only grow, so this admits every sum the loop could see pass.
- When `global_round_counter` exceeds the array size, qsort runs past
  `lock_records[]`. That read is undefined, and the verdict is recorded as
  `"undefined"`.
- `abort()` and a failed `assert` stop the whole program (`aborted`).

Platform assumptions, marked `spec_modelled` in the map:
- A thread can take interrupts while it runs (`Running`).
- The hardware takes a deliverable interrupt before the eligible thread's
  next instruction (`NoneDeliverable`).

### PmuConfig.tla
- The variables are the three configuration registers `pmuevtcfg`,
  `pmuevtcfg1` and `pmucfg`, and `pmOn` (SYSCFG bit 9). `configured` is a
  history variable: the event each counter was last given.
- `Insert` is the `insert(Rs, r3:2)` instruction: the field is cleared and
  the low `width` bits of the value put in. `PmuConfigRegs` is `pmu_config`:
  the low byte into byte `id % 4` of `pmuevtcfg` (ids below 4) or of
  `pmuevtcfg1`, then `event >> 8` into bits `2*id` of `pmucfg`.
- `PmuReset` is `pmu_reset` whole: stop, then `pmu_config(i, 0)` for every
  counter (`ConfigAllZero`, RECURSIVE). `PmuStart` and `PmuStop` set and
  clear the PM bit.
- The counter values are not modelled: the hardware counts.
- `EventOf` reads a counter's event back with the Bitwise operators
  (`shiftR`, `&`), independently of the arithmetic of `Insert`.

### PmuTest.tla (pmu.c)
- Each test function is an operator that returns its calls as a sequence of
  operation records: `Reset`, `Config`, `SetCounters`, `Start`, `Packets`,
  `TogglePe`, `CheckRange`, `RunBlocked` and so on. `MainProgram` is the
  concatenation in `main`'s order (`FlattenSeq`). `ip` is main's position.
  One action per kind of operation carries it out: `DoReset`, `DoConfig`,
  `DoSetCounters`, `DoStartStop`, `DoPackets`, `DoTogglePe`,
  `DoGuestWrite`, `DoCheck`.
- `ThreadRunBlocked` starts the other thread. `WorkStep` (start, run
  `(id+1)*100` packets, stop) and `ConfigThreadStep` (set the counters,
  configure counter 0, start) are its steps. `ThreadJoin` returns to main.
  While the other thread runs, main spins in the barrier and in
  `thread_join`. `JoinSpin` commits `JOIN_SPIN_PKTS` packets of thread 0
  for each of at most `MAX_SPINS` stretches, at any point of the other
  thread's run.
- The hardware's counting is modelled as the tests assume it (`Counts`,
  `Commit`). A packet of thread t committed while SYSCFG:PM is set counts
  in every counter whose event is `COMMITTED_PKT_T(t)` or
  `COMMITTED_PKT_ANY`, and in an `HVX_PKT` counter if it holds HVX.
  `GetCounter`: the guest and user views read 0 unless SSR:PE is set.
  Guest and user writes are ignored.
- `ErrBound` is the `uint32_t` conversion of `n * ERR`. The double 1.1 is
  stored just above 1.1, so the result is `n * 11 \div 10`.

### Vwctrl.tla (vwctrl.c)
- The variables are VWCTRL as its three fields, the mode (SSR:UM),
  `window_miss_seen`, `err`, main's locals (`enable`, `vwctrl_lo`,
  `vwctrl_hi`, `wmin`, `wmax`), and `pc`/`step`: the call of `main` and
  the position inside the test function.
- `Program` lists `main`'s calls after `Setup`: three accesses per phase,
  `Disable` and `MoveUp` between the phases. Each access takes the steps
  `ReadVwctrl` (the `printf` of `is_vwctrl_enabled`), `AllocDescriptor`
  (DMA only; NULL leads to `exit(-2)`), `EnterUserMode`, `DoAccess` and
  `CheckMiss` (`check32(window_miss_seen, expect_failure)`).
- A VWCTRL read or write in user mode is `PrivTrap`. The handler for
  PRIV_USER_NO_SINS calls `enter_kernel_mode` and returns to the same
  instruction, so the access runs again in kernel mode. A window miss
  (`WindowMiss`) sets `window_miss_seen` and skips the instruction.
- The hardware window (`HwWinMin`, `HwWinMax`) is the v79 formula that the
  comment of `calc_win_boundaries` cites. A disabled window misses every
  access, which is what the test expects. The DMA touches the two 128-byte
  ranges of its descriptor (`DmaBytes`).
- `window_miss_seen` is never cleared. After the first expected miss, every
  later check that expects a miss passes whatever its own access does. From
  reset LOW = 0, HIGH = 8, the moved window [1, 8] holds all three of the
  third phase's accesses at the new `wmin`. None of them misses,
  and the test passes anyway. `ExpectedMissOccurs` says that every check
  expecting a miss follows an access that missed. It needs no extra state:
  `vwctrl`, `wmin` and the operation do not change between an access and
  its check. The run `vwctrl_expected_miss` shows that the code breaks it.

### Framelimit.tla (framelimit.c)
- State: `framelimit_exception_found`, `err`, the mode, SP and FP (offsets
  from main's SP), `frames` (the FP values `allocframe` saved, main's
  last), FRAMELIMIT, and main's position (`pc` = the test, `step`).
- `Enter` is lines 64-68. `Alloc` is the `allocframe` together with the
  handler: a stack-limit fault sets the flag and skips the instruction.
  `AfterAlloc` is the `if (!user_mode)` of line 71, and `Dealloc` is the
  `deallocframe`. `Leave` is `set_framelimit(0)`, the trapping
  `enter_kernel_mode` and `check32`.
- `allocframe` and `deallocframe` are the hardware's (`AllocFrame`,
  `DeallocFrame`, `StackLimit`). The limit is checked in user mode only,
  which is what the test's `overflow && user_mode` expects.
- `StackBalanced`: at the start of every test, SP, FP and the saved frames
  are what main called with. A `deallocframe` after the skipped
  `allocframe` would pop test_framelimit's own frame.

### CheckForPriv.tla (checkforpriv.c)
- `prog` is main's instructions from `enter_user_mode` on: the two probes,
  their checks, then up to `MaxLibPriv` privileged instructions of the
  library code (`puts`, `exit`), which is not in the repository.
- `Trap` raises the cause of a privileged instruction in user mode.
  `Handler` is `checkforpriv_event_handle_error_helper`. Once both flags are
  set (`ProbesDone`), it enters kernel mode and returns to the same
  instruction. Otherwise it records the cause and skips the instruction.
- `OnlyProbesSkipped` (an action property): a handler step that skips an
  instruction skips `rte` or `gelr`, never library code.

### Hsv39.tla (hsv39.h, hsv39_tlb.c)
- `Pow4`, `Ctz` (`__builtin_ctzll`, RECURSIVE), `PageSizeMB`, `PageStart`
  and `MakeTlbEntry` are the helpers of hsv39.h, with every field of the
  entry. Addresses are in MB, because no mask reaches below 1MB.
- `TestPageSize` is one `test_page_size(id)` of main, up to
  `add_hsv39_tlb_entry`: the page of `data` (`addr`, any address in
  `DataAddrs`) and its alias 4GB higher.
- `EntryMapsNamedPage` is the reference: each enumerator's value is the
  size it is named for, in MB. The entry written for `HSV39_PAGE_<size>`
  maps the `<size>` page that holds `data`.

### Udma.tla (udma.c)
- The buffer is the eight blocks of `DMA_XFER_SIZE(alloc_size)` bytes
  after the aligned `memory`. `src1`, `src2`, `dst1` and `dst2` (`Src1` ..
  `Dst2`) start at multiples of that size and are one block long, so the
  blocks are exact. They lie inside the array, which has `ALIGN` bytes to
  spare. `Memset` and `Same` are `memset` and `memcmp` on those bytes.
- `InitData` is the two `memset` calls. `InitDescriptors` writes `Chain`:
  `desc0_1` copies `src1` to `dst1` and points to `desc0_2`, which copies
  `src2` to `dst2` and ends the chain. `DmStart` is `dmstart`.
- `DmaTransfer` is the engine (hardware, modelled as the test assumes
  it). It copies the current descriptor's bytes and then follows `next`.
  `DmWaitCompare` is `dmwait` returning after the chain and the two
  `memcmp`. `EndTest` exits with -3 on a mismatch, or else moves main to
  the 4MB test on the other array, which is still zero.
- `TestPasses`: neither test exits with -3. The mutant leaves
  `desc0_1`'s `next` NULL. The second area is then never copied.

### ThreadLaunch.tla and StartBarrier.tla (refinement)
`ThreadLaunch` is the contract: a controller runs a launch program of
`create`, `start` and `join` operations. `start(mask)` is one atomic step,
enabled only when every thread of the mask waits, and it releases them all.
`StartBarrier` is the code:
- `WaitOnSemaphoreArrive` and `WaitOnSemaphoreGo` are `wait_on_semaphore`.
  `RunFunc` is the thread's function.
- `CreateWaitingThread`, `StartWaitingThreads`, `WaitSemaphoreState` (the
  loop that spins on each slot), `SetSemaphoreState` (the GO loop) and
  `ThreadJoin` are the controller's steps. `WaitMask` is `remove_myself`.
- The launch programs are those of `lock_timer_test.c`, `swi_wait.c`
  (`thread_create_blocked` per thread), `k0lock-syscfg.c` and `pmu.c`
  (`thread_run_blocked`).

The refinement mapping:
- A thread is "go" in the abstract once it runs, or once it spins while its
  slot is GO or the GO loop of its mask is under way (`Released`).
- `AbsIp` moves the abstract program counter at the start of the GO loop.
  So the whole loop is the atomic `start`.

`ImplementsThreadLaunch` is `Launch!LaunchSpec`, fairness included
(`LaunchFairness`). In `ProbeTests` the same formula is checked conjunct by
conjunct, each guarded by the thread_common.c part: the initial condition,
`[][part = ... => LaunchNext \/ UNCHANGED absVars]_allVars`, and the
fairness.

### SwiWait.tla
- Wait threads: `WaitOnSemaphoreArrive`, `WaitOnSemaphoreGo`, `LoopTest`,
  `WaitForInterrupts` and `CountWake` (`times_woken[id]++`).
- main: the launch (`CreateWaitingThread`, `WaitSemaphoreState`,
  `SetSemaphoreState`, `WaitForThread`), the three scenarios
  (`GlobalIntDisable`, `AssignMaskAll`, `SwiAll`, `GlobalIntEnable`,
  `AssignUnmask`), `wait_for_ints_delivered` (`AllIntsDelivered`, then
  `WaitWokenSum` on a sum read once), `CheckCounts`, and the teardown
  (`ClearTasksEnabled`, `WaitForWaitRead`, `WaitForWaitSwi`, `ThreadJoin`).
- `InterruptHandler(l, t)` is one delivery followed by the handler.

### SwiRing.tla (swi.c)
- Threads: `RegisterInterrupt`, then wait mode, `SendSwi` of
  `SendIntLine(t)` (the next tid, 1 from the last), and `SpinOnIntcnt`.
- main: `ThreadCreate`, `WaitForThreads` (MODECTL), `SetImaskMain`,
  `SetImask` per thread, `DoResume`, `ThreadJoin`.
- `IntHdl(l, t)` is `int_hdl` run by thread `t`; `takenBy` records who took
  each line.

### SwiCycle.tla (swi2.c)
- Thread 1, `interrupt_cycles`: `CycLoopTest`, `GlobalIntDisable`,
  `GlobalIntEnable`, `ImaskOpen` and `ImaskClose`, twice per iteration.
- Task threads compute until `tasks_enabled` is cleared (`TaskThread`).
- main: `CreateCycler`, `CreateTask`, `RunTest` (which clears
  `ints_by_irq`), `RaiseAll`, `WaitDelivered`, `JoinCycler`, `JoinTask`.

### K0LockProbe.tla (k0lock.c, tlblock.c)
- `owner` is the hardware lock. A `k0unlock` by a thread that does not hold
  it has no behaviour the code defines. `Unlocked(t)` lets it either be
  ignored or free the lock.
- Threads: `LockStep`, `Unlock1`, `Unlock2`, for ITERS rounds.
- main: `MainLoopTest`, `MainLock`, `ThreadCreate` (a batch, under the lock),
  `MainUnlock`, `ThreadJoin` on `JoinMask`.
- tlblock.c differs from k0lock.c only in the lock (`tlblock`,
  `tlbunlock`) and in thread_func's 5 rounds. `ProbeTests` instantiates the
  module a second time as `TL`, with `ITERS <- TLBLOCK_ITERS` (5), in its
  own part "tlblock.c".

### TestThread.tla (test-thread.c)
- Threads: `AssertId`, `TryLock` (a failed trylock pauses and retries),
  `IncLoad` and `IncStore` (the non-atomic `thcnt++`), `RecordId`,
  `ThreadUnlock`.
- main: holds `Mx` from the start, `ThreadCreate` for i = 1..THCNT (a tid
  the target lacks starts nothing: `HwThreads`), `MainUnlock`, `WaitCount`,
  `ThreadJoin`, `Compare`.
- `aborted` is a failed assert, which ends the program.

## 4. Runs

| Run | Module / cfg | Expect | What it shows |
|---|---|---|---|
| `algorithms` | `MC_Algorithms` | pass | Sort-and-scan decides pairwise disjointness for all logs of up to 3 records with readings in 0..4, under every tie order. Every counter configured by any sequence of `pmu_config`/`pmu_reset` calls reads back its own event. pmu.c passes every check (`NoCheckFails`), with main's join-spin packets at every point of the other thread's run. vwctrl.c returns PASS from every enabled reset window that holds the DMA's bytes (`VwctrlTestPasses`). framelimit.c leaves SP and FP as main called with after every test (`FramelimitStackBalanced`) and passes. checkforpriv.c's handler skips only the two probes, with 0 to 2 privileged library instructions after them (`CheckForPrivOnlyProbesSkipped`), and passes. udma.c passes both `memcmp` checks at both sizes (`UdmaTestPasses`). 3960 states. |
| `lock_timer` | `MC_LockTimerTest` | pass | About 180k states, 40 s. See the list below. |
| `rounds_complete` | `MC_LockTimerTest_RoundsComplete` | violation | The verified log holds fewer than `N_THREADS * ROUNDS_PER_THREAD` records. The controller's loop (line 270) stops the workers after `ROUNDS_PER_THREAD` rounds, while the spec promises the full quota. |
| `records_within_array` | `MC_LockTimerTest_RecordsWithinArray` | violation | Workers that reach the quota before `test_complete` is set have each already incremented `global_round_counter`. `verify_no_overlaps` then sorts more records than `lock_records[]` holds (line 170). |
| `correct_lock_passes` | `MC_LockTimerTest_CorrectLockPasses` | violation | With an exclusive lock, `run_lock_test` can still fail its interrupt checks. TLC finds the workers claiming their rounds before the first `swi`. |
| `swi_wait` | `MC_SwiWait` | pass | 3 wait threads, 2 lines (about 400k states, 2 min): every line is handled exactly once per scenario (`CountsAssertsHold`), also when raised while disabled or routed to no thread; each raise is delivered (`RaisedLinesDelivered`); every `wait_for_thread` returns. |
| `swi_wait_scenarios_complete` | `MC_SwiWait_ScenariosComplete` | violation | `wait_for_ints_delivered` reads `times_woken` once into a local and loops on the local: it can spin forever (line 85). |
| `swi_wait_teardown` | `MC_SwiWait_TeardownJoins` | violation | `wait_for_wait` can return while a wait thread is about to enter wait mode; that thread then waits forever and `thread_join` hangs (line 106). |
| `probe_tests` | `ProbeTests` / `MC_ProbeTests` | pass | swi.c: every line is taken only by its own thread (`OwnLineOnly`) and the ring closes. swi2.c: each raise is counted once although thread 1 cycles the global enable and its imask (`CountsTrackRaises`), and the test passes. k0lock.c (3 rounds) and tlblock.c (5 rounds): main's hold while it creates a batch stays exclusive whichever way a stray unlock behaves, and every batch finishes. test-thread.c: no `thcnt` increment is lost, and PASS is printed. thread_common.c: the slot-by-slot barrier implements `ThreadLaunch` under the launch programs of four tests (`ImplementsThreadLaunch`, its conjuncts guarded by the part). About 2600 states, 2.5 min. |
| `test_thread_assert` | `TestThread` / `MC_TestThread_Assert` | violation | On a target that has hardware thread THCNT, the thread created with that tid fails `assert(id < THCNT)` (line 37). |
| `vwctrl_expected_miss` | `MC_Algorithms` / `MC_Algorithms_VwctrlMiss` | violation | From reset LOW = 0, HIGH = 8, the scatter of the "out of bounds access" phase (pc 9) at the new `wmin` lies inside the moved window [1, 8] and does not miss. Its `check32(window_miss_seen, true)` passes only on the flag the disabled phase left set (vwctrl.c line 208). |
| `hsv39_page_size` | `Hsv39` / `MC_Hsv39` | violation | With `data` at 4095MB, the entry for `HSV39_PAGE_4M` is aligned to 16MB (4080MB), not 4MB (4092MB). `pow4(__builtin_ctzll(x))` is x squared for x = 4^k, so every size above 1M maps a page of the size squared. test_page_size computes its page with the same formula and passes (hsv39.h line 59). |

The `lock_timer` run checks these properties:
- `NoOverlapReported`: an exclusive lock never produces an overlap verdict.
- `InterruptConservation`: every raise is counted once, and the per-line and
  per-thread tables agree.
- `BarrierReleasesTogether`: no worker runs before all workers have arrived.
- `RecordsComplete`: the log is complete when it is verified.
- `BarrierEventuallyReleases` and `HarnessTerminates`: the two liveness
  properties.

Every property of a passing run has a mutant in `PROJECT.json`. A mutant is
a plausible bug that TLC must catch. Examples:
- a lock acquire that does not wait;
- pacing one raise behind, or one interrupt past the count;
- barrier loops that stop one thread short or run one index past the mask;
- a join mask that leaves out the last worker;
- a scan that rejects intervals that only touch;
- `counter_id <= 4` in `pmu_config`;
- `test_threaded_pkt_count` configuring counter 0 before the threads run;
- `calc_win_boundaries` scaling LOW by 1KB instead of 4KB;
- an imask that admits the next thread's line, or a ring that closes on
  line 0;
- `cycle_ints` that never re-enables, or `run_test` that does not clear;
- main that joins without `k0unlock`, or compares before `thread_join`;
- a trylock that succeeds while Mx is held.

TLC's coverage shows that every action and branch of `lock_timer` fires
except one: the abort branch of `assert(total_ints_by_tid ==
total_expected_interrupts)` in `CheckResults`. That branch is unreachable
because `InterruptConservation` holds. For the same reason, the
`"main_int"` and `"tid_irq_mismatch"` verdicts are never produced.

## 5. Bounds and why they are enough

`MC_LockTimerTest.cfg` uses N = 2 workers, ROUNDS_PER_THREAD = 1 (quota 2),
one interrupt line, MaxSwi = 2 raises per phase, a count threshold of 1, and
both phases. This is enough for the following:
- Two workers contend for the lock and release each other at the barrier
  out of order.
- A worker can find the quota exhausted (counter 2, then 3 and 4).
- Two raises per phase make a second `swi` possible while the first is
  pending, which is what the pacing must prevent.
- Two phases exercise the stale state carried from the first phase: the
  semaphores at GO, the routing and the counters.

More workers, rounds or lines add symmetric interleavings, but no new
orderings of the steps the properties relate. `MaxSwi` bounds the
controller's otherwise unbounded raise loop. At the bound, the controller
waits for the workers to move the counter.

The other runs:
- `MC_Algorithms`: logs of up to 3 records with readings in 0..4 give every
  arrangement of disjoint, touching, nested and tied intervals. The PMU
  checks counter ids 0, 3, 4 and 7: both ends of both halves, so the split
  at 4 and the byte offsets 0 and 24 are met. The events are 22
  (`COMMITTED_PKT_T7`, high bits 0) and 273 (`HVX_PKT`, high bits 1, used
  by reg-reads.c), and `pmu_reset` gives 0.
- pmu.c: `JOIN_SPIN_PKTS = 100`. Main spins as long as the other thread
  works, and the shortest work is `BASE_WORK_COUNT` packets.
  `MAX_SPINS = 1`. One stretch of main's packets, placed at any step of the
  other thread's run, already exceeds the 10% tolerance of any counter
  that counts it by mistake. More stretches only add more packets.
- vwctrl.c: reset values with the window enabled or disabled, LOW in
  {0, 1, 0xfff}, HIGH in {0, 8, 9, 511, 0xfff}. With LOW = 0 and 1, a
  window up to HIGH = 8 is the smallest that holds the DMA, and HIGH = 0
  is too small. 511 is the whole 2MB VTCM, and 0xfff is the maximum.
- `MC_Hsv39`: `data` at 1MB, 6MB and 4095MB. 6MB lies in the second 4MB
  page but in the first 16MB page, and 4095MB is the top of the 32-bit
  space. The seven page sizes up to 16G are all tested.
- `MC_Algorithms`, the framelimit.c and checkforpriv.c parts: framelimit.c has no inputs: its three tests are modelled as main runs
  them. For checkforpriv.c, 0, 1 or 2 privileged library instructions
  follow the probes. One reaches the early return, and a second one
  runs in the kernel mode the early return left.
- `MC_Algorithms`, the udma.c part: udma.c has no inputs. Both sizes are
  run, as main runs them.
- `MC_SwiWait`: 3 wait threads (the code's WAIT_THREAD_COUNT is 3) and 2 of
  the 8 lines; line 0 is the one the teardown raises.
- `ProbeTests`, part thread_common.c: thread ids 1..3 and the launch programs of
  `lock_timer_test.c` (3 workers), `swi_wait.c` (3 threads), `k0lock-syscfg.c`
  and `pmu.c`.
- `MC_ProbeTests`: swi.c with MAX_THREADS = 5 (four ring threads, so the ring
  wraps past three neighbours); swi2.c with 2 lines, one task thread, 2
  raises per iteration and 2 iterations, so a later iteration's counts start
  from a clear.
  k0lock.c with 2 threads per batch and 3 rounds each
  (`work` is 6, so 3 batches run), and tlblock.c the same with its 5 rounds; 3 threads per batch did not finish in
  half an hour. test-thread.c with THCNT = 4 instead of 8: four threads
  contend for Mx and the non-atomic increment, which is what the
  properties are about. `HwThreads` is 0..3, a target without tid THCNT;
  `MC_TestThread_Assert` adds tid 4.

## 6. Fairness

The threads are parallel hardware threads (spec §5). Every thread and every
controller or main is weakly fair, and each raised line is weakly fair to be
taken while some thread can take it. Strong fairness is used where an
action is only intermittently enabled and the hardware still makes progress:
- `SwiWait`: a wait thread is disabled while an interrupt is pending for
  it. The handler returns to the interrupted code, which runs before main's
  next raise, so the thread does step.
- `SwiCycle`: thread 1 turns the global enable off and on forever while the
  test runs. A pending line is taken at an enabled packet.
- `K0LockProbe`: a thread stalled in `k0lock`, and main's `k0lock`, get the
  lock that is freed again and again.
- `TestThread`: a thread retrying `trylockMutex` in its pause loop gets `Mx`.

In `ProbeTests` each program's fairness is assumed only in its own part.
An enabled action of a program that is frozen in another part does not
have to be taken.

The lock of `LockTimerTest` is not assumed to be fair: no property there
needs a blocked worker to get the lock eventually.

## 7. Not modelled

- The register-level MMU/TLB, VTCM, floating-point, opcode, register and
  semihosted file-I/O probes (framelimit.c, checkforpriv.c, udma.c and
  the entry construction of hsv39.h aside). Each is a sequential
  scenario over simulator state that is not in `src/`.
- mmu_page_size.c: each `test_page_size` maps one page with `add_trans`,
  probes it with `tlbp` and loads and stores through the alias. Every
  outcome it checks is the simulated MMU's. Its only arithmetic, the
  alias offset (5MB for pages up to 1MB, otherwise the page size), cannot
  put the alias inside the page, so no check of it is left to model.
- In hsv39_tlb.c: the `tlbp64` lookups, the accesses and calls through the
  new VA, `test_tlbp` and `test_tlbr`. Their outcome is the simulated
  MMU's. `HSV39_PAGE_64G`: the size the code computes for it, 2^52 bytes,
  does not fit TLC's integers even in MB.
- gregs.c is a list of write/read checks of guest registers whose results
  are the hardware's. It checks `g12` twice (lines 51-52) and never
  checks `g13`.
- float_excp.c: whether the handler's `inc_elr(4)` resumes right after
  the faulting packet or skips the next instruction depends on the
  compiled layout of `gen_sfrecipa_exception`. The test expects ELR at
  `pre_exception_pc + 12`, while the comment says ELR points after the
  packet. Without the binary, neither can be modelled faithfully.
- The PMU's counting is the hardware's. It is modelled as `pmu.c` expects it, not checked.
- In vwctrl.c: the uninitialised `offsets[]` of `test_scatter` (the access
  is taken at the region start), and `do_coredump` (no other cause is
  raised).
- `thread_scheduling.c`: it measures how the simulator schedules threads.
- `k0locklock.c` and `tlblocklock.c`: a thread locks twice; what that does
  is the hardware's behaviour. The syscfg toggling loop of
  `k0lock-syscfg.c`. Their launch sequences are in `StartBarrier`.
- `init_clock` and the `cfgtable` reads, which are hardware set-up.
- `assert(work)` after `malloc` in `create_waiting_thread`
  (`thread_common.c:31`): the abort on an allocation failure. The barrier
  protocol starts after it, and `StartBarrier` assumes the allocation
  succeeds.
- The SDK stubs.
