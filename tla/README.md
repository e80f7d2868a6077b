# A TLA+ model of lamlock, vdso-rng and punyenc

This directory holds TLA+ modules, TLC configurations and TLAPS proofs about
the three crates under `src/crates`. It says what each part of the program
keeps as state and does, what is modelled and how, what the checks and the
proofs show, and what is left.

## 1. The system

| Component | Files | State | Operations |
|---|---|---|---|
| Raw lock | `lamlock/src/rawlock.rs` | `status` (UNLOCKED, LOCKED, POISONED), `tail` | `has_tail`, `swap_tail`, `try_close`, `try_acquire`, `acquire`, `poison`, `release` |
| Queue node | `lamlock/src/node.rs` | in the caller's stack frame: futex word, `next`, function pointer | `attach`, `wait`, `wake_as_*`, `load_next`, `store_next` |
| Futex | `lamlock/src/futex.rs` | one word; sleepers in the kernel | `wait`, `notify`, `wake` |
| Guard and bomb | `lamlock/src/bomb.rs` | the raw lock; the node an unwinding combiner is at | `UnlockGuard::drop`, `Bomb::{new, reset, diffuse, drop}` |
| Nonpoison lock | `lamlock/src/nonpoison.rs`, `panic.rs` | the data; closure, `started` and `result` of each call | `run`, `try_run`, `run_slowly`, `execute`, `get_mut` |
| Poison lock | `lamlock/src/poison.rs` | a flag accessed inside the closures | `poison`, `try_unpoison`, `run`, `get_mut` |
| State pool | `vdso-rng/src/pool.rs`, `lib.rs`, `utils.rs` | list of mapped blocks (behind a poison lock), lock-free free list, states out on loan | `get`, `grow`, `recycle`, `Drop` |
| Fill loop | `vdso-rng/src/lib.rs` | what is left of the buffer, `inflight` | `try_fill`, `fill` |
| Pool configuration | `vdso-rng/src/config.rs`, `utils.rs` | none | `Config::new`, `guess_cpu_count` |
| Symbol lookup | `vdso-rng/src/auxv.rs`, `vdso.rs` | none (reads the process image) | `get_function_and_page_size` and what it calls |
| Punycode encoder | `punyenc/src/lib.rs` | none (locals of one call) | `encode`, `push_delta`, `adapt` |

How they interact. `nonpoison::Lock::run` takes the raw lock directly when the
queue has no tail and the lock is free (the fast path). Otherwise it builds a
node on its own stack and swaps it into the tail. The first thread in the queue
acquires the raw lock and becomes the *combiner*: it runs the closures of the
nodes behind it, telling each owner DONE, until it finds no successor. It then
closes the queue (`try_close`) and releases the raw lock; or, if a newcomer has
slipped in, waits for the newcomer's link and hands the raw lock over with the
message HEAD. Waiters spin, then sleep on the futex in their node. With the
feature `std` a panic of a closure is caught, stored in the node and raised by
the requester. Without it the panic unwinds out of `attach` on the combiner and
the *bomb* disables the raw lock and cancels the queue. `poison::Lock` wraps
closures with a flag; `vdso_rng::Pool` maps new blocks inside
`poison::Lock::run` (built without `std`) and hands states out through a
concurrent free list; `LocalState` rents one state and gives it to the vDSO
function found by the symbol lookup.

What is hard. Stack nodes that other threads touch; a futex word shared by two
parties whose last access frees the memory; a lock that changes hands by a
message rather than by a store to the lock word; two ways to acquire (fast path
and queue); newcomers that swap the tail before they link; an uncaught panic in
somebody else's closure; new calls that attach while the bomb drains the queue.
`PROJECT.json` lists these under `hazards` with their lines and the properties
that cover them.

What makes each component correct:

- *queue lock*: exclusive access; every closure run or dropped exactly once;
  each caller gets its own outcome; service in arrival order; no access to a
  dead stack node; no lost message or wake-up; a free lock when nobody calls;
  every waiter told, every task settled.
- *poison flag*: between a panic and the next successful recovery no ordinary
  task runs; recovery only on a poisoned lock; the flag alone decides, except
  that a disabled queue is never recovered.
- *pool*: no state rented twice; states of mapped blocks = free + rented; a
  failed mapping is reported, not handed out; `Drop` unmaps what `grow` mapped,
  unless its debug assertion stops it.
- *fill*: on success every byte is filled, once and in order; only real errors
  return; no two calls are inside the vDSO function with one state.
- *configuration*: states lie inside their page and block and do not overlap.
- *symbol lookup*: returns the symbol with the wanted name and version or none.
- *encoder*: the output of RFC 3492's encoder, decodable to the input.

## 2. The modules

| Module | What it is |
|---|---|
| `FlatCombining` | the queue lock, one step per shared memory access or futex call; properties; wrong variants of single steps |
| `SerialTasks` | the abstract specification: tasks run one at a time and their callers get the outcome |
| `FlatCombiningInv` | the inductive invariant `IInv` and its named parts |
| `FlatCombiningProof` | the proofs about the queue, the raw lock and the messages |
| `FlatCombiningTaskProof` | the proofs about the closures, and that the lock implements `SerialTasks` |
| `PoisonMonitor` | the abstract specification of `poison::Lock`: a flag and atomic requests |
| `PoisonLock` | `FlatCombining` with the wrappers of `run`, `poison` and `try_unpoison` as its closures |
| `PoisonLockProof` | the proofs about its flag |
| `PoisonMonitorProof` | the proof that it implements `PoisonMonitor` |
| `Config` | `Config::new`, `guess_cpu_count` and the layout of a block |
| `Pool` | the pool of vDSO states over the lock (an instance of `SerialTasks`), sized by `Config` |
| `PoolProof` | the proofs about it and about the layout |
| `VdsoLookup` | the search for the vDSO function in the auxiliary vector and the ELF image, with a declarative reference |
| `Fill` | `fill` and `try_fill` on one state, interrupted by signal handlers |
| `VdsoRng` | the composition of the two: `Pool::new`, then calls of `fill` and `try_fill` |
| `VdsoRngProof` | the proofs about the fill loop in it |
| `VdsoLookupProof` | the proofs about the lookup |
| `Bootstring` | the decoder of RFC 3492: what an encoded string means |
| `Punyenc` | the encoder, one step per round of its loops, with its inductive invariant |
| `PunyencProof` | the proofs about it |
| `MCFlatCombining`, `MCPoisonLock`, `MCPool`, `MCVdsoRng`, `MCPunyenc` | the TLC instances (symmetry, affinity masks, images and vectors, input strings) |

`PoisonLock` extends `FlatCombining`: its steps are those of the queue with the
flag conjoined. `Pool` uses only `SerialTasks`, which `FlatCombining` is proved
to implement, and extends `Config`. `VdsoRng` extends `VdsoLookup` and `Fill`:
no call of `fill` is made before the lookup has succeeded. What lies between the
two in the program (sizing the pool, renting a state) is `Config` and `Pool`.
`Punyenc` stands alone.

### FlatCombining

State. `status` and `tail` are `RawLock`'s fields; `futex` and `next` are the
fields of the node in each thread's frame; `started` and `result` those of
`CombinedNode`. A thread has one call in progress at a time and its frame is
reused by its next call, so a node is named by its thread; `PopFrame` stands for
the end of `run_slowly`, after which a stale reference would meet the frame of
another call. `prev`, `cursor`, `succ` are locals of `attach`; `atom` is the
bomb's pointer; `wakeAt` is the raw address that `Futex::notify` keeps between
the swap and FUTEX_WAKE. `closure` follows the `FnOnce` (`held`, `moved`;
`twice` is the double move or drop that must not happen). `queue`, `verdict` are
history variables: no guard reads them. `outcome` is what `run()` gave back
(`cancelled` for the `LockPoisoned` of `try_run`); inside `Bomb::drop` it also
tells whether the bomb fired by unwinding or by the `?` of `raw.acquire()`, the
return address in the program.

Steps. The labels of `pc` follow the code: `check`, `tryAcquire`, `fast`,
`unlock` are `try_run`; `enqueue` is the construction of the node and the swap
(the construction touches nothing shared); `link` to `woken` are the arm of a
waiter in `attach`, `Node::wait` and `Futex::wait`; `acquire` the arm of the
first thread; `exec`, `run` the body of `execute`; `loadNext`, `finish` the
combining loop; `close`, `last`, `release` and `handoff`, `promote`, `resign`
its two ends; `bomb*` are `Bomb::drop`; `return`, `cancelled`, `unwound` the
ways out of `run_slowly`. A thread that owes a FUTEX_WAKE makes that call
before any other step (`At`). The bounded spin is one step, `Spin`: a load that
sees WAITING may be the hundredth or an earlier one, and an earlier one changes
nothing. A spin on the raw lock or on a link is a step that is enabled when the
awaited value is there. FUTEX_WAIT compares and blocks in one step, as the
kernel does; `Interrupt` is EINTR or a spurious wake at any time.

Both builds are one module: `Std` is the feature `std`. Without it the value
POISONED exists in `Status` and `Message` and the bomb is armed.

Abstractions. Memory is sequentially consistent: the Acquire/Release orderings
are not modelled. The data and the closures' results are reduced to how the
closure ended. A closure does not call back into the same lock (that deadlocks
by design). The second load in `AwaitSuccessor` and the loads of spin loops that
see nothing new are not separate states. Aborting panics, the prefetch of
`nightly` and the `cfg(miri)` variants are left out. `FutexWake` wakes the
owner of the frame: any other sleeper at a reused address is covered by
`Interrupt`.

### SerialTasks

`Submit`, `Begin`, `End`, `Reply`, `Cancel` of a task; `Begin` requires that
nothing runs and that the executor is not broken. With panic transport the reply
is the outcome of the caller's own closure. Without it a panic may break the
executor for good: pending tasks are cancelled, the panic may surface in the
caller whose thread was combining, and the task that panicked may be told
`cancelled`. `FlatCombining` instantiates it under a refinement mapping
(`TaskPhase`, `TaskReply`, `TaskBroken`) and `ImplementsSerialTasks` is checked
in both builds.

### PoisonLock and PoisonMonitor

`poison::Lock` hands a closure of its own to `nonpoison::Lock::try_run`, the
*wrapper*, which looks at the flag and may invoke the caller's closure. The
wrapper of a request begins where the queue lock moves the closure out
(`TryAcquire` when it succeeds, `ExecBegin`) and ends where the outcome is
recorded (`FastRun`, `ExecEnd`); `Enter*` and `Leave*` are its two halves, with
the caller's closure between them. `request` is the method a thread has called,
`stage` how far its wrapper is, `answer` what the wrapper returned. Every other
step of the queue leaves the flag alone (`QueueStep`). `map_err` turns the
cancellation by the queue into `LockPoisoned` (`PoisonReply`).

`PoisonMonitor` has a flag, and requests that take effect in one step each:
`run` is refused, finishes, or panics and raises the flag; `poison` raises it;
a recovery lowers it if its closure returns true. Refused requests take effect
when their wrapper begins, all others when the caller's closure ends; the
flag that `run` raises around its closure is not yet the monitor's
(`MonitorFlag`). Without panic transport the monitor may be disabled, after
which pending requests are answered `poisoned`.

### Pool

`freelist`, `mmaps` are the fields of `Pool`; `mapped` is the kernel's view;
`rented` the states in live `LocalState`s and `forgotten` those in leaked ones
(`mem::forget` is safe code, so the pool has to live with it). `get` is a pop
without the lock (`Pop`), the submission of the closure (`Run`), its start
(`Enter`), the pop under the lock (`Retry`), `grow` (`Grow`, `GrowFails`, and
`Push` for each state, because others pop meanwhile), the end of the closure
(`Leave`) and of the call (`Return`). `Recycle` is `LocalState::drop`; `Drop` is
`Pool::drop`, enabled when nothing borrows the pool. With `Debug`
(`cfg(debug_assertions)`) it asserts, before the loop of `munmap`, that the free
list held every state of every block; if a leaked `LocalState` is missing it
panics there, the vector of blocks is freed and the blocks stay mapped. A system
call returns -errno; `MmapFailed` is the test in `utils::mmap`. The free list (crossbeam's
`SegQueue`) and `mmap` are external: an atomic FIFO, and an address not in use.
Nothing in the closure panics (running out of memory aborts), so
`PoolPoisoned` has no step. `config` is computed once, by `NewConfig` from the
outcome of `sched_getaffinity`, the size of a state and the page size; a state is
a block with an offset, so that two states share memory exactly if their byte
ranges meet (`Overlap`), and `Fresh` is the address of a new mapping.

### Config

`GuessCpuCount` is the count of the bits that `sched_getaffinity` has set in the
mask, one if the call fails or sets none; `NewConfig` rounds the guess up to whole
pages (a whole page more if it is a multiple already, as the code does);
`Offset` is where the two loops of `grow` put the n-th state of a block. A state larger
than a page gives `states_per_page` = 0, with which `get` would map blocks for ever:
`SizeAssumption` excludes it, as the kernel's parameters do. When the tail of a
page is wasted a block may hold fewer states than there are processors (1023
processors, states of 144 bytes): no code or comment promises otherwise.
`Config::new` ignores the result of its query of the vDSO function; the kernel's
answers this query always, so the parameters are taken as given.

### VdsoLookup

`get_function_and_page_size` as the loops it consists of: `AuxvNew` the copy
by `prctl` into a box of `MaxEntries` entries, `NextEntry`, `NextEhdr`, `EndAuxv`
the scan of the box, `NextShdr`, `EndShdr` that of the section headers
(`symbol_count`), `NextPhdr`, `EndPhdr` that of the program headers, `NextDyn`,
`EndDyn` that of the dynamic section, `NextSymbol`, `NoSymbol` `find_symbol` and
`NextVerdef`, `NoVersion`, `Version` `find_version` in it. Every `?` of the code is
a disjunct that ends the call or the search. A pointer is what the image has at an
address (`Image.mem`), addresses wrap at `Space`, names are members of a string
table. `Lookup` says what should be found without any loop: the wanted symbol of
the image that the last `AT_SYSINFO_EHDR` leads to, with the last `AT_PAGESZ`,
provided that every image on the way has its tables and every earlier symbol of
that name a version. Pointers outside the tables are not modelled: the code
trusts the image that the kernel maps. `IsImage` says with what: no section of
symbols has entries of size zero, dynamic sections and version definitions come to
an end, and an image that has all the tables has symbols and definitions in them.
Which sections, headers, tags and symbols there are, how often and in which order
is left open.

### Fill and VdsoRng

A *frame* is a call of `fill` or `try_fill` on the same state; the first is the
thread's, each further one that of a signal handler that has interrupted the one
below, between any two steps, and runs to its end before the other goes on
(`Runs`). That takes unsafe code, and the debug flag is there to catch it; without
a handler it is the plain loop. `Check` is the `debug_assert!`, `Raise` and `Lower`
the two stores to `inflight`, `Vgetrandom` the call: any number of bytes from
none to all, or an error. `done` is how far `buf` has advanced and `written`
(history) how often each byte was written. The handler catches the panic
of the assertion, and in the thread's own call it never fails.

### Punyenc and Bootstring

Strings are sequences of code points and so is the output; `Digits` and `Adapt`
are `push_delta` and `adapt`. The sorted vector `pairs` with its index is the
set `left` of pairs not yet encoded, of which `First` is the next; the Fenwick
tree (a library) is the set `placed` of the positions that hold a 1, and
`prefix_sum` its count. `EmitBasic` is the code before the loops, `NextValue`
and `EndOfValue` the head and the end of the outer loop, `Occurrence` a round of
the inner one. `Bootstring` defines what a Punycode string means by the decoder
of RFC 3492, with definitions of its own and digit by digit: `Reading(s)` is the
decoder that has read `s` (its code point and place, its text, its bias and the
integer it is in the middle of), and `Decode(s)` the text it holds. Nothing of
`Punyenc` is used there, so the encoder is compared with the standard and not with
itself.

## 3. The runs

The runs of `FlatCombining` use three threads, each of which calls again and again, with every closure
free to return or to panic. Three is the least number with which a combiner, a
waiter it serves and a newcomer meet, and with which a hand-off, a served
predecessor and a fresh call of the first thread overlap. No counter is bounded:
the state space is finite as it is (84 thousand states with `std`, 55 thousand
without, up to symmetry; depth 88 and 89). The proofs remove the bound for the
properties they cover. The safety runs use symmetry over threads; the liveness
runs do not.

| Run | Shows |
|---|---|
| `std_safety` | with panic transport: `MutualExclusion`, `InArrivalOrder`, `NoLostWakeup`, `QuiescentIsFree`, `MessageStands`, and that the lock implements `SerialTasks` |
| `nostd_safety` | without: `IInv`, `NoDangling`, `ClosureOnce`, `OutcomeIsOwn` under cancellation, `NoRunAfterPoison`, `PoisonIsPermanent`, and `SerialTasks` with a breakable executor |
| `std_task_settles` | `TaskSettles`: every submitted closure is consumed, whatever other clients do |
| `std_call_returns` | `CallReturns`: a call returns unless others enqueue for ever |
| `nostd_waiter_is_told` | `WaiterIsTold`: also while the bomb drains the queue |
| `nostd_attach` | expected violation of `NewCallsStayOut`: see below |
| `poison_methods` | with `std`, two threads and all three methods: `FlagUpInUser` (the flag is up while a caller's closure runs, so unwinding alone leaves the lock poisoned); the lock implements `PoisonMonitor` |
| `poison_nostd` | without, three threads: `DisabledIsPoisoned` (the two causes of `LockPoisoned` never contradict each other); the lock implements `PoisonMonitor` under cancellation |
| `pool_safety` | three threads, one leak, blocks sized for one and for three processors: `TypeOK`, `NoSharing`, `Conservation`, `RentedIsMapped`, `GrowsWithDemand`, `DropFindsAll`, `DropUnmapsUnlessLeaked` (a debug build: the drop of a pool with a leaked state leaves its blocks mapped, any other unmaps them all), and `GetReturns`: although others take what the closure has pushed, a `get` returns, unless other threads submit closures for ever |
| `pool_mmap_fails` | expected violation of `RentedIsMapped`: see below |
| `vdso_rng` | 108 images and 4891 auxiliary vectors, then fills of up to three bytes with a handler interrupting anywhere: `TypeOK` (the iterators stay in the tables), `LookupCorrect`, `NoReentrancy`, `FlagTracksCall`, `FilledInOrder`, `FillIsWhole`, `PoolNewReturns`, `FillReturns` |
| `punyenc` | all 55987 strings of up to six of six code points: `PrefixDecodes` (at every moment the output is Punycode for what has been encoded so far), `NoUnderflow`, `DeltaFits`, and the inductive invariant `IInv`, of which `PrefixDecodes` is a part |

Deadlock is checked in the runs of the locks: some thread can always call or go
on. A dropped pool, a pool that could not be made and a finished encoder stop, so
theirs do not check it. A property of the queue lock that holds for the same reason
in both builds is checked in the build where it is harder; the proofs are for both.

Bounds. `poison_methods` has two threads because three with the refinement take
several minutes and add only longer queues: a delegated panic, a rejected
successor and a recovery in one batch need two callers who call again;
`poison_nostd` has three, so that a bomb cancels a waiter while another
request arrives. In the pool a thread keeps one state at a time (`MaxRented`)
and at most one is leaked (`MaxForgets`). States of two bytes on pages of five leave
a byte over, as real ones do; with three threads a grower finds the list empty
again when the two others have popped both new states, which is the race the
closure's loop is for. The two affinity masks make blocks of one and of two pages. The bound of
`GrowsWithDemand` is attained. `Errno = {1}` in the passing runs is the one error
that `utils::mmap` recognises. `Debug = TRUE` has both ends of `Drop`; a release build
has one of them, and the theorem is for both. In `vdso_rng` the box has three entries: vectors of
up to four, of everything that matters and something that does not, overflow it
with and without an `AT_NULL`. The images are all symbol tables of two symbols
with two names and five kinds of version, and one image for each thing that can be missing
or misplaced. `Depth = 2` is one handler inside a call: a handler inside a
handler meets the same flag. Three bytes allow two short reads. The alphabet of `punyenc` holds the delimiter, a
letter, two adjacent values at the lower limit, one further on and the largest
code point, so that gaps of zero, one and about a million values and every pattern of
repetitions up to length six occur.

Fairness. `FairSpec` has weak fairness of `Step(t)` for each thread: the
scheduler does not abandon a thread that can run, and closures end. There is
none for `Call` (nobody has to call) and none for `Interrupt` (the kernel owes
no spurious wake, so a lost wake-up is not masked by one). Weak fairness is
enough for `acquire`: `try_run` tests `has_tail` first, so once the head of the
queue waits for the raw lock only the calls already past that test can overtake
it. `CallReturns` needs its exception: the loop of `attach` runs as long as it
finds a successor, and callers that re-submit at once keep the combiner busy.

In `Pool`, `FairSpec` has weak fairness of the steps of a thread inside `get`
and strong fairness of `Enter`: that a submitted closure is executed, whatever
others do, is `TaskSettles`, checked of `FlatCombining` (where no closure panics, as
here, its two builds do not differ). That `mmaps.run` returns once its closure has
ended the lock promises only with the exception of `CallReturns`: a `get` that
became the combiner runs the closures of other `get`s as long as they come, which
needs no growth of the pool, only a list that is empty again and again. So
`Return` is weakly fair *or* others submit closures for ever (`FedForEver`), and
`GetReturns` has the same exception; without it TLC finds that starvation. Every
step of a closure, the retry included, is fair without exception. Nobody has to
rent or give back.

In `VdsoRng`, `FairSpec` has weak fairness of the lookup, strong fairness of each
step of a call, because a frame stands still while a handler runs and handlers
may come again and again, and strong fairness of `Progress`: the vDSO function
fills something, or fails for good, if it is called often enough. Without the last
`FillReturns` is false, and rightly: `fill` retries EAGAIN for ever.

Two findings. The comment at `bomb.rs:50` expects that "New nodes will not attach
to the tail" once the lock is poisoned. `try_run` looks at the status only if
there is no tail, so a call made while the bomb drains the queue attaches to
it. It is cancelled like the rest (`nostd_waiter_is_told`, `nostd_safety`), but
the end of the drain depends on the callers, not on the poison.

`utils::mmap` (`utils.rs:42`) compares the result of a raw system call with -1,
the convention of the C library; the raw call returns -errno. A mapping that
fails with ENOMEM yields the address -12, `grow` records it as a block, and
`get` hands out states in it instead of `AllocationFailure`
(`pool_mmap_fails`).

Mutants. For every property of a passing run `PROJECT.json` names a wrong variant
of one step, defined next to the right one (an unguarded fast
path, a plain store where the code compares and swaps, a message sent before
the successor is read, a bomb left behind, and so on), with which TLC finds the
property violated.

## 4. The proofs

`FlatCombiningProof` proves, for every set of threads, every value of `Null`
outside it and both values of `Std`:

| Theorem | Statement |
|---|---|
| `InductiveInvariant` | `Spec => []IInv` |
| `TypeCorrect` | `Spec => []TypeOK` |
| `Exclusion` | `Spec => []MutualExclusion` |
| `ServiceOrder` | `Spec => []InArrivalOrder` |
| `NodesLive` | `Spec => []NoDangling` |
| `PoisonStops` | `Spec => []NoRunAfterPoison` |
| `MessagesStand` | `Spec => MessageStands` |
| `PoisonStays` | `Spec => PoisonIsPermanent` |

The only assumptions are `NullAssumption` (null is no thread) and
`StdAssumption`; the set of threads need not be finite.

The argument. Mutual exclusion is not inductive: that the promoted waiter may
run depends on nobody else holding the lock, which depends on the message HEAD
being sent only by a combiner to its successor, which depends on the linked list
being what the combiner thinks it is. `IInv` therefore says who *drives* the
queue (the first thread while it acquires; a combiner; a promoted waiter, from
the moment the message is stored; a bomb) and who *holds* the raw lock, that
each is unique (`DriverInv`, `LockInv`), that the driver's node is the front of
the queue and that all others in it wait (`MemberInv`), that the tail and the
links agree with the queue except for links still to be stored (`LinkInv`), that
a successor already loaded is the second of the queue (`SuccInv`), that a node
taken out of the queue and not yet told belongs to one thread (`ClaimInv`), and
that results, bomb and futex word match (`SlotInv`, `BombInv`, `FutexInv`).

Those parts lean on each other, so they are proved together, one lemma per
action (`CallStep`, ..., `UnwoundStep`); `AppendFacts`, `DequeueFacts`,
`DequeueLinks` say what joining and leaving do to the queue, and `DriverView`
and `Detached` what the invariant gives to the thread at the front. The theorems
follow by `PTL` from `InitIInv`, `NextIInv` and the implication of each property.

`FlatCombiningTaskProof` builds on `IInv` and proves under the same assumptions:

| Theorem | Statement |
|---|---|
| `TaskInvariant` | `Spec => []CInv` |
| `ClosuresOnce` | `Spec => []ClosureOnce` |
| `OutcomesOwn` | `Spec => []OutcomeIsOwn` |
| `WakeupsKept` | `Spec => []NoLostWakeup` |
| `LockLeftFree` | `Spec => []QuiescentIsFree` |
| `Refinement` | `Spec => ImplementsSerialTasks` |

`IInv` leaves out what travels through the queue; `CInv` adds it. `TaskInv` ties
the closure, its verdict and the stored result to each other at every step of a
call: a closure is held until `started` is set and moved from there on, which
makes the drop in the error path of `run_slowly` right. `FreshInv` says that
nothing behind the driver has begun, without which a hand-off could execute a
closure twice. `CancelInv` says that POISONED is stored only in nodes whose
closure has not completed, although the bomb does not look at that; it follows
from where the bomb starts. `HolderInv` gives a locked raw lock an owner, hence
`QuiescentIsFree`. `NoLostWakeup` is inductive by itself. For the refinement
each action has a lemma that names the step of `SerialTasks` it maps to
(`TryAcquireSerial`, ..., `UnwoundSerial`), and the 25 steps that callers do not see
are treated together (`UnseenStep`).

`PoisonLockProof` proves, for every set of threads, every set of methods and in
both builds:

| Theorem | Statement |
|---|---|
| `FlagInvariant` | `PSpec => [](IInv /\ PInv)` |
| `PTypeCorrect` | `PSpec => []PTypeOK` |
| `FlagUp` | `PSpec => []FlagUpInUser` |
| `DisabledPoisoned` | `PSpec => []DisabledIsPoisoned` |

A step of the poison lock is a step of the queue lock, so `IInv` holds in it.
`FlagUpInUser` needs it: lowering the flag at the end of one closure is right
only because no other closure is under way, and the flag that a panic leaves up
stays up until the bomb has stored POISONED only because nobody executes beside
a bomb (`Alone`, from `LockInv`). `PInv` says that a caller's closure belongs to
the wrapper an executing thread is in (`UserInv`) and that the flag is up when
a bomb goes off and after it (`BombFlagInv`).

`PoisonMonitorProof` proves `MonitorRefinement`, `PSpec => ImplementsMonitor`,
under the same assumptions. It does not look at the queue again: each step below the wrappers
is a step of `SerialTasks` or unseen there, so the monitor's variables are written
with the phases of the task (`Mapping`) and there is one lemma for each step of the
serial executor (`SubmitMonitor`, `BeginMonitor`, `EndMonitor`, `ReplyMonitor`,
`RefuseMonitor`, `StutterMonitor`). `WrapInv` says how far a wrapper is in each phase.
A run that is under way has raised the flag although the monitor has not; that the two
agree again when it ends needs that no other wrapper looks at the flag
meanwhile, which is `Alone` again.

`PunyencProof` proves, for every set of input strings:

| Theorem | Statement |
|---|---|
| `EncoderInvariant` | `Spec => []IInv` |
| `Unwrapped` | `Spec => []NoUnderflow` |
| `DeltaBounded` | `Spec => []DeltaFits` |
| `OutputDecodes` | `Spec => []PrefixDecodes` |

The only assumption is that inputs are sequences of code points. The invariant
says that `handled` and `placedBelowM` are the sizes of the sets they stand for,
that `prevC` is a prefix count no later occurrence of the value falls behind,
that all pairs left lie at or above `n` and outside the tree, and that `delta`
is at most the number of decoder states of the values already passed. The
last gives `DeltaFits`: with fewer than 2^43 code points no delta reaches 2^64,
although TLC's integers are too narrow to show the overflow itself.

`OutputDecodes` is that `encode` is right, for every input: a decoder of RFC 3492 that
reads the output holds, at every moment, what is encoded so far, and the input
when `encode` returns. It has three parts.

*The deltas mean the input.* A decoder with `size` places has `size` states for each
value, so a state `(n, i)` is the number `n * size + i`; the decoder is always `delta`
short of the state the encoder has reached, which is the first place of `n`
between the values and the place behind the last occurrence within a value
(`DecoderInv`). The skipped values, the prefix counts and the carry are each what
keeps that equation. `Landing` turns it into the quotient and the remainder
the decoder takes; `OneMore` says that a code point inserted behind those of the
positions on its left is in its place, for which the group must lie to the left
of the next occurrence (`GroupInv`). It rests on `RankBijection`: the ranks of a
set of positions are the numbers up to its size.

*The digits mean the delta.* `DeltaReads`: a decoder that waits for an integer under
the bias of `encode` reads back what `push_delta` wrote. Each digit but the last is
at or above the threshold of its round, the last one below it, and what the
digits add up to is what the rounds of `push_delta` leave (`Rest`, `Accumulated`).
`ReadNext` says that what is appended is read after what stands there
before, for which no digit may be a hyphen; `ReadLiteral` and `ReadNothing`
that the basic prefix is taken as it is, whatever hyphens it contains, and no
hyphen is written when it is empty.

*The biases agree.* `SameBias`: the two adapt alike, and they agree which integer
is the first one, which the adaptation treats apart.

The digits, the adaptation and the decoder are recursive functions, and the
induction theorems of the library cannot be used (they take an operator as a parameter).
The proofs argue by least counterexample: `LeastNumber`, which speaks of sets. So a
recursive function exists (`ShrunkExists`, `ScaledExists`, `DigitsExists`,
`AfterExists`): were there a least bound up to which none does, the function below
it would extend to it. Therefore the one that is defined satisfies its equation
(`NextBiasIs`, `AdaptIs`, `DigitsIs`, `ReadingIs`), and of the arguments at
which a claim about it fails there would be a least one (`SameBias`,
`RowsReadBack`, `ReadNext`).

`PoolProof` proves, for every set of threads, affinity mask, size of state and page
(a state no larger than a page), number of LocalStates and of leaks, and for debug
and release builds:

| Theorem | Statement |
|---|---|
| `InductiveInvariant` | `FailuresAreSeen => (Spec => []IInv)` |
| `TypeCorrect` | `FailuresAreSeen => (Spec => []TypeOK)` |
| `NotShared` | `FailuresAreSeen => (Spec => []NoSharing)` |
| `NoneLost` | `FailuresAreSeen => (Spec => []Conservation)` |
| `Mapped` | `FailuresAreSeen => (Spec => []RentedIsMapped)` |
| `AllReturned` | `FailuresAreSeen => (Spec => DropFindsAll)` |
| `UnmappedUnlessLeaked` | `FailuresAreSeen => (Spec => []DropUnmapsUnlessLeaked)` |
| `Bounded` | `FailuresAreSeen /\ IsFiniteSet(Thread) => (Spec => []GrowsWithDemand)` |

`FailuresAreSeen` says that every error in `Errno` is one that `utils::mmap` takes
for a failure, as the code expects. It is true of `Errno = {1}` and of `{}`, and
false of a kernel that returns ENOMEM: `pool_mmap_fails` shows what happens then.

The argument has two halves. The layout: `NewConfigGood` says that the states of a
page fit on it, `Fits` that every offset lies on one page of its block, `Apart` that two
offsets are at least a state apart, from `Quotient` and `QuotientUnique`.
The places: `IInv` says that a state is free once, rented by one thread, leaked,
or to be pushed once by one thread (`FreeInv`, `RentedInv`, `TodoInv`), and
that until the drop the recorded blocks are the mapped ones (`BlockInv`). `NoSharing` does not follow by
itself: a grower pushes state by state while others pop, so the states that are
still to be pushed belong in the invariant. `CountInv` adds that the blocks hold
`PerBlock * Len(mmaps)` states by cardinality, which `AllReturned` compares with
the list; so the debug assertion fails exactly after a leak (`DropRemains`), which is
`UnmappedUnlessLeaked`. For `Bounded`, whoever finds the list empty under the lock knows that every
state is rented or leaked (`FoundEmpty`); `UnionBound` counts them by a surjection
from threads and slots, one short because the finder has a slot left; `LockInv` says that nobody else maps a block in between.

`VdsoRngProof` proves, for every depth of interruption, length of the buffer, set of
fatal errors and both kinds of build:

| Theorem | Statement |
|---|---|
| `InductiveInvariant` | `Spec => []IInv` |
| `OneInside` | `Spec => []NoReentrancy` |
| `FlagExact` | `Spec => []FlagTracksCall` |
| `InOrder` | `Spec => []FilledInOrder` |
| `WholeOrFatal` | `Spec => []FillIsWhole` |

The test of the flag and its setting are two steps, so `NoReentrancy` is not
inductive: it needs that frames nest as a stack (`StackInv`), so that a handler
that comes between the two has lowered the flag again before the other goes on, and
that above a frame inside the function nobody gets past the test (`GuardInv`). `ResultOK`
bounds what the function may return by what is left of the buffer.

`VdsoLookupProof` proves, for every auxiliary vector, image, target, size of the box
and of the address space:

| Theorem | Statement |
|---|---|
| `LookupInvariant` | `Spec => []LookupIInv` |
| `FoundIsProvided` | `Spec => []LookupCorrect` |
| `TypesHold` | `Spec => []TypeOK` |

The assumptions are `ElfAssumption` and `VectorsAssumption` (every image is one in the
sense of `IsImage`, and a vector leads to images or to null), `EntriesAssumption`
and `NoneAssumption` (None is not a number). TLC evaluates them on the images of the
run `vdso_rng`.

`LookupCorrect` speaks of the end of the call only, so the invariant has a part for each
loop, which says what the entries *before* its index provide (`AuxvInv`, `ShdrInv`,
`PhdrInv`, `DynInv`, `SymInv`, `VerInv`), and a part for what the loops that have
ended have found (`EhdrInv`, `CountInv`, `LoadedInv`, `TableInv`); a nested loop keeps
those of the loops around it. "The last one counts" becomes `BeforeNext`: an
index that is in the set is the last member before the next index. "The
first one counts" becomes that nothing before the index qualifies (`FirstIs`,
`NotProvidedBefore`); `VersionsOf` says that the first definition with a symbol's index
decides its version, so that a nameless one ends the search.

Every invariant and action property that a passing run checks is proved. Only
model-checked: the liveness properties, `TaskSettles`, `WaiterIsTold`,
`CallReturns`, `GetReturns`, `PoolNewReturns` and `FillReturns`, which TLAPS cannot
treat.

## 5. The plan

1. *Done*: `FlatCombining`, its abstract specification, runs and first theorems.
2. *Done*: `PoisonLock` with `PoisonMonitor`, runs and theorems.
3. *Done*: `Config` and `Pool`, runs and theorems.
4. *Done*: `Punyenc` with `Bootstring`, run and theorems.
5. *Done*: `VdsoLookup`, `Fill` and `VdsoRng`, run, and the theorems of the fill loop.
6. *Done*: the theorems about the closures and the two refinements.
7. *Done*: `LookupCorrect`, for any image and any vector.
8. *Done*: what `encode` returns decodes to its input, for any input.

## 6. Not modelled

- Weak memory orderings: TLA+ has interleavings; the crate's pairing of Release
  stores and Acquire loads is taken as given.
- `vdso_miri.rs` and other `cfg(miri)` stand-ins, benchmarks, `Display`
  implementations: no behaviour of the shipped program.
- The vDSO function and the kernel beyond what the callers see of them, and
  pointers in an image that lead outside its tables.
- The arithmetic of debug builds: the lookup adds addresses that may wrap, which a
  debug build turns into a panic; the release arithmetic is modelled (the debug
  assertions of the pool and of the fill loop are modelled, by `Debug`). A state larger than a
  page, a state or a page of size zero.
- A `LocalState` that is moved to another thread: it is still rented once, and the
  pool does not know by whom.
