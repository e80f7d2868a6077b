-------------------------------- MODULE Pool --------------------------------
(***************************************************************************)
(* vdso-rng: the pool of opaque vDSO states that LocalStates are rented    *)
(* from.  States that nobody rents are in a concurrent FIFO, popped and    *)
(* pushed without a lock.  A thread that finds it empty maps a new block   *)
(* of states, sized by Config, in a closure given to a Lock<Vec<Ptr>>.     *)
(*                                                                         *)
(* The lock is SerialTasks, which FlatCombining implements; lamlock is     *)
(* built without std here.  Nothing in the closure panics, so neither the  *)
(* poison flag nor PoolPoisoned comes into play.                           *)
(***************************************************************************)
EXTENDS Config, Sequences, FiniteSets

CONSTANTS
  Thread,      \* the threads that share the pool
  Affinity,    \* <<result, bits set>> of the sched_getaffinity of Pool::new
  StateSize,   \* params.size_of_opaque_states
  PageSizes,   \* the page sizes that the auxiliary vector may give
  MaxRented,   \* how many LocalStates a thread keeps at a time
  MaxForgets,  \* how many LocalStates are leaked (mem::forget) altogether
  Errno,       \* the errors that mmap may return
  Debug        \* cfg(debug_assertions)

ASSUME AffinityAssumption == Affinity \subseteq Int \X Nat
ASSUME SizeAssumption     == StateSize \in Nat \ {0} /\ PageSizes \subseteq Nat
                               /\ \A page \in PageSizes : StateSize <= page
ASSUME ClientAssumption   == MaxRented \in Nat \ {0} /\ MaxForgets \in Nat
ASSUME ErrnoAssumption    == Errno \subseteq 1..4095
ASSUME DebugAssumption    == Debug \in BOOLEAN

VARIABLES
  config,     \* Pool.config
  freelist,   \* Pool.freelist
  mmaps,      \* Pool.mmaps: the addresses of the blocks
  mapped,     \* the blocks that the kernel has mapped for the pool
  rented,     \* the states in each thread's LocalStates
  forgotten,  \* the states in LocalStates that were leaked
  pc,         \* where each thread is in Pool::get
  todo,       \* grow: the states of the new block that are still to be pushed
  failed,     \* whether the last get of each thread returned AllocationFailure
  dropped,    \* the pool has been dropped
  phase, reply, broken  \* the lock (SerialTasks)

lockVars == <<phase, reply, broken>>
poolVars == <<config, freelist, mmaps, mapped>>
vars == <<poolVars, rented, forgotten, pc, todo, failed, dropped, lockVars>>

Lock == INSTANCE SerialTasks WITH Transport <- FALSE

\* A block is named by its address, a state by its block and its offset in it.
PerBlock  == StatesPerBlock(config)
States(b) == {<<b, Offset(config, i)>> : i \in 1..PerBlock}

\* Pool::new: the configuration is computed once, nothing is mapped yet.
Init ==
  /\ \E a \in Affinity, page \in PageSizes :
       config = NewConfig(GuessCpuCount(a[1], a[2]), StateSize, page)
  /\ freelist = <<>> /\ mmaps = <<>> /\ mapped = {}
  /\ rented = [t \in Thread |-> {}] /\ forgotten = {}
  /\ pc     = [t \in Thread |-> "idle"]
  /\ todo   = [t \in Thread |-> <<>>]
  /\ failed = [t \in Thread |-> FALSE]
  /\ dropped = FALSE
  /\ Lock!Init

Goto(t, l) == pc' = [pc EXCEPT ![t] = l]

\* freelist.pop() succeeded: the state is t's.
Take(t) ==
  /\ rented'   = [rented EXCEPT ![t] = @ \cup {Head(freelist)}]
  /\ freelist' = Tail(freelist)

---------------------------------------------------------------------------
(* LocalState::new and Pool::get *)

\* LocalState::new(&pool), while the pool is alive.
New(t) ==
  /\ pc[t] = "idle" /\ ~dropped
  /\ Cardinality(rented[t]) < MaxRented
  /\ Goto(t, "pop")
  /\ failed' = [failed EXCEPT ![t] = FALSE]
  /\ UNCHANGED <<poolVars, rented, forgotten, todo, dropped, lockVars>>

\* The first pop is made without the lock.
Pop(t) ==
  /\ pc[t] = "pop" /\ freelist # <<>>
  /\ Take(t)
  /\ Goto(t, "idle")
  /\ UNCHANGED <<config, mmaps, mapped, forgotten, todo, failed, dropped, lockVars>>

\* mmaps.run(closure)
Run(t) ==
  /\ pc[t] = "pop" /\ freelist = <<>>
  /\ Lock!Submit(t)
  /\ Goto(t, "wait")
  /\ UNCHANGED <<poolVars, rented, forgotten, todo, failed, dropped>>

\* The closure begins, on whatever thread.
Enter(t) ==
  /\ pc[t] = "wait"
  /\ Lock!Begin(t)
  /\ Goto(t, "retry")
  /\ UNCHANGED <<poolVars, rented, forgotten, todo, failed, dropped>>

\* A wrong get: the list is not looked at again once the lock is taken.
RetryNot(t) ==
  /\ pc[t] = "retry"
  /\ Goto(t, "map")
  /\ UNCHANGED <<rented, poolVars, forgotten, todo, failed, dropped, lockVars>>

\* freelist.pop() in the closure.
Retry(t) ==
  /\ pc[t] = "retry"
  /\ IF freelist # <<>>
     THEN Take(t) /\ Goto(t, "leave")
     ELSE Goto(t, "map") /\ UNCHANGED <<rented, freelist>>
  /\ UNCHANGED <<config, mmaps, mapped, forgotten, todo, failed, dropped, lockVars>>

\* utils::mmap: the raw system call returns an address or -errno; only -1 is
\* taken for a failure.  A wrong one would not look at the result at all.
Fresh == CHOOSE b \in 1..(Cardinality(mapped) + 1) : b \notin mapped
MmapFailedNever(result) == FALSE
MmapFailed(result) == result = -1

\* A wrong grow: the last state of a block is left out.
NewStatesShort(b) == [i \in 1..(PerBlock - 1) |-> <<b, Offset(config, i)>>]

\* The states that grow pushes for a new block, in their order.
NewStates(b) == [i \in 1..PerBlock |-> <<b, Offset(config, i)>>]

\* Pool::grow fails: the closure returns AllocationFailure.
GrowFails(t) ==
  /\ pc[t] = "map"
  /\ \E e \in Errno : MmapFailed(-e)
  /\ failed' = [failed EXCEPT ![t] = TRUE]
  /\ Goto(t, "leave")
  /\ UNCHANGED <<poolVars, rented, forgotten, todo, dropped, lockVars>>

\* A wrong grow: the mapping is used but not recorded.
GrowUnrecorded(t) ==
  /\ pc[t] = "map"
  /\ mapped' = mapped \cup {Fresh}
  /\ todo'   = [todo EXCEPT ![t] = NewStates(Fresh)]
  /\ Goto(t, "push")
  /\ UNCHANGED <<config, freelist, mmaps, rented, forgotten, failed, dropped, lockVars>>

\* Pool::grow: whatever is not taken for a failure is recorded as a block.
Grow(t) ==
  /\ pc[t] = "map"
  /\ \E result \in {Fresh} \cup {-e : e \in Errno} :
       /\ ~MmapFailed(result)
       /\ mapped' = IF result = Fresh THEN mapped \cup {Fresh} ELSE mapped
       /\ mmaps'  = Append(mmaps, result)
       /\ todo'   = [todo EXCEPT ![t] = NewStates(result)]
  /\ Goto(t, "push")
  /\ UNCHANGED <<config, freelist, rented, forgotten, failed, dropped, lockVars>>

\* freelist.push(state) of the loops in grow; the last one ends grow.
Push(t) ==
  /\ pc[t] = "push"
  /\ freelist' = Append(freelist, Head(todo[t]))
  /\ todo' = [todo EXCEPT ![t] = Tail(@)]
  /\ Goto(t, IF Len(todo[t]) = 1 THEN "retry" ELSE "push")
  /\ UNCHANGED <<config, mmaps, mapped, rented, forgotten, failed, dropped, lockVars>>

\* A wrong closure: its early return on AllocationFailure keeps the lock.
LeaveUnlessFailed(t) ==
  /\ pc[t] = "leave" /\ phase[t] = "running" /\ ~failed[t]
  /\ Lock!End(t, "ok")
  /\ UNCHANGED <<poolVars, rented, forgotten, pc, todo, failed, dropped>>

\* The closure returns, ...
Leave(t) ==
  /\ pc[t] = "leave" /\ phase[t] = "running"
  /\ Lock!End(t, "ok")
  /\ UNCHANGED <<poolVars, rented, forgotten, pc, todo, failed, dropped>>

\* ... and so does get.
Return(t) ==
  /\ pc[t] = "leave" /\ phase[t] # "running"
  /\ Lock!Reply(t, phase[t])
  /\ Goto(t, "idle")
  /\ UNCHANGED <<poolVars, rented, forgotten, todo, failed, dropped>>

---------------------------------------------------------------------------
(* LocalState::drop and Pool::drop *)

\* A wrong drop of a LocalState: the state is pushed but stays in use.
RecycleKeeping(t) ==
  /\ pc[t] = "idle"
  /\ \E s \in rented[t] : freelist' = Append(freelist, s)
  /\ UNCHANGED <<config, rented, mmaps, mapped, forgotten, pc, todo, failed, dropped, lockVars>>

\* Drop of a LocalState: Pool::recycle.
Recycle(t) ==
  /\ pc[t] = "idle"
  /\ \E s \in rented[t] :
       /\ rented'   = [rented EXCEPT ![t] = @ \ {s}]
       /\ freelist' = Append(freelist, s)
  /\ UNCHANGED <<config, mmaps, mapped, forgotten, pc, todo, failed, dropped, lockVars>>

\* A LocalState is leaked: its destructor never runs.
Forget(t) ==
  /\ pc[t] = "idle" /\ Cardinality(forgotten) < MaxForgets
  /\ \E s \in rented[t] :
       /\ rented'    = [rented EXCEPT ![t] = @ \ {s}]
       /\ forgotten' = forgotten \cup {s}
  /\ UNCHANGED <<poolVars, pc, todo, failed, dropped, lockVars>>

\* Pool::drop, when no LocalState and no call borrows the pool any more.  A debug
\* build counts the states it pops; when some are missing its assertion panics
\* before anything is unmapped, and the vector of blocks is freed all the same.
Drop ==
  /\ ~dropped
  /\ \A t \in Thread : pc[t] = "idle" /\ rented[t] = {}
  /\ freelist' = <<>> /\ mmaps' = <<>> /\ dropped' = TRUE
  /\ mapped' = IF Debug /\ Len(freelist) # PerBlock * Len(mmaps)
               THEN mapped
               ELSE mapped \ {mmaps[i] : i \in DOMAIN mmaps}
  /\ UNCHANGED <<config, rented, forgotten, pc, todo, failed, lockVars>>

---------------------------------------------------------------------------
\* The steps of get and of its closure; when the closure starts, and when run
\* returns after it has ended, is up to the lock.
Step(t) == Pop(t) \/ Run(t) \/ Retry(t) \/ Grow(t) \/ GrowFails(t) \/ Push(t)
           \/ Leave(t)

Next ==
  \/ \E t \in Thread : New(t) \/ Step(t) \/ Enter(t) \/ Return(t) \/ Recycle(t) \/ Forget(t)
  \/ Drop

Spec == Init /\ [][Next]_vars

\* Other threads submit closures to the lock for ever.  Those that arrive while t
\* is the combiner are run by t, before its own call returns.
FedForEver(t) == []<><<\E u \in Thread \ {t} : Run(u)>>_vars

\* What the lock promises: a submitted closure eventually begins (TaskSettles of
\* FlatCombining), and a call whose closure has ended returns, unless others keep
\* feeding it (CallReturns).  Clients need neither rent nor give back.
FairSpec ==
  /\ Spec
  /\ \A t \in Thread : WF_vars(Step(t)) /\ SF_vars(Enter(t))
  /\ \A t \in Thread : WF_vars(Return(t)) \/ FedForEver(t)

---------------------------------------------------------------------------
(* Properties *)

SetOf(s) == {s[i] : i \in DOMAIN s}

Address == {b \in Int : b > 0} \cup {-e : e \in Errno}
State   == Address \X Nat

\* Every variable has its type.
TypeOK ==
  /\ config \in [page_size : PageSizes, size : {StateSize},
                 pages_per_block : Nat \ {0}, states_per_page : Nat \ {0}]
  /\ SetOf(freelist) \subseteq State
  /\ SetOf(mmaps) \subseteq Address
  /\ mapped \subseteq Address
  /\ \A t \in Thread : rented[t] \subseteq State /\ SetOf(todo[t]) \subseteq State
  /\ forgotten \subseteq State
  /\ pc \in [Thread -> {"idle", "pop", "wait", "retry", "map", "push", "leave"}]
  /\ failed \in [Thread -> BOOLEAN]
  /\ dropped \in BOOLEAN

\* The byte ranges of two states have a byte in common.
Overlap(s, u) ==
  s[1] = u[1] /\ s[2] < u[2] + StateSize /\ u[2] < s[2] + StateSize

\* The bytes of a rented state are nobody else's: no other rented, free or leaked
\* state overlaps them, and no state is twice in the free list.
NoSharing ==
  /\ \A i, j \in DOMAIN freelist : freelist[i] = freelist[j] => i = j
  /\ \A t \in Thread : \A s \in rented[t] :
       /\ \A u \in SetOf(freelist) \cup forgotten \cup (rented[t] \ {s}) : ~Overlap(s, u)
       /\ \A v \in Thread \ {t} : \A u \in rented[v] : ~Overlap(s, u)

\* No state is lost: what the recorded blocks hold is free, rented, leaked, or
\* about to be pushed by the thread that mapped the block.
Conservation ==
  ~dropped =>
    UNION {States(b) : b \in SetOf(mmaps)}
      = SetOf(freelist) \cup forgotten
          \cup UNION {rented[t] \cup SetOf(todo[t]) : t \in Thread}

\* A LocalState lies inside a block that mmap has returned and on one page of it;
\* when mmap fails, get returns AllocationFailure instead of a state.
RentedIsMapped ==
  \A t \in Thread : \A s \in rented[t] : s[1] \in mapped /\ FitsBlock(config, s[2])

\* The pool grows with the demand: there are never more blocks than needed to
\* serve every LocalState at once, however gets, drops and growing interleave.
GrowsWithDemand ==
  PerBlock * Len(mmaps)
    < Cardinality(Thread) * MaxRented + MaxForgets + PerBlock

\* The debug assertion of Pool::drop, "Freelist should contain all states from
\* all mmaps", fails by exactly the states whose LocalStates were leaked.
DropFindsAll ==
  [][dropped' /\ ~dropped =>
       Len(freelist) + Cardinality(forgotten) = PerBlock * Len(mmaps)]_vars

\* A dropped pool leaves its blocks mapped in one case only: a debug build, whose
\* assertion stops drop before the munmap loop, when a LocalState was leaked.
DropUnmapsUnlessLeaked ==
  dropped => (mapped # {} <=> Debug /\ forgotten # {})

\* get returns, although other threads may take what the closure has pushed,
\* unless they keep the lock busy for ever while this thread serves it.
GetReturns ==
  \A t \in Thread : (pc[t] # "idle" ~> pc[t] = "idle") \/ FedForEver(t)

===========================================================================
