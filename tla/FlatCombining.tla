--------------------------- MODULE FlatCombining ---------------------------
(***************************************************************************)
(* lamlock: the flat-combining queue lock and nonpoison::Lock::try_run.    *)
(*                                                                         *)
(* A caller either takes the raw lock directly (the fast path of try_run)  *)
(* or links a node that lives in its own stack frame into an MCS queue     *)
(* (run_slowly, Node::attach).  The thread at the head of the queue is the *)
(* combiner: it runs the closures of the nodes behind it on behalf of      *)
(* their owners, then closes the queue or hands it to the next node.       *)
(*                                                                         *)
(* Every atomic access to shared memory and every futex system call is a   *)
(* step of its own.  A thread has one frame at a time and the frame is     *)
(* reused by its next call, so a node is named by the thread that owns it. *)
(* Memory is sequentially consistent.                                      *)
(***************************************************************************)
EXTENDS Sequences, Naturals

CONSTANTS
  Thread,   \* the threads that call run()
  Null,     \* the null pointer
  Std       \* the cargo feature "std": TRUE = caught panics, FALSE = the bomb

ASSUME NullAssumption == Null \notin Thread
ASSUME StdAssumption  == Std \in BOOLEAN

VARIABLES
  status,   \* RawLock.status
  tail,     \* RawLock.tail
  futex,    \* Node.futex of the node in each thread's frame
  next,     \* Node.next
  started,  \* CombinedNode.started
  result,   \* CombinedNode.result
  closure,  \* the closure value of each thread's current call
  verdict,  \* how the body of that closure ended, if it ran (history)
  outcome,  \* what the current call gave back to its caller
  pc,       \* where each thread is in try_run, run_slowly, attach or Bomb::drop
  prev,     \* attach: the predecessor returned by swap_tail
  cursor,   \* attach: the node being combined
  succ,     \* attach and Bomb::drop: the successor just loaded
  atom,     \* Bomb.atom
  wakeAt,   \* Futex::notify: the address still to be passed to FUTEX_WAKE
  queue     \* nodes from the head to the tail, in the order of swap_tail (history)

rawVars   == <<status, tail>>
nodeVars  == <<futex, next>>
slotVars  == <<started, result>>
taskVars  == <<closure, verdict, outcome>>
frameVars == <<prev, cursor, succ, atom>>
vars == <<rawVars, nodeVars, slotVars, taskVars, frameVars, pc, wakeAt, queue>>

Status  == {"UNLOCKED", "LOCKED"} \cup (IF Std THEN {} ELSE {"POISONED"})
Message == {"WAITING", "DONE", "HEAD", "SLEEPING"}
             \cup (IF Std THEN {} ELSE {"POISONED"})

\* Where a thread that has a node in the queue waits for a message.
Waiting   == {"link", "spin", "park", "futexWait", "syscall", "asleep", "woken"}
\* Where a combiner owns the raw lock.
Combining == {"exec", "run", "loadNext", "finish", "close", "last", "release",
              "handoff", "promote"}
\* Inside Bomb::drop.
Bombing   == {"bombPoison", "bombLoad", "bombWake", "bombClose", "bombSpin",
              "bombLast"}
\* Attach is over, or all that is left of it is the caller's own node.
Leaving   == {"resign", "return", "cancelled", "unwound"}
\* The frame holds no node.
Outside   == {"idle", "check", "tryAcquire", "fast", "unlock", "enqueue"}
Label     == Outside \cup Waiting \cup {"acquire"} \cup Combining \cup Bombing
               \cup Leaving

Init ==
  /\ status  = "UNLOCKED"
  /\ tail    = Null
  /\ futex   = [t \in Thread |-> "WAITING"]
  /\ next    = [t \in Thread |-> Null]
  /\ started = [t \in Thread |-> FALSE]
  /\ result  = [t \in Thread |-> "uninit"]
  /\ closure = [t \in Thread |-> "none"]
  /\ verdict = [t \in Thread |-> "none"]
  /\ outcome = [t \in Thread |-> "none"]
  /\ pc      = [t \in Thread |-> "idle"]
  /\ prev    = [t \in Thread |-> Null]
  /\ cursor  = [t \in Thread |-> Null]
  /\ succ    = [t \in Thread |-> Null]
  /\ atom    = [t \in Thread |-> Null]
  /\ wakeAt  = [t \in Thread |-> Null]
  /\ queue   = <<>>

(***************************************************************************)
(* Helpers.  A thread that owes a FUTEX_WAKE makes that call before it     *)
(* does anything else.                                                     *)
(***************************************************************************)
At(t, l)   == pc[t] = l /\ wakeAt[t] = Null
Goto(t, l) == pc' = [pc EXCEPT ![t] = l]
OnlyMoves  == UNCHANGED <<rawVars, nodeVars, slotVars, taskVars, frameVars, wakeAt,
                           queue>>

\* The node at the head leaves the queue.
Dequeue == queue' = IF queue = <<>> THEN queue ELSE Tail(queue)

\* A wrong Node::wake, for TLC to reject: it wakes those that need no wake.
NotifyAwake(t, n, message) ==
  /\ futex'  = [futex EXCEPT ![n] = message]
  /\ wakeAt' = [wakeAt EXCEPT ![t] = IF futex[n] = "WAITING" THEN n ELSE Null]

\* Node::wake: publish the message; only an owner that sleeps needs a wake.
Notify(t, n, message) ==
  /\ futex'  = [futex EXCEPT ![n] = message]
  /\ wakeAt' = [wakeAt EXCEPT ![t] = IF futex[n] = "SLEEPING" THEN n ELSE Null]

\* A FnOnce is moved out at most once; "twice" records that it was not.
Consumed(c) == IF c = "held" THEN "moved" ELSE "twice"

\* A wrong Bomb::reset: the bomb stays on the combiner's own node.
ArmOnce(t, n) == atom' = IF Std \/ pc[t] # "enqueue" THEN atom
                         ELSE [atom EXCEPT ![t] = n]

\* Bomb::reset, Bomb::new: the bomb exists only without std.
Arm(t, n) == atom' = IF Std THEN atom ELSE [atom EXCEPT ![t] = n]

\* attach: what a waiter does with the message it has read.
Receive(t, message) ==
  IF message = "DONE" THEN Goto(t, "return") /\ UNCHANGED cursor
  ELSE IF message = "POISONED" /\ ~Std
       THEN Goto(t, "cancelled") /\ UNCHANGED cursor
       ELSE Goto(t, "exec") /\ cursor' = [cursor EXCEPT ![t] = t]

\* The frame of run_slowly is popped and with it the node and the locals.
PopFrame(t) ==
  /\ futex'   = [futex EXCEPT ![t] = "WAITING"]
  /\ next'    = [next EXCEPT ![t] = Null]
  /\ started' = [started EXCEPT ![t] = FALSE]
  /\ result'  = [result EXCEPT ![t] = "uninit"]
  /\ cursor'  = [cursor EXCEPT ![t] = Null]
  /\ succ'    = [succ EXCEPT ![t] = Null]
  /\ atom'    = [atom EXCEPT ![t] = Null]

---------------------------------------------------------------------------
(* nonpoison::Lock::try_run *)

\* A client thread calls run() with a fresh closure.
Call(t) ==
  /\ At(t, "idle")
  /\ closure' = [closure EXCEPT ![t] = "held"]
  /\ verdict' = [verdict EXCEPT ![t] = "none"]
  /\ outcome' = [outcome EXCEPT ![t] = "none"]
  /\ Goto(t, "check")
  /\ UNCHANGED <<rawVars, nodeVars, slotVars, frameVars, wakeAt, queue>>

\* !self.raw.has_tail(Relaxed)
CheckTail(t) ==
  /\ At(t, "check")
  /\ Goto(t, IF tail = Null THEN "tryAcquire" ELSE "enqueue")
  /\ OnlyMoves

\* self.raw.try_acquire()?: fast path, slow path, or an error that drops f.
TryAcquire(t) ==
  /\ At(t, "tryAcquire")
  /\ \/ /\ status = "UNLOCKED"
        /\ status' = "LOCKED"
        /\ closure' = [closure EXCEPT ![t] = Consumed(@)]
        /\ Goto(t, "fast")
        /\ UNCHANGED outcome
     \/ /\ status = "LOCKED"
        /\ Goto(t, "enqueue")
        /\ UNCHANGED <<status, closure, outcome>>
     \/ /\ status = "POISONED"
        /\ closure' = [closure EXCEPT ![t] = Consumed(@)]
        /\ outcome' = [outcome EXCEPT ![t] = "cancelled"]
        /\ Goto(t, "idle")
        /\ UNCHANGED status
  /\ UNCHANGED <<tail, nodeVars, slotVars, verdict, frameVars, wakeAt, queue>>

\* The closure runs on its own caller; a panic leaves through the UnlockGuard.
FastRun(t) ==
  /\ At(t, "fast")
  /\ \E v \in {"ok", "panic"} :
       /\ verdict' = [verdict EXCEPT ![t] = v]
       /\ outcome' = [outcome EXCEPT ![t] = v]
  /\ Goto(t, "unlock")
  /\ UNCHANGED <<rawVars, nodeVars, slotVars, closure, frameVars, wakeAt, queue>>

\* A wrong fast path: no guard, so a panic leaves the raw lock LOCKED.
FastUnlockNoGuard(t) ==
  /\ At(t, "unlock")
  /\ status' = IF outcome[t] = "ok" THEN "UNLOCKED" ELSE status
  /\ Goto(t, "idle")
  /\ UNCHANGED <<tail, nodeVars, slotVars, taskVars, frameVars, wakeAt, queue>>

\* UnlockGuard::drop, on return and on unwinding.
FastUnlock(t) ==
  /\ At(t, "unlock")
  /\ status' = "UNLOCKED"
  /\ Goto(t, "idle")
  /\ UNCHANGED <<tail, nodeVars, slotVars, taskVars, frameVars, wakeAt, queue>>

---------------------------------------------------------------------------
(* nonpoison::Lock::run_slowly and Node::attach: joining the queue *)

\* Build the node in this frame, arm the bomb, swap it into the tail.
Enqueue(t) ==
  /\ At(t, "enqueue")
  /\ futex'   = [futex EXCEPT ![t] = "WAITING"]
  /\ next'    = [next EXCEPT ![t] = Null]
  /\ started' = [started EXCEPT ![t] = FALSE]
  /\ result'  = [result EXCEPT ![t] = "uninit"]
  /\ Arm(t, t)
  /\ prev'    = [prev EXCEPT ![t] = tail]
  /\ tail'    = t
  /\ queue'   = Append(queue, t)
  /\ Goto(t, IF tail = Null THEN "acquire" ELSE "link")
  /\ UNCHANGED <<status, taskVars, cursor, succ, wakeAt>>

\* prev.store_next(this)
Link(t) ==
  /\ At(t, "link")
  /\ next' = [next EXCEPT ![prev[t]] = t]
  /\ prev' = [prev EXCEPT ![t] = Null]
  /\ Goto(t, "spin")
  /\ UNCHANGED <<rawVars, futex, slotVars, taskVars, cursor, succ, atom, wakeAt,
                 queue>>

\* One load of the spin phase: a message ends it, WAITING may be the last of
\* the SPIN_LIMIT loads (any number of earlier ones leaves the state alone).
Spin(t) ==
  /\ At(t, "spin")
  /\ IF futex[t] = "WAITING"
     THEN Goto(t, "park") /\ UNCHANGED cursor
     ELSE Receive(t, futex[t])
  /\ UNCHANGED <<rawVars, nodeVars, slotVars, taskVars, prev, succ, atom, wakeAt,
                 queue>>

\* A wrong Node::wait: a plain store of SLEEPING over a message just received.
ParkBlindly(t) ==
  /\ At(t, "park")
  /\ futex' = [futex EXCEPT ![t] = "SLEEPING"]
  /\ Goto(t, "futexWait")
  /\ UNCHANGED <<rawVars, next, slotVars, taskVars, frameVars, wakeAt, queue>>

\* Node::wait: compare_exchange(WAITING, SLEEPING)
Park(t) ==
  /\ At(t, "park")
  /\ IF futex[t] = "WAITING"
     THEN /\ futex' = [futex EXCEPT ![t] = "SLEEPING"]
          /\ Goto(t, "futexWait")
          /\ UNCHANGED cursor
     ELSE Receive(t, futex[t]) /\ UNCHANGED futex
  /\ UNCHANGED <<rawVars, next, slotVars, taskVars, prev, succ, atom, wakeAt, queue>>

\* Futex::wait: the loop condition
FutexWait(t) ==
  /\ At(t, "futexWait")
  /\ Goto(t, IF futex[t] = "SLEEPING" THEN "syscall" ELSE "woken")
  /\ OnlyMoves

\* FUTEX_WAIT: the kernel compares the word and blocks, or returns EAGAIN.
FutexSyscall(t) ==
  /\ At(t, "syscall")
  /\ Goto(t, IF futex[t] = "SLEEPING" THEN "asleep" ELSE "futexWait")
  /\ OnlyMoves

\* EINTR or a spurious wake ends FUTEX_WAIT.
Interrupt(t) ==
  /\ At(t, "asleep")
  /\ Goto(t, "futexWait")
  /\ OnlyMoves

\* Node::wait: the load after Futex::wait
Woken(t) ==
  /\ At(t, "woken")
  /\ Receive(t, futex[t])
  /\ UNCHANGED <<rawVars, nodeVars, slotVars, taskVars, prev, succ, atom, wakeAt,
                 queue>>

\* FUTEX_WAKE on the saved address: at most one thread sleeps on it, the owner
\* of the frame, be it for this call or for a later one.
FutexWake(t) ==
  /\ wakeAt[t] # Null
  /\ wakeAt' = [wakeAt EXCEPT ![t] = Null]
  /\ pc' = IF pc[wakeAt[t]] = "asleep"
           THEN [pc EXCEPT ![wakeAt[t]] = "futexWait"] ELSE pc
  /\ UNCHANGED <<rawVars, nodeVars, slotVars, taskVars, frameVars, queue>>

\* Two wrong forms of raw.acquire(): the head of the queue does not look at the
\* status at all, or takes every status but LOCKED for a free lock.
AcquireBlindly(t) ==
  /\ At(t, "acquire")
  /\ status' = "LOCKED"
  /\ cursor' = [cursor EXCEPT ![t] = t]
  /\ Goto(t, "exec")
  /\ UNCHANGED <<tail, nodeVars, slotVars, taskVars, prev, succ, atom, wakeAt, queue>>
AcquireUnlessLocked(t) == status # "LOCKED" /\ AcquireBlindly(t)

\* raw.acquire()?: spins while LOCKED; an error drops the armed bomb.
Acquire(t) ==
  /\ At(t, "acquire")
  /\ \/ /\ status = "UNLOCKED"
        /\ status' = "LOCKED"
        /\ cursor' = [cursor EXCEPT ![t] = t]
        /\ Goto(t, "exec")
        /\ UNCHANGED outcome
     \/ /\ status = "POISONED"
        /\ outcome' = [outcome EXCEPT ![t] = "cancelled"]
        /\ Goto(t, "bombPoison")
        /\ UNCHANGED <<status, cursor>>
  /\ UNCHANGED <<tail, nodeVars, slotVars, closure, verdict, prev, succ, atom,
                 wakeAt, queue>>

---------------------------------------------------------------------------
(* Node::attach: combining *)

\* execute: mark the node started and move the closure out of its slot.
ExecBegin(t) ==
  /\ At(t, "exec")
  /\ started' = [started EXCEPT ![cursor[t]] = TRUE]
  /\ closure' = [closure EXCEPT ![cursor[t]] = Consumed(@)]
  /\ Goto(t, "run")
  /\ UNCHANGED <<rawVars, nodeVars, result, verdict, outcome, frameVars, wakeAt,
                 queue>>

\* execute: the closure ends.  A panic is caught and stored with std; without,
\* it unwinds out of attach on this thread and drops the bomb.
ExecEnd(t) ==
  /\ At(t, "run")
  /\ \E v \in {"ok", "panic"} :
       /\ verdict' = [verdict EXCEPT ![cursor[t]] = v]
       /\ IF v = "ok" \/ Std
          THEN /\ result' = [result EXCEPT ![cursor[t]] = v]
               /\ Goto(t, "loadNext")
               /\ UNCHANGED outcome
          ELSE /\ outcome' = [outcome EXCEPT ![t] = "panic"]
               /\ Goto(t, "bombPoison")
               /\ UNCHANGED result
  /\ UNCHANGED <<rawVars, nodeVars, started, closure, frameVars, wakeAt, queue>>

\* cursor.load_next(Acquire) of the combining loop
LoadNext(t) ==
  /\ At(t, "loadNext")
  /\ IF next[cursor[t]] = Null
     THEN Goto(t, "close") /\ UNCHANGED succ
     ELSE /\ succ' = [succ EXCEPT ![t] = next[cursor[t]]]
          /\ Goto(t, "finish")
  /\ UNCHANGED <<rawVars, nodeVars, slotVars, taskVars, prev, cursor, atom, wakeAt,
                 queue>>

\* wake_as_done(cursor), move on to the successor, bomb.reset(cursor)
Finish(t) ==
  /\ At(t, "finish")
  /\ Notify(t, cursor[t], "DONE")
  /\ cursor' = [cursor EXCEPT ![t] = succ[t]]
  /\ Arm(t, succ[t])
  /\ succ'   = [succ EXCEPT ![t] = Null]
  /\ Dequeue
  /\ Goto(t, "exec")
  /\ UNCHANGED <<rawVars, next, slotVars, taskVars, prev>>

\* A wrong try_close: a plain store to the tail.
CloseBlindly(t) ==
  /\ At(t, "close")
  /\ tail' = Null /\ Dequeue /\ Goto(t, "last")
  /\ UNCHANGED <<status, nodeVars, slotVars, taskVars, frameVars, wakeAt>>

\* raw.try_close(cursor)
TryClose(t) ==
  /\ At(t, "close")
  /\ IF tail = cursor[t]
     THEN tail' = Null /\ Dequeue /\ Goto(t, "last")
     ELSE Goto(t, "handoff") /\ UNCHANGED <<tail, queue>>
  /\ UNCHANGED <<status, nodeVars, slotVars, taskVars, frameVars, wakeAt>>

\* The queue is closed: wake_as_done(cursor) ...
FinishLast(t) ==
  /\ At(t, "last")
  /\ Notify(t, cursor[t], "DONE")
  /\ Goto(t, "release")
  /\ UNCHANGED <<rawVars, next, slotVars, taskVars, frameVars, queue>>

\* ... and raw.release()
Release(t) ==
  /\ At(t, "release")
  /\ status' = "UNLOCKED"
  /\ Goto(t, "return")
  /\ UNCHANGED <<tail, nodeVars, slotVars, taskVars, frameVars, wakeAt, queue>>

\* try_close failed: spin until the newcomer has linked itself.
AwaitSuccessor(t) ==
  /\ At(t, "handoff")
  /\ next[cursor[t]] # Null
  /\ succ' = [succ EXCEPT ![t] = next[cursor[t]]]
  /\ Goto(t, "promote")
  /\ UNCHANGED <<rawVars, nodeVars, slotVars, taskVars, prev, cursor, atom, wakeAt,
                 queue>>

\* A wrong handoff: the raw lock is released as well.
PromoteAndRelease(t) ==
  /\ At(t, "promote")
  /\ Notify(t, succ[t], "HEAD")
  /\ Dequeue
  /\ status' = "UNLOCKED"
  /\ Goto(t, "resign")
  /\ UNCHANGED <<tail, next, slotVars, taskVars, frameVars>>

\* wake_as_head(next): the raw lock stays LOCKED and changes hands ...
Promote(t) ==
  /\ At(t, "promote")
  /\ Notify(t, succ[t], "HEAD")
  /\ Dequeue
  /\ Goto(t, "resign")
  /\ UNCHANGED <<rawVars, next, slotVars, taskVars, frameVars>>

\* A wrong end of the handoff: the new head is told DONE over its HEAD.
ResignToSuccessor(t) ==
  /\ At(t, "resign")
  /\ Notify(t, succ[t], "DONE")
  /\ Goto(t, "return")
  /\ UNCHANGED <<rawVars, next, slotVars, taskVars, frameVars, queue>>

\* ... and only then wake_as_done(cursor)
Resign(t) ==
  /\ At(t, "resign")
  /\ Notify(t, cursor[t], "DONE")
  /\ Goto(t, "return")
  /\ UNCHANGED <<rawVars, next, slotVars, taskVars, frameVars, queue>>

\* Back in run_slowly: take the stored result, resuming a caught panic.
Return(t) ==
  /\ At(t, "return")
  /\ outcome' = [outcome EXCEPT ![t] = result[t]]
  /\ PopFrame(t)
  /\ Goto(t, "idle")
  /\ UNCHANGED <<rawVars, closure, verdict, prev, wakeAt, queue>>

\* A wrong error path: the closure is dropped even if it has been moved out.
CancelledDropping(t) ==
  /\ At(t, "cancelled")
  /\ outcome' = [outcome EXCEPT ![t] = "cancelled"]
  /\ closure' = [closure EXCEPT ![t] = Consumed(@)]
  /\ PopFrame(t)
  /\ Goto(t, "idle")
  /\ UNCHANGED <<rawVars, verdict, prev, wakeAt, queue>>

\* Back in run_slowly with an error: drop the closure if nobody moved it out.
Cancelled(t) ==
  /\ At(t, "cancelled")
  /\ outcome' = [outcome EXCEPT ![t] = "cancelled"]
  /\ closure' = IF started[t] THEN closure
                ELSE [closure EXCEPT ![t] = Consumed(@)]
  /\ PopFrame(t)
  /\ Goto(t, "idle")
  /\ UNCHANGED <<rawVars, verdict, prev, wakeAt, queue>>

---------------------------------------------------------------------------
(* Bomb::drop *)

\* A wrong Bomb::drop: it releases the raw lock instead of disabling it.
BombRelease(t) ==
  /\ At(t, "bombPoison")
  /\ status' = "UNLOCKED"
  /\ Goto(t, "bombLoad")
  /\ UNCHANGED <<tail, nodeVars, slotVars, taskVars, frameVars, wakeAt, queue>>

\* self.raw.poison()
BombPoison(t) ==
  /\ At(t, "bombPoison")
  /\ status' = "POISONED"
  /\ Goto(t, "bombLoad")
  /\ UNCHANGED <<tail, nodeVars, slotVars, taskVars, frameVars, wakeAt, queue>>

\* atom.load_next(Acquire)
BombLoad(t) ==
  /\ At(t, "bombLoad")
  /\ IF next[atom[t]] = Null
     THEN Goto(t, "bombClose") /\ UNCHANGED succ
     ELSE /\ succ' = [succ EXCEPT ![t] = next[atom[t]]]
          /\ Goto(t, "bombWake")
  /\ UNCHANGED <<rawVars, nodeVars, slotVars, taskVars, prev, cursor, atom, wakeAt,
                 queue>>

\* wake_as_poisoned(atom), then on to the next node
BombWake(t) ==
  /\ At(t, "bombWake")
  /\ Notify(t, atom[t], "POISONED")
  /\ atom'  = [atom EXCEPT ![t] = succ[t]]
  /\ succ'  = [succ EXCEPT ![t] = Null]
  /\ Dequeue
  /\ Goto(t, "bombLoad")
  /\ UNCHANGED <<rawVars, next, slotVars, taskVars, prev, cursor>>

\* A wrong Bomb::drop: the owner is told before its successor has been read.
BombTellThenClose(t) ==
  /\ At(t, "bombClose")
  /\ IF tail = atom[t]
     THEN tail' = Null /\ Dequeue /\ Goto(t, "bombLast") /\ UNCHANGED <<futex, wakeAt>>
     ELSE Notify(t, atom[t], "POISONED") /\ Goto(t, "bombSpin")
          /\ UNCHANGED <<tail, queue>>
  /\ UNCHANGED <<status, next, slotVars, taskVars, frameVars>>

\* self.raw.try_close(atom)
BombClose(t) ==
  /\ At(t, "bombClose")
  /\ IF tail = atom[t]
     THEN tail' = Null /\ Dequeue /\ Goto(t, "bombLast")
     ELSE Goto(t, "bombSpin") /\ UNCHANGED <<tail, queue>>
  /\ UNCHANGED <<status, nodeVars, slotVars, taskVars, frameVars, wakeAt>>

\* while atom.load_next(Relaxed).is_none() { spin }
BombSpin(t) ==
  /\ At(t, "bombSpin")
  /\ next[atom[t]] # Null
  /\ Goto(t, "bombLoad")
  /\ OnlyMoves

\* A wrong Bomb::drop: once the queue is closed the last node is forgotten.
BombForgetLast(t) ==
  /\ At(t, "bombLast")
  /\ Goto(t, IF outcome[t] = "cancelled" THEN "cancelled" ELSE "unwound")
  /\ OnlyMoves

\* The last node is told; attach returns the error or goes on unwinding.
BombLast(t) ==
  /\ At(t, "bombLast")
  /\ Notify(t, atom[t], "POISONED")
  /\ Goto(t, IF outcome[t] = "cancelled" THEN "cancelled" ELSE "unwound")
  /\ UNCHANGED <<rawVars, next, slotVars, taskVars, frameVars, queue>>

\* The panic leaves run_slowly on the thread that was combining.
Unwound(t) ==
  /\ At(t, "unwound")
  /\ PopFrame(t)
  /\ Goto(t, "idle")
  /\ UNCHANGED <<rawVars, taskVars, prev, wakeAt, queue>>

---------------------------------------------------------------------------
\* The steps of a thread inside run(), where the program alone decides.
Step(t) ==
  \/ CheckTail(t) \/ TryAcquire(t) \/ FastRun(t) \/ FastUnlock(t)
  \/ Enqueue(t) \/ Link(t) \/ Spin(t) \/ Park(t) \/ FutexWait(t)
  \/ FutexSyscall(t) \/ Woken(t) \/ FutexWake(t) \/ Acquire(t)
  \/ ExecBegin(t) \/ ExecEnd(t) \/ LoadNext(t) \/ Finish(t) \/ TryClose(t)
  \/ FinishLast(t) \/ Release(t) \/ AwaitSuccessor(t) \/ Promote(t) \/ Resign(t)
  \/ Return(t) \/ Cancelled(t)
  \/ BombPoison(t) \/ BombLoad(t) \/ BombWake(t) \/ BombClose(t) \/ BombSpin(t)
  \/ BombLast(t) \/ Unwound(t)

Next == \E t \in Thread : Call(t) \/ Interrupt(t) \/ Step(t)

Spec == Init /\ [][Next]_vars

\* The scheduler never abandons a runnable thread and closures end.  Clients
\* need not call, and the kernel need not interrupt a sleeper.
FairSpec == Spec /\ \A t \in Thread : WF_vars(Step(t))

---------------------------------------------------------------------------
(* Properties *)

\* Every variable has its type; in particular a call returns a stored result.
TypeOK ==
  /\ status  \in Status
  /\ tail    \in Thread \cup {Null}
  /\ futex   \in [Thread -> Message]
  /\ next    \in [Thread -> Thread \cup {Null}]
  /\ started \in [Thread -> BOOLEAN]
  /\ result  \in [Thread -> {"uninit", "ok", "panic"}]
  /\ closure \in [Thread -> {"none", "held", "moved", "twice"}]
  /\ verdict \in [Thread -> {"none", "ok", "panic"}]
  /\ outcome \in [Thread -> {"none", "ok", "panic", "cancelled"}]
  /\ pc      \in [Thread -> Label]
  /\ prev    \in [Thread -> Thread \cup {Null}]
  /\ cursor  \in [Thread -> Thread \cup {Null}]
  /\ succ    \in [Thread -> Thread \cup {Null}]
  /\ atom    \in [Thread -> Thread \cup {Null}]
  /\ wakeAt  \in [Thread -> Thread \cup {Null}]
  /\ queue   \in Seq(Thread)

Executing(t) == pc[t] \in {"fast", "run"}

\* At most one closure has the &mut T at a time, whichever way each thread got
\* to run it: fast path, combiner, promoted head.
MutualExclusion ==
  \A t, u \in Thread : Executing(t) /\ Executing(u) => t = u

\* Nodes whose memory the next step of t reads or writes.  The address given to
\* FUTEX_WAKE is not among them: the kernel does not access the word.
Touches(t) ==
  CASE pc[t] = "link" -> {prev[t]}
    [] pc[t] \in {"exec", "run", "loadNext", "finish", "last", "handoff", "resign"}
         -> {cursor[t]}
    [] pc[t] = "promote" -> {succ[t]}
    [] pc[t] \in {"bombLoad", "bombWake", "bombSpin", "bombLast"} -> {atom[t]}
    [] OTHER -> {}

\* Nodes are on the stack: no thread ever touches the node of a frame that has
\* been popped or was not yet set up.
NoDangling ==
  \A t \in Thread : wakeAt[t] = Null =>
    \A n \in Touches(t) : n \in Thread /\ pc[n] \notin Outside

\* The queue is served first come, first served, across combiners and hand-offs.
InArrivalOrder ==
  \A t \in Thread : pc[t] \in {"exec", "run"} =>
    queue # <<>> /\ cursor[t] = Head(queue)

\* A closure is executed or dropped exactly once before run() returns.
ClosureOnce ==
  \A t \in Thread : /\ closure[t] # "twice"
                    /\ pc[t] = "idle" => closure[t] # "held"

\* A caller is given the fate of its own closure.  With std the two agree; the
\* bomb may unwind through a caller whose own task is done, and it cancels a
\* request only if that request did not complete.
OutcomeIsOwn ==
  \A t \in Thread : pc[t] = "idle" =>
    \/ outcome[t] = verdict[t]
    \/ ~Std /\ outcome[t] = "panic"
    \/ ~Std /\ outcome[t] = "cancelled" /\ verdict[t] # "ok"

\* A waiter that is blocked in the kernel although its message is there is about
\* to be woken.
NoLostWakeup ==
  \A t \in Thread : pc[t] = "asleep" /\ futex[t] # "SLEEPING" =>
    \E u \in Thread : wakeAt[u] = t

\* A message is not overwritten before its addressee has acted on it.
MessageStands ==
  [][\A n \in Thread :
       pc[n] \in Waiting /\ futex[n] \in {"DONE", "HEAD", "POISONED"}
         => futex'[n] = futex[n]]_vars

\* When no call is in progress the queue is closed and the raw lock is free (or,
\* without std, disabled).
QuiescentIsFree ==
  (\A t \in Thread : pc[t] \in {"idle", "check"}) =>
    tail = Null /\ queue = <<>> /\ status # "LOCKED"

\* Without std, an uncaught panic disables the raw lock for good.
PoisonIsPermanent == [][status = "POISONED" => status' = "POISONED"]_vars

\* Once the raw lock is disabled no closure is running.
NoRunAfterPoison == status = "POISONED" => \A t \in Thread : ~Executing(t)

\* What the comment in Bomb::drop expects: once the lock is poisoned, new calls
\* do not attach to the tail.  They do while the bomb is draining the queue.
NewCallsStayOut ==
  [][\A t \in Thread : status = "POISONED" /\ pc[t] = "check"
                         => pc'[t] # "enqueue"]_vars

\* Every submitted closure is eventually executed or dropped, even if other
\* clients never stop calling.
TaskSettles == \A t \in Thread : closure[t] = "held" ~> closure[t] # "held"

\* Every waiter is eventually told what to do, even if other clients never stop.
WaiterIsTold == \A t \in Thread : pc[t] \in Waiting ~> pc[t] \notin Waiting

\* A call returns, unless other clients keep feeding the combiner new nodes.
CallReturns ==
  \A t \in Thread :
    \/ []<>(pc[t] = "idle")
    \/ []<><<\E u \in Thread \ {t} : Enqueue(u)>>_vars

---------------------------------------------------------------------------
(* The lock implements the serial execution of its callers' tasks. *)

Runs(t)    == pc[t] = "fast" \/ \E c \in Thread : pc[c] = "run" /\ cursor[c] = t
TaskPhase  == [t \in Thread |-> IF pc[t] = "idle" THEN "idle"
                                ELSE IF verdict[t] # "none" THEN verdict[t]
                                ELSE IF Runs(t) THEN "running" ELSE "pending"]
TaskReply  == [t \in Thread |-> IF pc[t] = "idle" THEN outcome[t] ELSE "none"]
TaskBroken == status = "POISONED" \/ \E t \in Thread : pc[t] = "bombPoison"

Serial == INSTANCE SerialTasks
            WITH phase <- TaskPhase, reply <- TaskReply, broken <- TaskBroken,
                 Transport <- Std

\* Each step of the queue, of the handing over and of the bomb is a step of the
\* abstract serial executor or invisible to the callers.
ImplementsSerialTasks == Serial!Spec

===========================================================================
