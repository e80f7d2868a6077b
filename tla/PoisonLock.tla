----------------------------- MODULE PoisonLock -----------------------------
(***************************************************************************)
(* lamlock's poison::Lock: poison, try_unpoison and run as closures handed *)
(* to nonpoison::Lock::try_run.  Each is a wrapper that looks at a flag    *)
(* and may invoke the caller's own closure.  The wrapper begins where      *)
(* FlatCombining moves the closure out of its slot and ends where it       *)
(* records how the closure ended; the steps of the queue are those of      *)
(* FlatCombining and leave the flag alone.                                 *)
(***************************************************************************)
EXTENDS FlatCombining

CONSTANT Request  \* the methods that clients call
ASSUME RequestAssumption == Request \subseteq {"run", "poison", "unpoison"}

VARIABLES
  poisoned,  \* Lock.poisoned
  request,   \* the method each thread has called
  stage,     \* its wrapper: "before", "user" (in the caller's closure), "after"
  answer     \* what its wrapper returned

wrapVars == <<request, stage, answer>>
pvars    == <<vars, poisoned, wrapVars>>

PInit ==
  /\ Init
  /\ poisoned = FALSE
  /\ request  = [t \in Thread |-> "none"]
  /\ stage    = [t \in Thread |-> "before"]
  /\ answer   = [t \in Thread |-> "none"]

\* The wrapper of n invokes the caller's closure, or returns a without it.
Invoke(n)    == stage' = [stage EXCEPT ![n] = "user"] /\ UNCHANGED answer
Answer(n, a) == /\ stage'  = [stage EXCEPT ![n] = "after"]
                /\ answer' = [answer EXCEPT ![n] = a]

---------------------------------------------------------------------------
(* The wrappers, up to the caller's closure *)

\* A wrong run: the flag is raised only after the closure has panicked.
EnterRunUnmarked(n) ==
  /\ request[n] = "run"
  /\ IF poisoned THEN Answer(n, "poisoned") ELSE Invoke(n)
  /\ UNCHANGED poisoned

\* run: refuse if poisoned, else raise the flag around the caller's closure.
EnterRun(n) ==
  /\ request[n] = "run"
  /\ IF poisoned
     THEN Answer(n, "poisoned") /\ UNCHANGED poisoned
     ELSE Invoke(n) /\ poisoned' = TRUE

\* poison: there is no closure of the caller's.
EnterPoison(n) ==
  /\ request[n] = "poison"
  /\ Answer(n, IF poisoned THEN "poisoned" ELSE "done")
  /\ poisoned' = TRUE

\* A wrong try_unpoison: the flag is lowered before the recovery has run.
EnterUnpoisonEarly(n) ==
  /\ request[n] = "unpoison"
  /\ IF poisoned THEN Invoke(n) ELSE Answer(n, "declined")
  /\ poisoned' = FALSE

\* try_unpoison: the recovery is invoked only if the lock is poisoned.
EnterUnpoison(n) ==
  /\ request[n] = "unpoison"
  /\ IF poisoned THEN Invoke(n) ELSE Answer(n, "declined")
  /\ UNCHANGED poisoned

Enter(n) == (EnterRun(n) \/ EnterPoison(n) \/ EnterUnpoison(n)) /\ UNCHANGED request

---------------------------------------------------------------------------
(* The wrappers, from the end of the caller's closure: v tells how it ended *)

\* No closure of the caller's was invoked, and the wrapper itself cannot panic.
LeaveEarly(n, v) ==
  /\ stage[n] = "after"
  /\ v = "ok"
  /\ UNCHANGED <<poisoned, stage, answer>>

\* run: the flag is lowered unless the closure unwinds.
LeaveRun(n, v) ==
  /\ stage[n] = "user" /\ request[n] = "run"
  /\ IF v = "ok"
     THEN Answer(n, "done") /\ poisoned' = FALSE
     ELSE Answer(n, "none") /\ UNCHANGED poisoned

\* A wrong try_unpoison: the flag is lowered whatever the recovery returns.
LeaveUnpoisonAnyway(n, v) ==
  /\ stage[n] = "user" /\ request[n] = "unpoison"
  /\ IF v = "ok"
     THEN (\E a \in {"recovered", "declined"} : Answer(n, a)) /\ poisoned' = FALSE
     ELSE Answer(n, "none") /\ UNCHANGED poisoned

\* try_unpoison: the flag is lowered only if the recovery returns true.
LeaveUnpoison(n, v) ==
  /\ stage[n] = "user" /\ request[n] = "unpoison"
  /\ \/ v = "ok" /\ Answer(n, "recovered") /\ poisoned' = FALSE
     \/ v = "ok" /\ Answer(n, "declined") /\ UNCHANGED poisoned
     \/ v = "panic" /\ Answer(n, "none") /\ UNCHANGED poisoned

Leave(n, v) ==
  (LeaveEarly(n, v) \/ LeaveRun(n, v) \/ LeaveUnpoison(n, v)) /\ UNCHANGED request

---------------------------------------------------------------------------
(* The steps of FlatCombining that begin or end a closure *)

PCall(t) ==
  /\ Call(t)
  /\ \E r \in Request : request' = [request EXCEPT ![t] = r]
  /\ stage'  = [stage EXCEPT ![t] = "before"]
  /\ answer' = [answer EXCEPT ![t] = "none"]
  /\ UNCHANGED poisoned

PTryAcquire(t) ==
  /\ TryAcquire(t)
  /\ IF pc'[t] = "fast" THEN Enter(t) ELSE UNCHANGED <<poisoned, wrapVars>>

PFastRun(t)   == FastRun(t) /\ Leave(t, verdict'[t])
PExecBegin(t) == ExecBegin(t) /\ Enter(cursor[t])
PExecEnd(t)   == ExecEnd(t) /\ Leave(cursor[t], verdict'[cursor[t]])

\* All other steps of the queue.
QueueStep(t) ==
  \/ CheckTail(t) \/ FastUnlock(t)
  \/ Enqueue(t) \/ Link(t) \/ Spin(t) \/ Park(t) \/ FutexWait(t)
  \/ FutexSyscall(t) \/ Interrupt(t) \/ Woken(t) \/ FutexWake(t) \/ Acquire(t)
  \/ LoadNext(t) \/ Finish(t) \/ TryClose(t)
  \/ FinishLast(t) \/ Release(t) \/ AwaitSuccessor(t) \/ Promote(t) \/ Resign(t)
  \/ Return(t) \/ Cancelled(t)
  \/ BombPoison(t) \/ BombLoad(t) \/ BombWake(t) \/ BombClose(t) \/ BombSpin(t)
  \/ BombLast(t) \/ Unwound(t)

PNext ==
  \E t \in Thread :
    \/ PCall(t) \/ PTryAcquire(t) \/ PFastRun(t) \/ PExecBegin(t) \/ PExecEnd(t)
    \/ QueueStep(t) /\ UNCHANGED <<poisoned, wrapVars>>

PSpec == PInit /\ [][PNext]_pvars

---------------------------------------------------------------------------
(* Properties *)

\* The types of the poison layer's own variables.
PTypeOK ==
  /\ poisoned \in BOOLEAN
  /\ request  \in [Thread -> {"none", "run", "poison", "unpoison"}]
  /\ stage    \in [Thread -> {"before", "user", "after"}]
  /\ answer   \in [Thread -> {"none", "done", "poisoned", "declined", "recovered"}]

\* While a caller's closure runs, on whatever thread, the flag is up: from there
\* on unwinding alone leaves the lock poisoned.
FlagUpInUser == \A n \in Thread : stage[n] = "user" => poisoned

\* Without std: a disabled raw lock always has its flag up, so that the two
\* causes of LockPoisoned never contradict each other and no recovery, which
\* could not run any more, is owed.
DisabledIsPoisoned == status = "POISONED" => poisoned

\* What a method gives back: LockPoisoned if the queue cancelled it.
PoisonReply == [t \in Thread |->
  IF pc[t] # "idle" THEN "none"
  ELSE IF outcome[t] = "ok" THEN answer[t]
  ELSE IF outcome[t] = "cancelled" THEN "poisoned" ELSE outcome[t]]

---------------------------------------------------------------------------
(* The lock implements the monitor: a refused request takes effect when its *)
(* wrapper begins, any other when the caller's closure has ended.           *)

MonitorFlag    == poisoned /\ \A n \in Thread : ~(stage[n] = "user" /\ request[n] = "run")
MonitorRequest == [t \in Thread |-> IF pc[t] = "idle" THEN "none" ELSE request[t]]
MonitorEffect  == [t \in Thread |->
  IF pc[t] = "idle" \/ stage[t] # "after" THEN "none"
  ELSE IF answer[t] = "none" THEN "panic" ELSE answer[t]]
MonitorDisabled == status = "POISONED" \/ \E t \in Thread : pc[t] = "bombPoison"

Monitor == INSTANCE PoisonMonitor
             WITH flag <- MonitorFlag, request <- MonitorRequest,
                  effect <- MonitorEffect, reply <- PoisonReply,
                  disabled <- MonitorDisabled, Transport <- Std

\* The wrappers, run by whichever thread combines, are linearizable operations
\* on the flag.
ImplementsMonitor == Monitor!Spec

===========================================================================
