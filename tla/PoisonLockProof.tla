-------------------------- MODULE PoisonLockProof --------------------------
(***************************************************************************)
(* Proofs about PoisonLock: its behaviours are behaviours of FlatCombining *)
(* with more variables, so IInv holds in them, and with IInv the flag is   *)
(* up whenever a caller's closure runs or the raw lock is disabled.        *)
(***************************************************************************)
EXTENDS PoisonLock, FlatCombiningProof

\* The request whose wrapper an executing thread is in.
Served(t) == IF pc[t] = "fast" THEN t ELSE cursor[t]

\* A caller's closure runs only in its wrapper on an executing thread, and with
\* the flag up.
UserInv ==
  \A n \in Thread : stage[n] = "user" =>
    /\ poisoned
    /\ \E t \in Thread : Executing(t) /\ Served(t) = n

\* The flag is up from the panic of a combiner to the POISONED of its bomb, and
\* from there on for good.
BombFlagInv ==
  /\ \A t \in Thread : pc[t] = "bombPoison" => poisoned
  /\ status = "POISONED" => poisoned

\* The inductive invariant of the poison layer, relative to IInv.
PInv == PTypeOK /\ UserInv /\ BombFlagInv

---------------------------------------------------------------------------
\* A step of the poison lock is a step of the queue lock.
LEMMA PNextIsNext == [PNext]_pvars => [Next]_vars
  BY DEF PNext, pvars, Next, Step, PCall, PTryAcquire, PFastRun, PExecBegin, PExecEnd,
     QueueStep

\* The inner lock of poison::Lock keeps the invariant of FlatCombining.
LEMMA InnerInvariant == PSpec => []IInv
<1>1. PInit => Init
  BY DEF PInit
<1>2. PSpec => Spec
  BY <1>1, PNextIsNext, PTL DEF PSpec, Spec
<1> QED
  BY <1>2, InductiveInvariant, PTL

\* What an executing thread may assume: nobody else executes, no bomb is about
\* to go off and the raw lock is not disabled.
LEMMA Alone ==
  ASSUME IInv, UserInv, NEW t \in Thread, Executing(t)
  PROVE  /\ \A n \in Thread : stage[n] = "user" => n = Served(t)
         /\ \A u \in Thread : pc[u] # "bombPoison"
         /\ status = "LOCKED"
<1>1. Holds(t)
  BY DEF Executing, Holds, Combining
<1>2. status = "LOCKED"
  BY <1>1 DEF IInv, LockInv
<1>3. ASSUME NEW u \in Thread, Executing(u) \/ pc[u] = "bombPoison" PROVE u = t
  <2>1. Holds(u)
    BY <1>2, <1>3 DEF IInv, LockInv, Executing, Holds, Combining, Bombing
  <2> QED
    BY <1>1, <2>1 DEF IInv, LockInv
<1>4. pc[t] # "bombPoison"
  BY DEF Executing
<1> QED
  BY <1>2, <1>3, <1>4 DEF UserInv

\* The steps of the queue neither start nor end a closure; only an acquire that
\* finds POISONED arms a bomb, and only a bomb stores POISONED.
LEMMA QueueStepFacts ==
  ASSUME TypeOK, NEW u \in Thread, QueueStep(u)
  PROVE  /\ \A t \in Thread : Executing(t) => pc'[t] = pc[t] /\ cursor'[t] = cursor[t]
         /\ \A t \in Thread : pc'[t] = "bombPoison" =>
              pc[t] = "bombPoison" \/ status = "POISONED"
         /\ status' = "POISONED" =>
              status = "POISONED" \/ \E t \in Thread : pc[t] = "bombPoison"
<1> USE DEF TypeOK, Executing, At, Goto
<1>1. CASE CheckTail(u) \/ FutexWait(u) \/ FutexSyscall(u) \/ Interrupt(u) \/ BombSpin(u)
  BY <1>1 DEF CheckTail, FutexWait, FutexSyscall, Interrupt, BombSpin, OnlyMoves,
     rawVars, frameVars
<1>2. CASE FastUnlock(u) \/ Release(u) \/ BombPoison(u)
  BY <1>2 DEF FastUnlock, Release, BombPoison, rawVars, frameVars
<1>3. CASE Enqueue(u) \/ Link(u)
  BY <1>3 DEF Enqueue, Link, rawVars
<1>4. CASE Spin(u) \/ Park(u) \/ Woken(u)
  BY <1>4 DEF Spin, Park, Woken, Receive, rawVars
<1>5. CASE FutexWake(u)
  BY <1>5 DEF FutexWake, rawVars, frameVars
<1>6. CASE Acquire(u)
  BY <1>6 DEF Acquire
<1>7. CASE LoadNext(u) \/ AwaitSuccessor(u) \/ BombLoad(u) \/ BombWake(u)
  BY <1>7 DEF LoadNext, AwaitSuccessor, BombLoad, BombWake, rawVars
<1>8. CASE Finish(u)
  BY <1>8 DEF Finish, rawVars
<1>9. CASE TryClose(u) \/ BombClose(u)
  BY <1>9 DEF TryClose, BombClose, frameVars
<1>10. CASE FinishLast(u) \/ Promote(u) \/ Resign(u) \/ BombLast(u)
  BY <1>10 DEF FinishLast, Promote, Resign, BombLast, rawVars, frameVars
<1>11. CASE Return(u) \/ Cancelled(u) \/ Unwound(u)
  BY <1>11 DEF Return, Cancelled, Unwound, PopFrame, rawVars
<1> QED
  BY <1>1, <1>2, <1>3, <1>4, <1>5, <1>6, <1>7, <1>8, <1>9, <1>10, <1>11 DEF QueueStep

---------------------------------------------------------------------------
(* One lemma for each action of the poison layer *)

LEMMA PInitPInv == PInit => PInv
<1> SUFFICES ASSUME PInit PROVE PInv
  OBVIOUS
<1>1. PTypeOK
  BY DEF PInit, PTypeOK
<1>2. \A n \in Thread : stage[n] = "before"
  BY DEF PInit
<1>3. UserInv
  BY <1>2 DEF UserInv
<1>4. status = "UNLOCKED" /\ \A t \in Thread : pc[t] = "idle"
  BY DEF PInit, Init
<1>5. BombFlagInv
  BY <1>4 DEF BombFlagInv
<1> QED
  BY <1>1, <1>3, <1>5 DEF PInv

\* A call has no wrapper yet.
LEMMA PCallStep ==
  ASSUME IInv, PInv, NEW t \in Thread, PCall(t)
  PROVE  PInv'
<1> USE DEF PInv
<1>1. /\ pc' = [pc EXCEPT ![t] = "check"] /\ pc[t] = "idle"
      /\ UNCHANGED <<status, cursor, poisoned>>
      /\ stage' = [stage EXCEPT ![t] = "before"]
  BY DEF PCall, Call, At, Goto, rawVars, frameVars
<1>2. PTypeOK'
  BY RequestAssumption DEF PTypeOK, PCall
<1>3. UserInv'
  BY <1>1 DEF UserInv, PTypeOK, IInv, TypeOK, Executing, Served
<1>4. BombFlagInv'
  BY <1>1 DEF BombFlagInv, IInv, TypeOK
<1> QED
  BY <1>2, <1>3, <1>4

\* A wrapper that begins leaves the flag up if it invokes the caller's closure,
\* and never lowers it.
LEMMA EnterFacts ==
  ASSUME PTypeOK, NEW n \in Thread, Enter(n)
  PROVE  /\ PTypeOK'
         /\ \A m \in Thread : stage'[m] = "user" => (m = n /\ poisoned') \/ stage[m] = "user"
         /\ poisoned => poisoned'
  BY DEF Enter, EnterRun, EnterPoison, EnterUnpoison, Invoke, Answer, PTypeOK

\* A wrapper that ends has left the caller's closure, unless it never was in it;
\* it lowers the flag only if it was and the closure did not panic.
LEMMA LeaveFacts ==
  ASSUME PTypeOK, NEW n \in Thread, NEW v \in {"ok", "panic"}, Leave(n, v)
  PROVE  /\ PTypeOK'
         /\ \A m \in Thread : stage'[m] = "user" => m # n /\ stage[m] = "user"
         /\ v = "panic" => stage[n] = "user" /\ poisoned' = poisoned
         /\ stage[n] # "user" => poisoned' = poisoned
  BY DEF Leave, LeaveEarly, LeaveRun, LeaveUnpoison, Answer, PTypeOK

\* The fast path enters the wrapper of its own request.
LEMMA PTryAcquireStep ==
  ASSUME IInv, PInv, NEW t \in Thread, PTryAcquire(t)
  PROVE  PInv'
<1> USE DEF PInv
<1>1. /\ pc[t] = "tryAcquire" /\ UNCHANGED cursor
      /\ \/ pc' = [pc EXCEPT ![t] = "fast"] /\ Enter(t) /\ status' = "LOCKED"
         \/ /\ pc' = [pc EXCEPT ![t] = "enqueue"] \/ pc' = [pc EXCEPT ![t] = "idle"]
            /\ UNCHANGED <<poisoned, wrapVars, status>>
  BY DEF PTryAcquire, TryAcquire, At, Goto, frameVars, IInv, TypeOK
<1>2. CASE UNCHANGED <<poisoned, wrapVars, status>> /\ pc'[t] # "fast"
  <2>1. pc \in [Thread -> Label]
    BY DEF IInv, TypeOK
  <2>2. \A u \in Thread \ {t} : pc'[u] = pc[u]
    BY <1>1, <2>1
  <2>3. PTypeOK'
    BY <1>2 DEF wrapVars, PTypeOK
  <2>4. UserInv'
    BY <1>1, <1>2, <2>1, <2>2 DEF wrapVars, UserInv, Executing, Served
  <2>5. BombFlagInv'
    BY <1>1, <1>2, <2>1 DEF wrapVars, BombFlagInv
  <2> QED
    BY <2>3, <2>4, <2>5
<1>3. CASE pc' = [pc EXCEPT ![t] = "fast"] /\ Enter(t) /\ status' = "LOCKED"
  <2>1. /\ PTypeOK'
        /\ \A m \in Thread : stage'[m] = "user" => (m = t /\ poisoned') \/ stage[m] = "user"
        /\ poisoned => poisoned'
    BY <1>3, EnterFacts
  <2>2. pc \in [Thread -> Label]
    BY DEF IInv, TypeOK
  <2>3. UserInv'
    BY <1>1, <1>3, <2>1, <2>2 DEF UserInv, Executing, Served
  <2>4. BombFlagInv'
    BY <1>1, <1>3, <2>1, <2>2 DEF BombFlagInv
  <2> QED
    BY <2>1, <2>3, <2>4
<1> QED
  BY <1>1, <1>2, <1>3 DEF IInv, TypeOK

\* A combiner enters the wrapper of the node at its cursor.
LEMMA PExecBeginStep ==
  ASSUME IInv, PInv, NEW t \in Thread, PExecBegin(t)
  PROVE  PInv'
<1> USE DEF PInv
<1>1. /\ pc[t] = "exec" /\ UNCHANGED <<cursor, status>>
      /\ pc' = [pc EXCEPT ![t] = "run"] /\ Enter(cursor[t])
  BY DEF PExecBegin, ExecBegin, At, Goto, frameVars, rawVars
<1>2. cursor[t] \in Thread
  <2>1. Drives(t) /\ Front(t) = cursor[t]
    BY <1>1 DEF Drives, Front, Combining
  <2> QED
    BY <2>1, DriverView
<1> QED
  BY <1>1, <1>2, EnterFacts DEF UserInv, BombFlagInv, IInv, TypeOK, Executing, Served

\* The end of a wrapper: no other closure is under way, so that lowering the flag
\* is right, and a panic leaves it up for the bomb.
LEMMA PLeaveStep ==
  ASSUME IInv, PInv, NEW t \in Thread, PFastRun(t) \/ PExecEnd(t)
  PROVE  PInv'
<1> USE DEF PInv
<1>1. Executing(t) /\ UNCHANGED <<cursor, status>>
  BY DEF PFastRun, PExecEnd, FastRun, ExecEnd, At, Executing, frameVars, rawVars
<1>2. Served(t) \in Thread
  <2>1. CASE pc[t] = "fast"
    BY <2>1 DEF Served
  <2>2. CASE pc[t] = "run"
    <3>1. Drives(t) /\ Front(t) = cursor[t]
      BY <2>2 DEF Drives, Front, Combining
    <3> QED
      BY <2>2, <3>1, DriverView DEF Served
  <2> QED
    BY <1>1, <2>1, <2>2 DEF Executing
<1>3. PICK v \in {"ok", "panic"} :
        /\ Leave(Served(t), v)
        /\ \A u \in Thread \ {t} : pc'[u] = pc[u]
        /\ pc'[t] = "bombPoison" => v = "panic"
  <2>1. CASE PFastRun(t)
    <3>1. PICK v \in {"ok", "panic"} : verdict' = [verdict EXCEPT ![t] = v]
      BY <2>1 DEF PFastRun, FastRun
    <3> QED
      BY <2>1, <3>1 DEF PFastRun, FastRun, At, Goto, Served, IInv, TypeOK
  <2>2. CASE PExecEnd(t)
    <3>1. PICK v \in {"ok", "panic"} :
            /\ verdict' = [verdict EXCEPT ![cursor[t]] = v]
            /\ IF v = "ok" \/ Std THEN Goto(t, "loadNext") ELSE Goto(t, "bombPoison")
      BY <2>2 DEF PExecEnd, ExecEnd
    <3>2. Served(t) = cursor[t]
      BY <2>2 DEF PExecEnd, ExecEnd, At, Served
    <3> QED
      BY <1>2, <2>2, <3>1, <3>2 DEF PExecEnd, Goto, IInv, TypeOK
  <2> QED
    BY <2>1, <2>2
<1>4. /\ \A n \in Thread : stage[n] = "user" => n = Served(t)
      /\ \A u \in Thread : pc[u] # "bombPoison"
      /\ status = "LOCKED"
  BY <1>1, Alone
<1>5. PTypeOK' /\ UserInv'
  BY <1>2, <1>3, <1>4, LeaveFacts DEF UserInv
<1>6. BombFlagInv'
  BY <1>1, <1>2, <1>3, <1>4, LeaveFacts DEF BombFlagInv, UserInv
<1> QED
  BY <1>5, <1>6

\* The steps of the queue keep the flag as it must be.
LEMMA QueueStepStep ==
  ASSUME IInv, PInv, NEW t \in Thread, QueueStep(t), UNCHANGED <<poisoned, wrapVars>>
  PROVE  PInv'
<1> USE DEF PInv
<1>1. PTypeOK'
  BY DEF PTypeOK, wrapVars
<1>2. UserInv'
  BY QueueStepFacts DEF IInv, UserInv, wrapVars, Executing, Served
<1>3. BombFlagInv'
  BY QueueStepFacts DEF IInv, BombFlagInv
<1> QED
  BY <1>1, <1>2, <1>3

\* PInv is inductive relative to IInv.
LEMMA NextPInv == IInv /\ PInv /\ [PNext]_pvars => PInv'
<1> SUFFICES ASSUME IInv, PInv, [PNext]_pvars PROVE PInv'
  OBVIOUS
<1>1. CASE UNCHANGED pvars
  BY <1>1 DEF pvars, vars, wrapVars, rawVars, frameVars, PInv, PTypeOK, UserInv,
     BombFlagInv, Executing, Served
<1>2. ASSUME NEW t \in Thread,
             \/ PCall(t) \/ PTryAcquire(t) \/ PFastRun(t) \/ PExecBegin(t) \/ PExecEnd(t)
             \/ QueueStep(t) /\ UNCHANGED <<poisoned, wrapVars>>
      PROVE  PInv'
  BY <1>2, PCallStep, PTryAcquireStep, PExecBeginStep, PLeaveStep, QueueStepStep
<1> QED
  BY <1>1, <1>2 DEF PNext

---------------------------------------------------------------------------
(* The theorems *)

\* In every reachable state of poison::Lock both invariants hold.
THEOREM FlagInvariant == PSpec => [](IInv /\ PInv)
  BY PInitPInv, NextPInv, InnerInvariant, PTL DEF PSpec

\* The flag and the bookkeeping of the wrappers keep their types.
THEOREM PTypeCorrect == PSpec => []PTypeOK
  BY FlagInvariant, PTL DEF PInv

\* poison::Lock::run and try_unpoison invoke the caller's closure only with the
\* flag up, on whatever thread it runs: unwinding alone leaves the lock poisoned.
THEOREM FlagUp == PSpec => []FlagUpInUser
<1>1. PInv => FlagUpInUser
  BY DEF PInv, UserInv, FlagUpInUser
<1> QED
  BY <1>1, FlagInvariant, PTL

\* Without std, a raw lock disabled by a bomb is a lock whose flag is up.
THEOREM DisabledPoisoned == PSpec => []DisabledIsPoisoned
<1>1. PInv => DisabledIsPoisoned
  BY DEF PInv, BombFlagInv, DisabledIsPoisoned
<1> QED
  BY <1>1, FlagInvariant, PTL

=============================================================================
