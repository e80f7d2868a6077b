----------------------- MODULE FlatCombiningTaskProof -----------------------
(***************************************************************************)
(* Proofs about the closures of FlatCombining, for every set of threads    *)
(* and both values of Std: each is consumed once, the caller is given the  *)
(* fate of its own, a blocked waiter with mail is about to be woken, the   *)
(* lock is left free, and the whole implements SerialTasks.                *)
(*                                                                         *)
(* The queue is left to IInv; the conjuncts here are about what travels    *)
(* through it.  There is one lemma for each conjunct, with one step for    *)
(* each action that can disturb it and one for the others.                 *)
(***************************************************************************)
EXTENDS FlatCombiningProof

\* An outcome that run() may give to the caller of a closure that ended so.
Honest(t) ==
  \/ outcome[t] = verdict[t]
  \/ ~Std /\ outcome[t] = "panic"
  \/ ~Std /\ outcome[t] = "cancelled" /\ verdict[t] # "ok"

\* The closure is held until it is started and then moved out, never again; its
\* verdict is known no sooner, and what the slot stores is the verdict.
TaskInv ==
  \A t \in Thread :
    /\ closure[t] # "twice"
    /\ pc[t] = "idle" => closure[t] # "held" /\ Honest(t)
    /\ pc[t] \in {"check", "tryAcquire", "enqueue"} =>
         closure[t] = "held" /\ verdict[t] = "none"
    /\ pc[t] = "fast"   => closure[t] = "moved" /\ verdict[t] = "none"
    /\ pc[t] = "unlock" =>
         closure[t] = "moved" /\ verdict[t] # "none" /\ outcome[t] = verdict[t]
    /\ pc[t] \notin Outside =>
         /\ closure[t] = IF started[t] THEN "moved" ELSE "held"
         /\ verdict[t] # "none" => started[t]
         /\ result[t] # "uninit" => verdict[t] = result[t]

\* Nobody has begun what is still to be executed, and nobody has ended what is
\* being executed.
FreshInv ==
  /\ \A i \in 2..Len(queue) : ~started[queue[i]]
  /\ \A t \in Thread :
       pc[t] \in {"acquire", "exec"} \/ Promoted(t) => ~started[Front(t)]
  /\ \A t \in Thread :
       pc[t] = "run" => started[cursor[t]] /\ verdict[cursor[t]] = "none"

\* Only a disabled lock cancels a request, and only one that has not completed;
\* a panic goes on in a caller whose own closure has ended.
CancelInv ==
  \A t \in Thread :
    /\ pc[t] \in Bombing => verdict[atom[t]] # "ok"
    /\ pc[t] \in Bombing \cup {"unwound"} /\ outcome[t] = "panic" => verdict[t] # "none"
    /\ pc[t] \in Bombing /\ outcome[t] = "cancelled" => ~started[t]
    /\ pc[t] \in Waiting /\ futex[t] = "POISONED" =>
         status = "POISONED" /\ verdict[t] # "ok"
    /\ pc[t] = "cancelled" => status = "POISONED" /\ verdict[t] # "ok"
    /\ pc[t] = "unwound"   => status = "POISONED" /\ outcome[t] = "panic"

\* A locked raw lock has an owner.
HolderInv == status = "LOCKED" => \E t \in Thread : Holds(t)

\* The inductive invariant of the tasks, relative to IInv.
CInv == TaskInv /\ FreshInv /\ CancelInv /\ HolderInv

---------------------------------------------------------------------------
(* The raw lock has an owner *)

\* The initial state: no lock is taken and no closure is submitted.
LEMMA InitCInv == Init => CInv
<1> SUFFICES ASSUME Init PROVE CInv
  OBVIOUS
<1> USE DEF Init
<1>1. TaskInv
  BY DEF TaskInv, Honest, Outside
<1>2. FreshInv
  BY DEF FreshInv, Promoted, Waiting
<1>3. CancelInv
  BY DEF CancelInv, Bombing, Waiting
<1>4. HolderInv
  BY DEF HolderInv
<1> QED
  BY <1>1, <1>2, <1>3, <1>4 DEF CInv

\* A bomb that has stored POISONED finds the lock disabled.
LEMMA BombFacts ==
  ASSUME IInv, NEW t \in Thread, pc[t] \in Bombing \ {"bombPoison"}
  PROVE  status = "POISONED" /\ ~Std /\ outcome[t] \in {"panic", "cancelled"}
<1>1. ~Holds(t)
  BY DEF Holds, Combining, Promoted, Waiting, Bombing
<1> QED
  BY <1>1 DEF IInv, LockInv

\* A bomb is on a node: at the front of the queue, or taken out of it.
LEMMA BombHasNode ==
  ASSUME IInv, NEW t \in Thread, pc[t] \in Bombing
  PROVE  atom[t] \in Thread
<1>1. CASE pc[t] = "bombLast"
  BY <1>1 DEF IInv, ClaimInv, Claims, Claim
<1>2. CASE pc[t] # "bombLast"
  <2>1. Drives(t) /\ Front(t) = atom[t]
    BY <1>2 DEF Drives, Front, Bombing, Combining
  <2> QED
    BY <2>1, DriverView
<1> QED
  BY <1>1, <1>2

\* The steps of a thread that does not have the lock to itself take it from
\* nobody.
LEMMA HoldersStay ==
  ASSUME TypeOK, FutexInv, NEW t \in Thread,
         \/ Call(t) \/ Interrupt(t) \/ CheckTail(t) \/ Enqueue(t) \/ Link(t)
         \/ Spin(t) \/ Park(t) \/ FutexWait(t) \/ FutexSyscall(t) \/ Woken(t)
         \/ FutexWake(t) \/ Return(t) \/ Cancelled(t) \/ Unwound(t)
  PROVE  status' = status /\ \A u \in Thread : Holds(u) => Holds(u)'
<1> USE DEF TypeOK, Holds, Promoted, At, Goto, Combining, Waiting, rawVars
<1>1. CASE Call(t) \/ CheckTail(t) \/ Enqueue(t) \/ Link(t)
  BY <1>1 DEF Call, CheckTail, Enqueue, Link, OnlyMoves, nodeVars, taskVars
<1>2. CASE Interrupt(t) \/ FutexWait(t) \/ FutexSyscall(t)
  BY <1>2 DEF Interrupt, FutexWait, FutexSyscall, OnlyMoves, nodeVars, taskVars
<1>3. CASE Spin(t)
  BY <1>3 DEF Spin, Receive, FutexInv, nodeVars, taskVars
<1>4. CASE Park(t)
  BY <1>4 DEF Park, Receive, FutexInv, taskVars
<1>5. CASE Woken(t)
  BY <1>5 DEF Woken, Receive, FutexInv, nodeVars, taskVars
<1>6. CASE FutexWake(t)
  BY <1>6 DEF FutexWake, nodeVars, taskVars
<1>7. CASE Return(t) \/ Cancelled(t) \/ Unwound(t)
  BY <1>7 DEF Return, Cancelled, Unwound, PopFrame, taskVars
<1> QED
  BY <1>1, <1>2, <1>3, <1>4, <1>5, <1>6, <1>7

LEMMA HolderStep == IInv /\ HolderInv /\ [Next]_vars => HolderInv'
<1> SUFFICES ASSUME IInv, HolderInv, [Next]_vars, status' = "LOCKED"
             PROVE  \E u \in Thread : Holds(u)'
  BY DEF HolderInv
<1>1. CASE UNCHANGED vars
  BY <1>1 DEF HolderInv, Holds, Promoted, vars, rawVars, nodeVars, taskVars
<1>2. ASSUME NEW t \in Thread, FastUnlock(t) \/ Release(t) \/ BombPoison(t)
      PROVE  FALSE
  BY <1>2 DEF FastUnlock, Release, BombPoison
<1>3. ASSUME NEW t \in Thread,
             \/ Call(t) \/ Interrupt(t) \/ CheckTail(t) \/ Enqueue(t) \/ Link(t)
             \/ Spin(t) \/ Park(t) \/ FutexWait(t) \/ FutexSyscall(t) \/ Woken(t)
             \/ FutexWake(t) \/ Return(t) \/ Cancelled(t) \/ Unwound(t)
      PROVE  \E u \in Thread : Holds(u)'
  BY <1>3, HoldersStay DEF HolderInv, IInv
<1>4. ASSUME NEW t \in Thread, TryAcquire(t) \/ Acquire(t)
      PROVE  \E u \in Thread : Holds(u)'
  <2>1. CASE status = "LOCKED"
    <3>1. PICK u \in Thread : Holds(u)
      BY <2>1 DEF HolderInv
    <3>2. Holds(u)'
      BY <1>4, <2>1, <3>1 DEF IInv, TypeOK, TryAcquire, Acquire, At, Goto, Holds, Promoted,
         Combining, Waiting, nodeVars
    <3> QED
      BY <3>2
  <2>2. CASE status # "LOCKED"
    <3>1. Holds(t)'
      BY <1>4, <2>2 DEF IInv, TypeOK, TryAcquire, Acquire, Goto, Holds, Combining
    <3> QED
      BY <3>1
  <2> QED
    BY <2>1, <2>2
<1>5. ASSUME NEW t \in Thread,
             \/ FastRun(t) \/ ExecBegin(t) \/ ExecEnd(t) \/ LoadNext(t) \/ Finish(t)
             \/ TryClose(t) \/ FinishLast(t) \/ AwaitSuccessor(t)
      PROVE  \E u \in Thread : Holds(u)'
  <2>1. Holds(t)'
    BY <1>5 DEF IInv, TypeOK, FastRun, ExecBegin, ExecEnd, LoadNext, Finish, TryClose,
       FinishLast, AwaitSuccessor, Goto, Holds, Combining
  <2> QED
    BY <2>1
<1>6. ASSUME NEW t \in Thread, Promote(t)
      PROVE  \E u \in Thread : Holds(u)'
  <2>1. Drives(t) /\ succ[t] = queue[2] /\ Len(queue) > 1
    BY <1>6 DEF IInv, SuccInv, Promote, At, Drives
  <2>2. 2 \in 2..Len(queue)
    BY <2>1 DEF IInv, TypeOK
  <2>3. PICK n \in Thread : n = succ[t] /\ n # t /\ pc[n] \in Waiting
    BY <2>1, <2>2, DriverView DEF Waits
  <2>4. Holds(n)'
    BY <1>6, <2>3 DEF IInv, TypeOK, Promote, Notify, Goto, Holds, Promoted
  <2> QED
    BY <2>4
<1>7. ASSUME NEW t \in Thread, Resign(t)
      PROVE  \E u \in Thread : Holds(u)'
  <2>1. status = "LOCKED"
    BY <1>7 DEF Resign, rawVars
  <2>2. PICK u \in Thread : Holds(u)
    BY <2>1 DEF HolderInv
  <2>3. pc[t] = "resign" /\ t # u
    BY <1>7, <2>2 DEF Resign, At, Holds, Promoted, Combining, Waiting
  <2>4. cursor[t] = t \/ Waits(cursor[t])
    BY <2>3 DEF IInv, ClaimInv, Claims, Claim
  <2>5. Promoted(u) => cursor[t] # u
    BY <2>3, <2>4 DEF Promoted, Waits
  <2>6. Holds(u)'
    BY <1>7, <2>2, <2>3, <2>5 DEF IInv, TypeOK, Resign, Notify, Goto, Holds, Promoted,
       taskVars
  <2> QED
    BY <2>6
<1>8. ASSUME NEW t \in Thread,
             BombLoad(t) \/ BombWake(t) \/ BombClose(t) \/ BombSpin(t) \/ BombLast(t)
      PROVE  FALSE
  <2>1. status = "POISONED"
    BY <1>8, BombFacts DEF BombLoad, BombWake, BombClose, BombSpin, BombLast, At, Bombing
  <2> QED
    BY <1>8, <2>1 DEF BombLoad, BombWake, BombClose, BombSpin, BombLast, OnlyMoves, rawVars
<1> QED
  BY <1>1, <1>2, <1>3, <1>4, <1>5, <1>6, <1>7, <1>8 DEF Next, Step

---------------------------------------------------------------------------
(* A sleeper with mail has a waker *)

LEMMA WakeStep == TypeOK /\ NoLostWakeup /\ [Next]_vars => NoLostWakeup'
<1> SUFFICES ASSUME TypeOK, NoLostWakeup, [Next]_vars, NEW t \in Thread,
                    pc'[t] = "asleep", futex'[t] # "SLEEPING"
             PROVE  \E u \in Thread : wakeAt'[u] = t
  BY DEF NoLostWakeup
<1> USE NullAssumption DEF TypeOK, NoLostWakeup, At, Goto
<1>1. CASE UNCHANGED vars
  BY <1>1 DEF vars, nodeVars
<1>2. ASSUME NEW u \in Thread,
             Finish(u) \/ FinishLast(u) \/ Resign(u) \/ Promote(u) \/ BombWake(u) \/ BombLast(u)
      PROVE  \E v \in Thread : wakeAt'[v] = t
  <2>1. pc[t] = "asleep" /\ t # u
    BY <1>2 DEF Finish, FinishLast, Resign, Promote, BombWake, BombLast
  <2>2. wakeAt[u] = Null /\ \E n, m : Notify(u, n, m)
    BY <1>2 DEF Finish, FinishLast, Resign, Promote, BombWake, BombLast
  <2>3. PICK n, m : Notify(u, n, m)
    BY <2>2
  <2>4. CASE futex[t] = "SLEEPING"
    <3>1. n = t
      BY <2>3, <2>4 DEF Notify
    <3>2. wakeAt'[u] = t
      BY <2>3, <2>4, <3>1 DEF Notify
    <3> QED
      BY <3>2
  <2>5. CASE futex[t] # "SLEEPING"
    <3>1. PICK v \in Thread : wakeAt[v] = t
      BY <2>1, <2>5
    <3>2. wakeAt'[v] = t
      BY <2>2, <2>3, <3>1 DEF Notify
    <3> QED
      BY <3>2
  <2> QED
    BY <2>4, <2>5
<1>3. ASSUME NEW u \in Thread, FutexWake(u)
      PROVE  \E v \in Thread : wakeAt'[v] = t
  <2>1. wakeAt[u] # t /\ pc[t] = "asleep" /\ futex[t] # "SLEEPING"
    BY <1>3 DEF FutexWake, nodeVars
  <2>2. PICK v \in Thread : wakeAt[v] = t
    BY <2>1
  <2>3. wakeAt'[v] = t
    BY <1>3, <2>1, <2>2 DEF FutexWake
  <2> QED
    BY <2>3
<1>4. ASSUME NEW u \in Thread, FutexSyscall(u)
      PROVE  \E v \in Thread : wakeAt'[v] = t
  <2>1. pc[t] = "asleep" /\ futex[t] # "SLEEPING"
    BY <1>4 DEF FutexSyscall, OnlyMoves, nodeVars
  <2> QED
    BY <1>4, <2>1 DEF FutexSyscall, OnlyMoves
<1>5. ASSUME NEW u \in Thread,
             Enqueue(u) \/ Park(u) \/ Return(u) \/ Cancelled(u) \/ Unwound(u)
      PROVE  \E v \in Thread : wakeAt'[v] = t
  <2>1. t # u /\ pc[t] = "asleep" /\ futex'[t] = futex[t] /\ wakeAt' = wakeAt
    BY <1>5 DEF Enqueue, Park, Receive, Return, Cancelled, Unwound, PopFrame
  <2> QED
    BY <2>1
<1>6. ASSUME NEW u \in Thread,
             \/ Call(u) \/ Interrupt(u) \/ CheckTail(u) \/ TryAcquire(u)
             \/ FastRun(u) \/ FastUnlock(u) \/ Link(u) \/ Spin(u)
             \/ FutexWait(u) \/ Woken(u)
             \/ Acquire(u) \/ ExecBegin(u) \/ ExecEnd(u) \/ LoadNext(u)
             \/ TryClose(u) \/ Release(u) \/ AwaitSuccessor(u)
             \/ BombPoison(u) \/ BombLoad(u) \/ BombClose(u) \/ BombSpin(u)
      PROVE  \E v \in Thread : wakeAt'[v] = t
  <2>1. futex' = futex /\ wakeAt' = wakeAt
    BY <1>6 DEF Call, Interrupt, CheckTail, TryAcquire, FastRun, FastUnlock, Link, Spin,
       FutexWait, Woken, Acquire, ExecBegin, ExecEnd, LoadNext,
       TryClose, Release, AwaitSuccessor, BombPoison, BombLoad, BombClose, BombSpin,
       OnlyMoves, nodeVars
  <2>2. pc[t] = "asleep"
    BY <1>6 DEF Call, Interrupt, CheckTail, TryAcquire, FastRun, FastUnlock, Link, Spin,
       FutexWait, Woken, Receive, Acquire, ExecBegin, ExecEnd, LoadNext,
       TryClose, Release, AwaitSuccessor, BombPoison, BombLoad, BombClose, BombSpin
  <2> QED
    BY <2>1, <2>2
<1> QED
  BY <1>1, <1>2, <1>3, <1>4, <1>5, <1>6 DEF Next, Step

---------------------------------------------------------------------------
(* What is still to be executed has not begun *)

\* What an executing combiner knows: the closure's node is in a live frame, and
\* nobody else is at the front of the queue, owns the raw lock or has disabled it.
LEMMA Executor ==
  ASSUME IInv, NEW t \in Thread, pc[t] \in {"exec", "run"}
  PROVE  /\ cursor[t] \in Thread /\ pc[cursor[t]] \notin Outside
         /\ cursor[t] = t \/ Waits(cursor[t])
         /\ Drives(t) /\ Holds(t) /\ status = "LOCKED"
         /\ \A u \in Thread \ {t} : ~Drives(u) /\ ~Holds(u) /\ pc[u] \notin Bombing
         /\ \A i \in 2..Len(queue) : queue[i] \in Thread /\ queue[i] # cursor[t]
<1>1. Drives(t) /\ Front(t) = cursor[t] /\ Holds(t) /\ pc[t] \notin Outside
  BY DEF Drives, Front, Holds, Combining, Outside
<1>2. status = "LOCKED" /\ \A u \in Thread \ {t} : ~Holds(u)
  BY <1>1 DEF IInv, LockInv
<1>3. \A u \in Thread \ {t} : pc[u] \notin Bombing
  BY <1>2 DEF IInv, LockInv
<1> QED
  BY <1>1, <1>2, <1>3, DriverView DEF Waits, Waiting, Outside

\* FUTEX_WAKE moves at most one thread, and only inside Futex::wait.
LEMMA WokenUp ==
  ASSUME TypeOK, NEW t \in Thread, FutexWake(t)
  PROVE  \A u \in Thread :
           pc'[u] = pc[u] \/ (pc[u] = "asleep" /\ pc'[u] = "futexWait")
  BY DEF TypeOK, FutexWake

\* The steps that neither begin nor end a closure, nor make a thread an executor.
LEMMA FreshKept ==
  ASSUME FreshInv, queue' = queue, started' = started, verdict' = verdict,
         \A u \in Thread :
           /\ pc'[u] \in {"acquire", "exec"} \/ Promoted(u)' =>
                (pc[u] \in {"acquire", "exec"} \/ Promoted(u)) /\ Front(u)' = Front(u)
           /\ pc'[u] = "run" => pc[u] = "run" /\ cursor'[u] = cursor[u]
  PROVE  FreshInv'
  BY DEF FreshInv

LEMMA FreshStep == IInv /\ CInv /\ [Next]_vars => FreshInv'
<1> SUFFICES ASSUME IInv, CInv, [Next]_vars PROVE FreshInv'
  OBVIOUS
<1>a. TypeOK /\ TaskInv /\ FreshInv
  BY DEF IInv, CInv
<1> USE DEF At, Goto
<1>1. CASE UNCHANGED vars
  BY <1>1, <1>a DEF FreshInv, Promoted, Front, vars, nodeVars, slotVars, taskVars, frameVars
<1>2. ASSUME NEW t \in Thread, Call(t) \/ FastRun(t) PROVE FreshInv'
  <2>1. \A u \in Thread : pc[u] = "run" => cursor[u] # t
    BY <1>2, Detached DEF Call, FastRun, Drives, Front, Combining, Outside
  <2>2. UNCHANGED <<queue, started, cursor>>
    BY <1>2 DEF Call, FastRun, slotVars, frameVars
  <2>3. /\ \A u \in Thread : pc'[u] \in {"acquire", "exec"} \/ Promoted(u)' =>
              (pc[u] \in {"acquire", "exec"} \/ Promoted(u)) /\ Front(u)' = Front(u)
        /\ \A u \in Thread : pc'[u] = "run" => pc[u] = "run"
    BY <1>2, <1>a DEF Call, FastRun, TypeOK, Promoted, Front, Waiting, Combining, Bombing,
       nodeVars, frameVars
  <2>4. \A u \in Thread \ {t} : verdict'[u] = verdict[u]
    BY <1>2, <1>a DEF Call, FastRun, TypeOK
  <2>5. \A u \in Thread : pc[u] = "run" => cursor[u] \in Thread
    BY Executor
  <2> QED
    BY <1>a, <2>1, <2>2, <2>3, <2>4, <2>5 DEF FreshInv
<1>3. ASSUME NEW t \in Thread, Enqueue(t) PROVE FreshInv'
  <2>1. /\ \A u \in Thread : pc[u] = "run" => cursor[u] \in Thread \ {t}
        /\ \A u \in Thread : Drives(u) => Front(u) \in Thread \ {t}
        /\ \A i \in 1..Len(queue) : queue[i] \in Thread \ {t}
    BY <1>3, <1>a, Detached, DriverView DEF TypeOK, Enqueue, Drives, Front, Combining, Outside
  <2>2. /\ Len(queue') = Len(queue) + 1 /\ queue'[Len(queue')] = t
        /\ \A i \in 1..Len(queue) : queue'[i] = queue[i]
    BY <1>3, <1>a, AppendFacts DEF TypeOK, Enqueue
  <2>3. started' = [started EXCEPT ![t] = FALSE]
    BY <1>3 DEF Enqueue
  <2>4. \A i \in 2..Len(queue') : ~started'[queue'[i]]
    <3> SUFFICES ASSUME NEW i \in 2..Len(queue') PROVE ~started'[queue'[i]]
      OBVIOUS
    <3>1. CASE i = Len(queue')
      BY <1>a, <2>2, <2>3, <3>1 DEF TypeOK
    <3>2. CASE i # Len(queue')
      <4>1. i \in 2..Len(queue) /\ i \in 1..Len(queue)
        BY <1>a, <2>2, <3>2 DEF TypeOK
      <4> QED
        BY <1>a, <2>1, <2>2, <2>3, <4>1 DEF TypeOK, FreshInv
    <3> QED
      BY <3>1, <3>2
  <2>5. \A u \in Thread \ {t} :
          /\ pc'[u] = pc[u] /\ Front(u)' = Front(u) /\ (Promoted(u)' <=> Promoted(u))
          /\ cursor'[u] = cursor[u]
    BY <1>3, <1>a DEF Enqueue, Arm, TypeOK, Front, Promoted
  <2>6. pc'[t] \in {"acquire", "link"} /\ Front(t)' = t /\ ~Promoted(t)'
    BY <1>3, <1>a DEF Enqueue, TypeOK, Front, Promoted, Combining, Bombing
  <2>7. \A u \in Thread : pc[u] \in {"acquire", "exec"} \/ Promoted(u) => Drives(u)
    BY DEF Drives
  <2>8. verdict' = verdict
    BY <1>3 DEF Enqueue, taskVars
  <2>9. \A u \in Thread : pc'[u] \in {"acquire", "exec"} \/ Promoted(u)' =>
          ~started'[Front(u)']
    BY <1>a, <2>1, <2>3, <2>5, <2>6, <2>7 DEF TypeOK, FreshInv
  <2>10. \A u \in Thread : pc'[u] = "run" =>
           started'[cursor'[u]] /\ verdict'[cursor'[u]] = "none"
    BY <1>a, <2>1, <2>3, <2>5, <2>6, <2>8 DEF TypeOK, FreshInv
  <2> QED
    BY <2>4, <2>9, <2>10 DEF FreshInv
<1>4. ASSUME NEW t \in Thread, Spin(t) \/ Park(t) \/ Woken(t) PROVE FreshInv'
  <2>1. IInv
    OBVIOUS
  <2>2. pc'[t] = "exec" => Promoted(t) /\ Front(t) = t /\ Front(t)' = t
    BY <1>4, <1>a DEF IInv, FutexInv, Spin, Park, Woken, Receive, TypeOK, Message, Promoted,
       Front, Waiting, Combining, Bombing
  <2>3. \A u \in Thread : pc'[u] \in {"acquire", "exec"} \/ Promoted(u)' =>
          (pc[u] \in {"acquire", "exec"} \/ Promoted(u)) /\ Front(u)' = Front(u)
    BY <1>4, <1>a, <2>2 DEF Spin, Park, Woken, Receive, TypeOK, Promoted, Front, Waiting,
       Combining, Bombing, nodeVars
  <2>4. \A u \in Thread : pc'[u] = "run" => pc[u] = "run" /\ cursor'[u] = cursor[u]
    BY <1>4, <1>a DEF Spin, Park, Woken, Receive, TypeOK
  <2>5. UNCHANGED <<queue, started, verdict>>
    BY <1>4 DEF Spin, Park, Woken, slotVars, taskVars
  <2> QED
    BY <1>a, <2>3, <2>4, <2>5, FreshKept
<1>5. ASSUME NEW t \in Thread, Acquire(t) PROVE FreshInv'
  <2>1. \A u \in Thread : pc'[u] \in {"acquire", "exec"} \/ Promoted(u)' =>
          (pc[u] \in {"acquire", "exec"} \/ Promoted(u)) /\ Front(u)' = Front(u)
    BY <1>5, <1>a DEF Acquire, TypeOK, Promoted, Front, Waiting, Combining, Bombing, nodeVars
  <2>2. \A u \in Thread : pc'[u] = "run" => pc[u] = "run" /\ cursor'[u] = cursor[u]
    BY <1>5, <1>a DEF Acquire, TypeOK
  <2> QED
    BY <1>5, <1>a, <2>1, <2>2, FreshKept DEF Acquire, slotVars
<1>6. ASSUME NEW t \in Thread, ExecBegin(t) PROVE FreshInv'
  <2>1. Drives(t) /\ Front(t) = cursor[t] /\ ~started[cursor[t]]
    BY <1>6, <1>a DEF ExecBegin, Drives, Front, Combining, FreshInv
  <2>2. /\ cursor[t] \in Thread /\ pc[cursor[t]] \notin Outside
        /\ \A i \in 2..Len(queue) : queue[i] \in Thread /\ queue[i] # cursor[t]
        /\ \A u \in Thread \ {t} : ~Drives(u)
    BY <1>6, <2>1, DriverView DEF ExecBegin, Waits, Waiting, Outside
  <2>3. verdict[cursor[t]] = "none"
    BY <1>a, <2>1, <2>2 DEF TaskInv
  <2>4. \A u \in Thread \ {t} : ~(pc'[u] \in {"acquire", "exec", "run"} \/ Promoted(u)')
    BY <1>6, <1>a, <2>2 DEF ExecBegin, TypeOK, Drives, Promoted, nodeVars
  <2>5. pc'[t] = "run" /\ ~Promoted(t)' /\ cursor' = cursor
    BY <1>6, <1>a DEF ExecBegin, TypeOK, Promoted, Waiting, frameVars
  <2> QED
    BY <1>6, <1>a, <2>2, <2>3, <2>4, <2>5 DEF ExecBegin, TypeOK, FreshInv
<1>7. ASSUME NEW t \in Thread, ExecEnd(t) PROVE FreshInv'
  <2>1. Drives(t)
    BY <1>7 DEF ExecEnd, Drives
  <2>2. \A u \in Thread \ {t} : ~Drives(u)
    BY <2>1, DriverView
  <2>3. \A u \in Thread : ~(pc'[u] \in {"acquire", "exec", "run"} \/ Promoted(u)')
    BY <1>7, <1>a, <2>2 DEF ExecEnd, TypeOK, Drives, Promoted, Waiting, nodeVars
  <2> QED
    BY <1>7, <1>a, <2>3 DEF ExecEnd, FreshInv
<1>8. ASSUME NEW t \in Thread, Finish(t) \/ Promote(t) \/ BombWake(t) PROVE FreshInv'
  <2>1. Drives(t) /\ succ[t] = queue[2] /\ Len(queue) > 1 /\ Dequeue
    BY <1>8 DEF IInv, SuccInv, Finish, Promote, BombWake, Drives
  <2>2. 2 \in 2..Len(queue) /\ queue # <<>>
    BY <1>a, <2>1, EmptySeq DEF TypeOK
  <2>3. /\ \A u \in Thread \ {t} : ~Drives(u)
        /\ succ[t] \in Thread \ {t} /\ pc[succ[t]] \in Waiting
    BY <2>1, <2>2, DriverView DEF Waits
  <2>4. ~started[succ[t]]
    BY <1>a, <2>1, <2>2 DEF FreshInv
  <2>5. \A i \in 2..Len(queue') : ~started[queue'[i]]
    <3> SUFFICES ASSUME NEW i \in 2..Len(queue') PROVE ~started[queue'[i]]
      OBVIOUS
    <3>1. queue'[i] = queue[i + 1] /\ i + 1 \in 2..Len(queue)
      BY <1>a, <2>1, <2>2, DequeueFacts DEF TypeOK
    <3> QED
      BY <1>a, <3>1 DEF FreshInv
  <2>6. \A u \in Thread \ {t} :
          /\ pc'[u] \notin {"acquire", "exec", "run"}
          /\ Promoted(u)' => u = succ[t] /\ Front(u)' = u
    BY <1>8, <1>a, <2>3 DEF Finish, Promote, BombWake, Notify, TypeOK, Drives, Promoted, Front,
       Waiting, Combining, Bombing
  <2>7. /\ pc'[t] \notin {"acquire", "run"} /\ ~Promoted(t)'
        /\ pc'[t] = "exec" => Front(t)' = succ[t]
    BY <1>8, <1>a DEF Finish, Promote, BombWake, TypeOK, Promoted, Front, Waiting, Combining
  <2>8. started' = started
    BY <1>8 DEF Finish, Promote, BombWake, slotVars
  <2> QED
    BY <2>4, <2>5, <2>6, <2>7, <2>8 DEF FreshInv
<1>9. ASSUME NEW t \in Thread, TryClose(t) \/ BombClose(t) PROVE FreshInv'
  <2>1. \A u \in Thread : pc'[u] \in {"acquire", "exec"} \/ Promoted(u)' =>
          (pc[u] \in {"acquire", "exec"} \/ Promoted(u)) /\ Front(u)' = Front(u)
    BY <1>9, <1>a DEF TryClose, BombClose, TypeOK, Promoted, Front, Waiting, nodeVars, frameVars
  <2>2. \A u \in Thread : pc'[u] = "run" => pc[u] = "run" /\ cursor'[u] = cursor[u]
    BY <1>9, <1>a DEF TryClose, BombClose, TypeOK, frameVars
  <2>3. started' = started /\ verdict' = verdict
    BY <1>9 DEF TryClose, BombClose, slotVars, taskVars
  <2>4. \A i \in 2..Len(queue') : ~started[queue'[i]]
    <3>1. CASE queue' = queue
      BY <1>a, <3>1 DEF FreshInv
    <3>2. CASE queue' # queue
      <4>1. Drives(t) /\ tail = Front(t) /\ Dequeue
        BY <1>9, <3>2 DEF TryClose, BombClose, Drives, Front, Combining, Bombing
      <4>2. Len(queue) = 1 /\ queue # <<>>
        BY <4>1, DriverView
      <4>3. Len(queue') = 0
        BY <1>a, <4>1, <4>2, DequeueFacts DEF TypeOK
      <4> QED
        BY <4>3
    <3> QED
      BY <3>1, <3>2
  <2> QED
    BY <1>a, <2>1, <2>2, <2>3, <2>4 DEF FreshInv
<1>10. ASSUME NEW t \in Thread, Return(t) \/ Cancelled(t) \/ Unwound(t) PROVE FreshInv'
  <2>1. /\ \A u \in Thread : pc[u] = "run" => cursor[u] \in Thread \ {t}
        /\ \A u \in Thread : Drives(u) => Front(u) \in Thread \ {t}
        /\ \A i \in 1..Len(queue) : queue[i] \in Thread \ {t}
    BY <1>10, <1>a, Detached, DriverView DEF TypeOK, Return, Cancelled, Unwound, Drives, Front,
       Combining
  <2>2. /\ started' = [started EXCEPT ![t] = FALSE] /\ verdict' = verdict /\ queue' = queue
        /\ pc'[t] = "idle"
    BY <1>10, <1>a DEF Return, Cancelled, Unwound, PopFrame, TypeOK, taskVars
  <2>3. \A u \in Thread \ {t} :
          /\ pc'[u] = pc[u] /\ Front(u)' = Front(u) /\ (Promoted(u)' <=> Promoted(u))
          /\ cursor'[u] = cursor[u]
    BY <1>10, <1>a DEF Return, Cancelled, Unwound, PopFrame, TypeOK, Front, Promoted
  <2>4. ~Promoted(t)'
    BY <2>2 DEF Promoted, Waiting
  <2>5. \A u \in Thread : pc[u] \in {"acquire", "exec"} \/ Promoted(u) => Drives(u)
    BY DEF Drives
  <2>6. \A i \in 2..Len(queue') : ~started'[queue'[i]]
    BY <1>a, <2>1, <2>2 DEF TypeOK, FreshInv
  <2>7. \A u \in Thread : pc'[u] \in {"acquire", "exec"} \/ Promoted(u)' =>
          ~started'[Front(u)']
    BY <1>a, <2>1, <2>2, <2>3, <2>4, <2>5 DEF TypeOK, FreshInv
  <2>8. \A u \in Thread : pc'[u] = "run" =>
          started'[cursor'[u]] /\ verdict'[cursor'[u]] = "none"
    BY <1>a, <2>1, <2>2, <2>3 DEF TypeOK, FreshInv
  <2> QED
    BY <2>6, <2>7, <2>8 DEF FreshInv
<1>11. ASSUME NEW t \in Thread,
              \/ CheckTail(t) \/ TryAcquire(t) \/ FastUnlock(t) \/ Link(t)
              \/ Interrupt(t) \/ FutexWait(t) \/ FutexSyscall(t) \/ BombSpin(t)
       PROVE  FreshInv'
  <2>1. \A u \in Thread : pc'[u] \in {"acquire", "exec"} \/ Promoted(u)' =>
          (pc[u] \in {"acquire", "exec"} \/ Promoted(u)) /\ Front(u)' = Front(u)
    BY <1>11, <1>a DEF CheckTail, TryAcquire, FastUnlock, Link, Interrupt, FutexWait,
       FutexSyscall, BombSpin, OnlyMoves, TypeOK, Promoted, Front, Waiting, Combining, Bombing,
       nodeVars, frameVars
  <2>2. \A u \in Thread : pc'[u] = "run" => pc[u] = "run" /\ cursor'[u] = cursor[u]
    BY <1>11, <1>a DEF CheckTail, TryAcquire, FastUnlock, Link, Interrupt, FutexWait,
       FutexSyscall, BombSpin, OnlyMoves, TypeOK, frameVars
  <2>3. UNCHANGED <<queue, started, verdict>>
    BY <1>11 DEF CheckTail, TryAcquire, FastUnlock, Link, Interrupt, FutexWait,
       FutexSyscall, BombSpin, OnlyMoves, slotVars, taskVars
  <2> QED
    BY <1>a, <2>1, <2>2, <2>3, FreshKept
<1>12. ASSUME NEW t \in Thread, FutexWake(t) PROVE FreshInv'
  <2>1. \A u \in Thread : pc'[u] = pc[u] \/ (pc[u] = "asleep" /\ pc'[u] = "futexWait")
    BY <1>12, <1>a, WokenUp
  <2>2. UNCHANGED <<queue, started, verdict, futex, cursor, atom>>
    BY <1>12 DEF FutexWake, nodeVars, slotVars, taskVars, frameVars
  <2>3. \A u \in Thread : pc'[u] \in {"acquire", "exec"} \/ Promoted(u)' =>
          (pc[u] \in {"acquire", "exec"} \/ Promoted(u)) /\ Front(u)' = Front(u)
    BY <2>1, <2>2 DEF Promoted, Front, Waiting, Combining, Bombing
  <2>4. \A u \in Thread : pc'[u] = "run" => pc[u] = "run" /\ cursor'[u] = cursor[u]
    BY <2>1, <2>2
  <2> QED
    BY <1>a, <2>2, <2>3, <2>4, FreshKept
<1>13. ASSUME NEW t \in Thread,
              \/ LoadNext(t) \/ AwaitSuccessor(t) \/ Release(t) \/ FinishLast(t)
              \/ Resign(t) \/ BombPoison(t) \/ BombLoad(t) \/ BombLast(t)
       PROVE  FreshInv'
  <2>1. \A u \in Thread : pc'[u] \in {"acquire", "exec"} \/ Promoted(u)' =>
          (pc[u] \in {"acquire", "exec"} \/ Promoted(u)) /\ Front(u)' = Front(u)
    BY <1>13, <1>a DEF LoadNext, AwaitSuccessor, Release, FinishLast, Resign, BombPoison,
       BombLoad, BombLast, Notify, TypeOK, Promoted, Front, Waiting, nodeVars, frameVars
  <2>2. \A u \in Thread : pc'[u] = "run" => pc[u] = "run" /\ cursor'[u] = cursor[u]
    BY <1>13, <1>a DEF LoadNext, AwaitSuccessor, Release, FinishLast, Resign, BombPoison,
       BombLoad, BombLast, TypeOK, frameVars
  <2>3. UNCHANGED <<queue, started, verdict>>
    BY <1>13 DEF LoadNext, AwaitSuccessor, Release, FinishLast, Resign, BombPoison,
       BombLoad, BombLast, slotVars, taskVars
  <2> QED
    BY <1>a, <2>1, <2>2, <2>3, FreshKept
<1> QED
  BY <1>1, <1>2, <1>3, <1>4, <1>5, <1>6, <1>7, <1>8, <1>9, <1>10, <1>11, <1>12, <1>13
     DEF Next, Step

---------------------------------------------------------------------------
(* Where a closure is, and how it ended *)

\* The steps that move threads about inside attach.
LEMMA TaskKept ==
  ASSUME TaskInv, UNCHANGED <<closure, verdict, started, result>>,
         \A u \in Thread :
           \/ pc'[u] = pc[u] /\ outcome'[u] = outcome[u]
           \/ pc[u] \notin Outside /\ pc'[u] \notin Outside
  PROVE  TaskInv'
  BY DEF TaskInv, Honest, Outside

LEMMA TaskStep == IInv /\ CInv /\ [Next]_vars => TaskInv'
<1> SUFFICES ASSUME IInv, CInv, [Next]_vars PROVE TaskInv'
  OBVIOUS
<1>a. TypeOK /\ TaskInv
  BY DEF IInv, CInv
<1> USE DEF At, Goto
<1>1. CASE UNCHANGED vars
  BY <1>1, <1>a DEF TaskInv, Honest, vars, slotVars, taskVars
<1>2. ASSUME NEW t \in Thread, Call(t) \/ CheckTail(t) \/ FastRun(t) \/ FastUnlock(t)
      PROVE  TaskInv'
  BY <1>2, <1>a DEF TypeOK, TaskInv, Honest, Call, CheckTail, FastRun, FastUnlock, OnlyMoves,
     Outside, slotVars, taskVars
<1>3. ASSUME NEW t \in Thread, TryAcquire(t)
      PROVE  TaskInv'
  BY <1>3, <1>a DEF TypeOK, Status, TaskInv, Honest, TryAcquire, Consumed, Outside, slotVars
<1>4. ASSUME NEW t \in Thread, Enqueue(t)
      PROVE  TaskInv'
  BY <1>4, <1>a DEF TypeOK, TaskInv, Honest, Enqueue, Outside, taskVars
<1>5. ASSUME NEW t \in Thread, ExecBegin(t)
      PROVE  TaskInv'
  <2>1. cursor[t] \in Thread /\ pc[cursor[t]] \notin Outside /\ ~started[cursor[t]]
    BY <1>5, Executor DEF ExecBegin, CInv, FreshInv, Front, Combining
  <2>2. closure[cursor[t]] = "held" /\ verdict[cursor[t]] = "none"
    BY <1>a, <2>1 DEF TaskInv
  <2> QED
    BY <1>5, <1>a, <2>1, <2>2 DEF TypeOK, TaskInv, Honest, ExecBegin, Consumed, Outside
<1>6. ASSUME NEW t \in Thread, ExecEnd(t)
      PROVE  TaskInv'
  <2>1. /\ cursor[t] \in Thread /\ pc[cursor[t]] \notin Outside
        /\ started[cursor[t]] /\ verdict[cursor[t]] = "none"
    BY <1>6, Executor DEF ExecEnd, CInv, FreshInv
  <2>2. closure[cursor[t]] = "moved" /\ result[cursor[t]] = "uninit"
    BY <1>a, <2>1 DEF TypeOK, TaskInv
  <2> QED
    BY <1>6, <1>a, <2>1, <2>2 DEF TypeOK, TaskInv, Honest, ExecEnd, Outside
<1>7. ASSUME NEW t \in Thread, Return(t)
      PROVE  TaskInv'
  <2>1. result[t] # "uninit"
    BY <1>7 DEF IInv, SlotInv, Return
  <2>2. pc[t] = "return" /\ pc[t] \notin Outside
    BY <1>7 DEF Return, Outside
  <2>3. verdict[t] = result[t] /\ closure[t] = "moved"
    BY <1>a, <2>1, <2>2 DEF TypeOK, TaskInv
  <2> QED
    BY <1>7, <1>a, <2>1, <2>2, <2>3 DEF TypeOK, TaskInv, Honest, Return, PopFrame, Outside
<1>8. ASSUME NEW t \in Thread, Cancelled(t)
      PROVE  TaskInv'
  <2>1. /\ pc[t] = "cancelled" /\ pc[t] \notin Outside
        /\ status = "POISONED" /\ verdict[t] # "ok"
    BY <1>8 DEF CInv, CancelInv, Cancelled, Outside
  <2>2. ~Std
    BY <1>a, <2>1 DEF TypeOK, Status
  <2> QED
    BY <1>8, <1>a, <2>1, <2>2 DEF TypeOK, TaskInv, Honest, Cancelled, Consumed, PopFrame, Outside
<1>9. ASSUME NEW t \in Thread, Unwound(t)
      PROVE  TaskInv'
  <2>1. /\ pc[t] = "unwound" /\ pc[t] \notin Outside
        /\ status = "POISONED" /\ outcome[t] = "panic" /\ verdict[t] # "none"
    BY <1>9 DEF CInv, CancelInv, Unwound, Outside
  <2>2. ~Std
    BY <1>a, <2>1 DEF TypeOK, Status
  <2> QED
    BY <1>9, <1>a, <2>1, <2>2 DEF TypeOK, TaskInv, Honest, Unwound, PopFrame, Outside, taskVars
<1>10. ASSUME NEW t \in Thread,
              \/ Link(t) \/ Spin(t) \/ Park(t) \/ FutexWait(t) \/ FutexSyscall(t)
              \/ Interrupt(t) \/ Woken(t) \/ FutexWake(t) \/ Acquire(t)
       PROVE  TaskInv'
  <2>1. UNCHANGED <<closure, verdict, started, result>>
    BY <1>10 DEF Link, Spin, Park, FutexWait, FutexSyscall, Interrupt, Woken, FutexWake,
       Acquire, OnlyMoves, slotVars, taskVars
  <2>2. CASE FutexWake(t)
    <3>1. outcome' = outcome
      BY <2>2 DEF FutexWake, taskVars
    <3> QED
      BY <1>a, <2>1, <2>2, <3>1, WokenUp, TaskKept DEF Outside
  <2>3. CASE ~FutexWake(t)
    <3>1. pc[t] \notin Outside /\ pc'[t] \notin Outside
      BY <1>10, <1>a, <2>3 DEF TypeOK, Link, Spin, Park, Receive, FutexWait, FutexSyscall,
         Interrupt, Woken, Acquire, Outside
    <3>2. \A u \in Thread \ {t} : pc'[u] = pc[u] /\ outcome'[u] = outcome[u]
      BY <1>10, <1>a, <2>3 DEF TypeOK, Link, Spin, Park, Receive, FutexWait, FutexSyscall,
         Interrupt, Woken, Acquire, OnlyMoves, taskVars
    <3> QED
      BY <1>a, <2>1, <3>1, <3>2, TaskKept
  <2> QED
    BY <2>2, <2>3
<1>11. ASSUME NEW t \in Thread,
              \/ LoadNext(t) \/ Finish(t) \/ TryClose(t) \/ FinishLast(t) \/ Release(t)
              \/ AwaitSuccessor(t) \/ Promote(t) \/ Resign(t)
              \/ BombPoison(t) \/ BombLoad(t) \/ BombWake(t) \/ BombClose(t)
              \/ BombSpin(t) \/ BombLast(t)
       PROVE  TaskInv'
  <2>1. UNCHANGED <<closure, verdict, outcome, started, result>>
    BY <1>11 DEF LoadNext, Finish, TryClose, FinishLast, Release, AwaitSuccessor, Promote,
       Resign, BombPoison, BombLoad, BombWake, BombClose, BombSpin, BombLast, OnlyMoves,
       slotVars, taskVars
  <2>2. pc[t] \notin Outside /\ pc'[t] \notin Outside
    BY <1>11, <1>a DEF TypeOK, LoadNext, Finish, TryClose, FinishLast, Release,
       AwaitSuccessor, Promote, Resign, BombPoison, BombLoad, BombWake, BombClose, BombSpin,
       BombLast, Outside
  <2>3. \A u \in Thread \ {t} : pc'[u] = pc[u]
    BY <1>11, <1>a DEF TypeOK, LoadNext, Finish, TryClose, FinishLast, Release,
       AwaitSuccessor, Promote, Resign, BombPoison, BombLoad, BombWake, BombClose, BombSpin,
       BombLast
  <2> QED
    BY <1>a, <2>1, <2>2, <2>3, TaskKept
<1> QED
  BY <1>1, <1>2, <1>3, <1>4, <1>5, <1>6, <1>7, <1>8, <1>9, <1>10, <1>11 DEF Next, Step

---------------------------------------------------------------------------
(* Who is cancelled, and who unwinds *)

\* The steps that put nobody into a bomb or out of one, and tell nobody POISONED.
LEMMA CancelKept ==
  ASSUME CancelInv, status = "POISONED" => status' = "POISONED",
         \A u \in Thread :
           /\ pc'[u] \in Bombing =>
                /\ pc[u] \in Bombing /\ atom'[u] = atom[u] /\ outcome'[u] = outcome[u]
                /\ verdict'[u] = verdict[u] /\ started'[u] = started[u]
                /\ verdict'[atom[u]] # "ok" \/ verdict'[atom[u]] = verdict[atom[u]]
           /\ pc'[u] = "unwound" =>
                pc[u] = "unwound" /\ outcome'[u] = outcome[u] /\ verdict'[u] = verdict[u]
           /\ pc'[u] \in Waiting /\ futex'[u] = "POISONED" =>
                pc[u] \in Waiting /\ futex[u] = "POISONED" /\ verdict'[u] = verdict[u]
           /\ pc'[u] = "cancelled" =>
                /\ pc[u] = "cancelled" \/ (pc[u] \in Waiting /\ futex[u] = "POISONED")
                /\ verdict'[u] = verdict[u]
  PROVE  CancelInv'
  BY DEF CancelInv, Bombing

LEMMA CancelStep == IInv /\ CInv /\ [Next]_vars => CancelInv'
<1> SUFFICES ASSUME IInv, CInv, [Next]_vars PROVE CancelInv'
  OBVIOUS
<1>a. TypeOK /\ CancelInv
  BY DEF IInv, CInv
<1> USE DEF At, Goto
<1>1. CASE UNCHANGED vars
  BY <1>1, <1>a DEF CancelInv, vars, rawVars, nodeVars, slotVars, taskVars, frameVars
<1>2. ASSUME NEW t \in Thread, Call(t) \/ CheckTail(t) \/ TryAcquire(t)
      PROVE  CancelInv'
  <2>1. /\ UNCHANGED <<futex, started, atom>>
        /\ status = "POISONED" => status' = "POISONED"
        /\ \A u \in Thread \ {t} :
             pc'[u] = pc[u] /\ outcome'[u] = outcome[u] /\ verdict'[u] = verdict[u]
        /\ pc'[t] \notin Bombing \cup Waiting \cup {"unwound", "cancelled"}
    BY <1>2, <1>a DEF TypeOK, Call, CheckTail, TryAcquire, OnlyMoves, Bombing, Waiting, rawVars,
       nodeVars, slotVars, taskVars, frameVars
  <2>2. verdict'[t] \in {"none", verdict[t]}
    BY <1>2, <1>a DEF TypeOK, Call, CheckTail, TryAcquire, OnlyMoves, taskVars
  <2>3. \A u \in Thread : pc[u] \in Bombing => atom[u] \in Thread
    BY BombHasNode
  <2> QED
    BY <1>a, <2>1, <2>2, <2>3, CancelKept
<1>3. ASSUME NEW t \in Thread, FastRun(t) \/ FastUnlock(t) \/ Release(t)
      PROVE  CancelInv'
  <2>1. Holds(t) /\ status = "LOCKED" /\ pc[t] \notin Bombing \cup Waiting
    BY <1>3 DEF IInv, LockInv, FastRun, FastUnlock, Release, Holds, Combining, Bombing, Waiting
  <2>2. \A u \in Thread : pc[u] \notin Bombing
    BY <2>1 DEF IInv, LockInv
  <2> QED
    BY <1>3, <1>a, <2>1, <2>2, CancelKept DEF TypeOK, FastRun, FastUnlock, Release, Bombing,
       Waiting, rawVars, nodeVars, slotVars, taskVars, frameVars
<1>4. ASSUME NEW t \in Thread, Enqueue(t)
      PROVE  CancelInv'
  BY <1>4, <1>a, CancelKept DEF TypeOK, Enqueue, Arm, Bombing, Waiting, taskVars
<1>5. ASSUME NEW t \in Thread,
             \/ Link(t) \/ Spin(t) \/ Park(t) \/ FutexWait(t) \/ FutexSyscall(t)
             \/ Interrupt(t) \/ Woken(t)
      PROVE  CancelInv'
  <2>1. UNCHANGED <<status, started, verdict, outcome, atom>>
    BY <1>5 DEF Link, Spin, Park, FutexWait, FutexSyscall, Interrupt, Woken, OnlyMoves,
       rawVars, slotVars, taskVars, frameVars
  <2>2. /\ pc[t] \in Waiting /\ pc'[t] \notin Bombing \cup {"unwound"}
        /\ pc'[t] \in Waiting /\ futex'[t] = "POISONED" => futex[t] = "POISONED"
        /\ pc'[t] = "cancelled" => futex[t] = "POISONED"
    BY <1>5, <1>a DEF TypeOK, Link, Spin, Park, Receive, FutexWait, FutexSyscall, Interrupt,
       Woken, OnlyMoves, Bombing, Waiting, nodeVars
  <2>3. \A u \in Thread \ {t} : pc'[u] = pc[u] /\ futex'[u] = futex[u]
    BY <1>5, <1>a DEF TypeOK, Link, Spin, Park, Receive, FutexWait, FutexSyscall, Interrupt,
       Woken, OnlyMoves, nodeVars
  <2> QED
    BY <1>a, <2>1, <2>2, <2>3, CancelKept
<1>6. ASSUME NEW t \in Thread, FutexWake(t)
      PROVE  CancelInv'
  <2>1. UNCHANGED <<status, futex, started, verdict, outcome, atom>>
    BY <1>6 DEF FutexWake, rawVars, nodeVars, slotVars, taskVars, frameVars
  <2>2. \A u \in Thread : pc'[u] = pc[u] \/ (pc[u] = "asleep" /\ pc'[u] = "futexWait")
    BY <1>6, <1>a, WokenUp
  <2> QED
    BY <1>a, <2>1, <2>2, CancelKept DEF Bombing, Waiting
<1>7. ASSUME NEW t \in Thread, Acquire(t)
      PROVE  CancelInv'
  <2>1. UNCHANGED <<futex, started, verdict, atom>>
    BY <1>7 DEF Acquire, nodeVars, slotVars, taskVars
  <2>2. \A u \in Thread \ {t} : pc'[u] = pc[u] /\ outcome'[u] = outcome[u]
    BY <1>7, <1>a DEF TypeOK, Acquire
  <2>3. CASE status = "UNLOCKED"
    BY <1>7, <1>a, <2>1, <2>2, <2>3, CancelKept DEF TypeOK, Acquire, Bombing, Waiting
  <2>4. CASE status = "POISONED"
    <3>1. pc[t] = "acquire" /\ ~Std /\ Front(t) = t
      BY <1>7, <1>a, <2>4 DEF TypeOK, Status, Acquire, Front, Combining, Bombing
    <3>2. atom[t] = t /\ ~started[t] /\ verdict[t] = "none"
      BY <3>1 DEF IInv, BombInv, CInv, FreshInv, TaskInv, Outside
    <3>3. pc'[t] = "bombPoison" /\ outcome'[t] = "cancelled" /\ status' = "POISONED"
      BY <1>7, <1>a, <2>4 DEF TypeOK, Acquire
    <3> QED
      BY <1>a, <2>1, <2>2, <2>4, <3>2, <3>3 DEF CancelInv, Bombing, Waiting
  <2> QED
    BY <1>7, <2>3, <2>4 DEF Acquire
<1>8. ASSUME NEW t \in Thread, ExecBegin(t)
      PROVE  CancelInv'
  <2>1. \A u \in Thread : pc[u] \notin Bombing
    BY <1>8, Executor DEF ExecBegin, Bombing
  <2> QED
    BY <1>8, <1>a, <2>1, CancelKept DEF TypeOK, ExecBegin, Bombing, Waiting, rawVars, nodeVars,
       frameVars
<1>9. ASSUME NEW t \in Thread, ExecEnd(t)
      PROVE  CancelInv'
  <2>1. /\ pc[t] = "run" /\ status = "LOCKED" /\ cursor[t] \in Thread
        /\ \A u \in Thread : pc[u] \notin Bombing
    BY <1>9, Executor DEF ExecEnd, Bombing
  <2>2. /\ UNCHANGED <<status, futex, started, atom>>
        /\ \A u \in Thread \ {t} : pc'[u] = pc[u] /\ outcome'[u] = outcome[u]
    BY <1>9, <1>a DEF TypeOK, ExecEnd, rawVars, nodeVars, frameVars
  <2>3. \A u \in Thread : /\ pc[u] \in Waiting => futex[u] # "POISONED"
                          /\ pc[u] \notin {"cancelled", "unwound"}
    BY <1>a, <2>1 DEF CancelInv
  <2>4. CASE pc'[t] = "loadNext"
    BY <1>a, <2>1, <2>2, <2>3, <2>4 DEF CancelInv, Bombing, Waiting
  <2>5. CASE pc'[t] # "loadNext"
    <3>1. /\ ~Std /\ pc'[t] = "bombPoison" /\ outcome'[t] = "panic"
          /\ verdict' = [verdict EXCEPT ![cursor[t]] = "panic"]
      <4>1. PICK v \in {"ok", "panic"} :
              /\ verdict' = [verdict EXCEPT ![cursor[t]] = v]
              /\ IF v = "ok" \/ Std
                 THEN pc' = [pc EXCEPT ![t] = "loadNext"]
                 ELSE /\ outcome' = [outcome EXCEPT ![t] = "panic"]
                      /\ pc' = [pc EXCEPT ![t] = "bombPoison"]
        BY <1>9 DEF ExecEnd
      <4>2. v = "panic" /\ ~Std
        BY <1>a, <2>5, <4>1 DEF TypeOK
      <4> QED
        BY <1>a, <4>1, <4>2 DEF TypeOK
    <3>2. atom[t] = cursor[t]
      BY <2>1, <3>1 DEF IInv, BombInv
    <3>3. cursor[t] # t => verdict[t] # "none"
      BY <1>a, <2>1 DEF IInv, SlotInv, Combining, TypeOK, CInv, TaskInv, Outside
    <3>4. verdict'[atom[t]] = "panic" /\ verdict'[t] # "none"
      BY <1>a, <2>1, <3>1, <3>2, <3>3 DEF TypeOK
    <3> QED
      BY <1>a, <2>1, <2>2, <2>3, <3>1, <3>4 DEF CancelInv, Bombing, Waiting
  <2> QED
    BY <2>4, <2>5
<1>10. ASSUME NEW t \in Thread,
              \/ LoadNext(t) \/ Finish(t) \/ TryClose(t) \/ FinishLast(t)
              \/ AwaitSuccessor(t) \/ Promote(t) \/ Resign(t)
       PROVE  CancelInv'
  <2>1. /\ UNCHANGED <<status, started, verdict, outcome>>
        /\ \A u \in Thread \ {t} : pc'[u] = pc[u] /\ atom'[u] = atom[u]
        /\ pc'[t] \notin Bombing \cup Waiting \cup {"unwound", "cancelled"}
    BY <1>10, <1>a DEF TypeOK, LoadNext, Finish, Arm, TryClose, FinishLast, AwaitSuccessor,
       Promote, Resign, Bombing, Waiting, rawVars, slotVars, taskVars, frameVars
  <2>2. \A u \in Thread : futex'[u] = "POISONED" => futex[u] = "POISONED"
    BY <1>10, <1>a DEF TypeOK, LoadNext, Finish, Notify, TryClose, FinishLast, AwaitSuccessor,
       Promote, Resign, nodeVars
  <2> QED
    BY <1>a, <2>1, <2>2, CancelKept
<1>11. ASSUME NEW t \in Thread, Return(t) \/ Cancelled(t) \/ Unwound(t)
       PROVE  CancelInv'
  BY <1>11, <1>a, CancelKept DEF TypeOK, Return, Cancelled, Unwound, PopFrame, Bombing,
     Waiting, rawVars, taskVars
<1>12. ASSUME NEW t \in Thread,
              BombPoison(t) \/ BombLoad(t) \/ BombClose(t) \/ BombSpin(t)
       PROVE  CancelInv'
  <2>1. /\ UNCHANGED <<futex, started, verdict, outcome, atom>>
        /\ status = "POISONED" => status' = "POISONED"
        /\ \A u \in Thread \ {t} : pc'[u] = pc[u]
        /\ pc[t] \in Bombing /\ pc'[t] \in Bombing
    BY <1>12, <1>a DEF TypeOK, BombPoison, BombLoad, BombClose, BombSpin, OnlyMoves, Bombing,
       rawVars, nodeVars, slotVars, taskVars, frameVars
  <2> QED
    BY <1>a, <2>1, CancelKept DEF Bombing, Waiting
<1>13. ASSUME NEW t \in Thread, BombWake(t)
       PROVE  CancelInv'
  <2>1. /\ Drives(t) /\ succ[t] = queue[2] /\ Len(queue) > 1 /\ pc[t] = "bombWake"
        /\ status = "POISONED"
    BY <1>13, BombFacts DEF IInv, SuccInv, BombWake, Drives, Bombing
  <2>2. 2 \in 2..Len(queue)
    BY <1>a, <2>1 DEF TypeOK
  <2>3. succ[t] \in Thread /\ pc[succ[t]] \notin Outside /\ ~started[succ[t]]
    BY <2>1, <2>2, DriverView DEF CInv, FreshInv, Waits, Waiting, Outside
  <2>4. verdict[succ[t]] = "none"
    BY <2>3 DEF CInv, TaskInv
  <2>5. atom[t] \in Thread /\ verdict[atom[t]] # "ok"
    BY <1>a, <2>1, DriverView DEF CancelInv, Front, Bombing, Combining
  <2>6. /\ UNCHANGED <<status, started, verdict, outcome>>
        /\ \A u \in Thread \ {t} : pc'[u] = pc[u] /\ atom'[u] = atom[u]
        /\ pc'[t] = "bombLoad" /\ atom'[t] = succ[t]
        /\ \A u \in Thread \ {atom[t]} : futex'[u] = futex[u]
    BY <1>13, <1>a DEF TypeOK, BombWake, Notify, rawVars, slotVars, taskVars
  <2> QED
    BY <1>a, <2>1, <2>4, <2>5, <2>6 DEF CancelInv, Bombing, Waiting
<1>14. ASSUME NEW t \in Thread, BombLast(t)
       PROVE  CancelInv'
  <2>1. pc[t] = "bombLast" /\ status = "POISONED" /\ outcome[t] \in {"panic", "cancelled"}
    BY <1>14, BombFacts DEF BombLast, Bombing
  <2>2. verdict[atom[t]] # "ok"
    BY <1>a, <2>1 DEF CancelInv, Bombing
  <2>3. outcome[t] = "cancelled" => verdict[t] = "none"
    BY <2>1 DEF CInv, CancelInv, TaskInv, Bombing, Outside
  <2>4. outcome[t] = "panic" => verdict[t] # "none"
    BY <1>a, <2>1 DEF CancelInv, Bombing
  <2>5. /\ UNCHANGED <<status, started, verdict, outcome, atom>>
        /\ \A u \in Thread \ {t} : pc'[u] = pc[u]
        /\ pc'[t] = IF outcome[t] = "cancelled" THEN "cancelled" ELSE "unwound"
        /\ \A u \in Thread \ {atom[t]} : futex'[u] = futex[u]
    BY <1>14, <1>a DEF TypeOK, BombLast, Notify, rawVars, slotVars, taskVars, frameVars
  <2> QED
    BY <1>a, <2>1, <2>2, <2>3, <2>4, <2>5 DEF CancelInv, Bombing, Waiting
<1> QED
  BY <1>1, <1>2, <1>3, <1>4, <1>5, <1>6, <1>7, <1>8, <1>9, <1>10, <1>11, <1>12, <1>13, <1>14
     DEF Next, Step

---------------------------------------------------------------------------
(* The theorems about closures, outcomes, wake-ups and the free lock *)

LEMMA NextCInv == IInv /\ CInv /\ [Next]_vars => CInv'
  BY TaskStep, FreshStep, CancelStep, HolderStep DEF CInv

\* CInv holds in every reachable state of the lock.
THEOREM TaskInvariant == Spec => []CInv
<1>1. Init => CInv
  BY InitCInv
<1>2. IInv /\ CInv /\ [Next]_vars => CInv'
  BY NextCInv
<1> QED
  BY <1>1, <1>2, InductiveInvariant, PTL DEF Spec

\* A closure that was submitted is executed or dropped exactly once before run()
\* returns: ManuallyDrop and the started flag of CombinedNode agree.
THEOREM ClosuresOnce == Spec => []ClosureOnce
<1>1. CInv => ClosureOnce
  BY DEF CInv, TaskInv, ClosureOnce
<1> QED
  BY <1>1, TaskInvariant, PTL

\* What run() gives back is what the caller's own closure did, but for a panic
\* that goes through a combiner without std, and a request that the poisoned lock
\* cancelled, which then did not complete.
THEOREM OutcomesOwn == Spec => []OutcomeIsOwn
<1>1. CInv => OutcomeIsOwn
  BY DEF CInv, TaskInv, Honest, OutcomeIsOwn
<1> QED
  BY <1>1, TaskInvariant, PTL

\* No wake-up is lost between the exchange of the futex word and FUTEX_WAKE.
THEOREM WakeupsKept == Spec => []NoLostWakeup
<1>1. Init => NoLostWakeup
  BY DEF Init, NoLostWakeup
<1>2. TypeOK /\ NoLostWakeup /\ [Next]_vars => NoLostWakeup'
  BY WakeStep
<1> QED
  BY <1>1, <1>2, TypeCorrect, PTL DEF Spec

\* With no call in progress the queue is closed and the raw lock is free, or
\* disabled for good.
THEOREM LockLeftFree == Spec => []QuiescentIsFree
<1>1. IInv /\ CInv => QuiescentIsFree
  <2> SUFFICES ASSUME IInv, CInv, \A t \in Thread : pc[t] \in {"idle", "check"}
               PROVE  tail = Null /\ queue = <<>> /\ status # "LOCKED"
    BY DEF QuiescentIsFree
  <2>1. \A t \in Thread : ~Waits(t) /\ ~Drives(t) /\ ~Holds(t)
    BY DEF Waits, Drives, Holds, Promoted, Waiting, Combining
  <2>2. queue = <<>>
    <3>1. queue # <<>> => queue[1] \in Thread
      BY EmptySeq, LenProperties DEF IInv, TypeOK
    <3> QED
      BY <2>1, <3>1 DEF IInv, MemberInv
  <2> QED
    BY <2>1, <2>2 DEF IInv, LinkInv, CInv, HolderInv
<1> QED
  BY <1>1, InductiveInvariant, TaskInvariant, PTL

---------------------------------------------------------------------------
(* The lock implements SerialTasks *)

\* What the abstract state says of a thread, when a step does not concern it ...
LEMMA PhaseKept ==
  ASSUME NEW u \in Thread, pc'[u] = "idle" <=> pc[u] = "idle",
         pc[u] # "idle" => verdict'[u] = verdict[u] /\ (Runs(u)' <=> Runs(u))
  PROVE  TaskPhase'[u] = TaskPhase[u]
  BY DEF TaskPhase

LEMMA ReplyKept ==
  ASSUME NEW u \in Thread, pc'[u] = "idle" <=> pc[u] = "idle",
         pc[u] = "idle" => outcome'[u] = outcome[u]
  PROVE  TaskReply'[u] = TaskReply[u]
  BY DEF TaskReply

\* ... and of the thread it concerns.
LEMMA FunctionSet ==
  ASSUME NEW S, NEW f, NEW g, NEW x \in S, NEW y,
         f = [u \in S |-> f[u]], g = [u \in S |-> g[u]],
         g[x] = y, \A u \in S \ {x} : g[u] = f[u]
  PROVE  g = [f EXCEPT ![x] = y]
  OBVIOUS

LEMMA PhaseSet ==
  ASSUME NEW t \in Thread, NEW p, TaskPhase'[t] = p,
         \A u \in Thread \ {t} : TaskPhase'[u] = TaskPhase[u]
  PROVE  TaskPhase' = [TaskPhase EXCEPT ![t] = p]
<1>1. TaskPhase = [u \in Thread |-> TaskPhase[u]]
  BY DEF TaskPhase
<1>2. TaskPhase' = [u \in Thread |-> TaskPhase'[u]]
  BY DEF TaskPhase
<1> QED
  BY <1>1, <1>2, FunctionSet

LEMMA ReplySet ==
  ASSUME NEW t \in Thread, NEW r, TaskReply'[t] = r,
         \A u \in Thread \ {t} : TaskReply'[u] = TaskReply[u]
  PROVE  TaskReply' = [TaskReply EXCEPT ![t] = r]
<1>1. TaskReply = [u \in Thread |-> TaskReply[u]]
  BY DEF TaskReply
<1>2. TaskReply' = [u \in Thread |-> TaskReply'[u]]
  BY DEF TaskReply
<1> QED
  BY <1>1, <1>2, FunctionSet

\* Whose closure runs when a thread executes: one at most, in a lock that is
\* neither disabled nor about to be.
LEMMA RunsAlone ==
  ASSUME IInv, NEW t \in Thread, pc[t] \in {"fast", "run"}
  PROVE  /\ \A u \in Thread : Runs(u) <=> u = IF pc[t] = "fast" THEN t ELSE cursor[t]
         /\ ~TaskBroken
<1>1. Holds(t) /\ status = "LOCKED"
  BY DEF IInv, LockInv, Holds, Combining
<1>2. \A u \in Thread : pc[u] \in {"fast", "run", "bombPoison"} => u = t
  BY <1>1 DEF IInv, LockInv, Holds, Combining, Bombing
<1>3. \A u \in Thread : Runs(u) <=> u = IF pc[t] = "fast" THEN t ELSE cursor[t]
  BY <1>2 DEF Runs
<1> QED
  BY <1>1, <1>2, <1>3 DEF TaskBroken

\* Nothing runs while the raw lock is free or disabled, or in other hands.
LEMMA NothingRuns ==
  ASSUME IInv, status # "LOCKED" \/ \E t \in Thread : Holds(t) /\ ~Executing(t)
  PROVE  \A u \in Thread : ~Executing(u) /\ ~Runs(u)
<1>1. \A u \in Thread : Executing(u) => Holds(u)
  BY DEF Executing, Holds, Combining
<1>2. \A u \in Thread : ~Executing(u)
  BY <1>1 DEF IInv, LockInv
<1> QED
  BY <1>2 DEF Runs, Executing

\* A bomb that is about to go off owns the raw lock, or finds it disabled.
LEMMA BrokenOrNot ==
  ASSUME IInv, \/ status = "UNLOCKED"
               \/ \E t \in Thread : Holds(t) /\ pc[t] # "bombPoison"
  PROVE  ~TaskBroken
<1>1. status # "POISONED"
  BY DEF IInv, LockInv
<1>2. \A u \in Thread : pc[u] = "bombPoison" => Holds(u)
  BY <1>1 DEF IInv, LockInv, Bombing
<1> QED
  BY <1>1, <1>2 DEF IInv, LockInv, TaskBroken

\* The steps that callers do not see.
Unseen(t) ==
  \/ CheckTail(t) \/ Enqueue(t) \/ Link(t) \/ Spin(t) \/ Park(t) \/ FutexWait(t)
  \/ FutexSyscall(t) \/ Interrupt(t) \/ Woken(t) \/ FutexWake(t) \/ Acquire(t)
  \/ LoadNext(t) \/ Finish(t) \/ TryClose(t) \/ FinishLast(t) \/ Release(t)
  \/ AwaitSuccessor(t) \/ Promote(t) \/ Resign(t)
  \/ BombPoison(t) \/ BombLoad(t) \/ BombWake(t) \/ BombClose(t) \/ BombSpin(t)
  \/ BombLast(t)

LEMMA UnseenPc ==
  ASSUME TypeOK, NEW t \in Thread, Unseen(t)
  PROVE  \A u \in Thread :
           /\ pc'[u] = "idle" <=> pc[u] = "idle"
           /\ pc'[u] = "fast" <=> pc[u] = "fast"
           /\ pc'[u] = "run"  <=> pc[u] = "run"
           /\ pc[u] = "run"   => cursor'[u] = cursor[u]
           /\ pc[u] = "idle"  => outcome'[u] = outcome[u]
<1> USE DEF TypeOK, At, Goto
<1>1. CASE CheckTail(t) \/ FutexWait(t) \/ FutexSyscall(t) \/ Interrupt(t) \/ BombSpin(t)
  BY <1>1 DEF CheckTail, FutexWait, FutexSyscall, Interrupt, BombSpin, OnlyMoves, taskVars,
     frameVars
<1>2. CASE Enqueue(t) \/ Link(t) \/ Spin(t) \/ Park(t) \/ Woken(t) \/ Acquire(t)
  BY <1>2 DEF Enqueue, Link, Spin, Park, Woken, Receive, Acquire, taskVars
<1>3. CASE FutexWake(t)
  BY <1>3, WokenUp DEF FutexWake, taskVars, frameVars
<1>4. CASE LoadNext(t) \/ Finish(t) \/ TryClose(t) \/ FinishLast(t) \/ Release(t)
  BY <1>4 DEF LoadNext, Finish, TryClose, FinishLast, Release, taskVars, frameVars
<1>5. CASE AwaitSuccessor(t) \/ Promote(t) \/ Resign(t) \/ BombPoison(t) \/ BombLoad(t)
  BY <1>5 DEF AwaitSuccessor, Promote, Resign, BombPoison, BombLoad, taskVars, frameVars
<1>6. CASE BombWake(t) \/ BombClose(t) \/ BombLast(t)
  BY <1>6 DEF BombWake, BombClose, BombLast, taskVars, frameVars
<1> QED
  BY <1>1, <1>2, <1>3, <1>4, <1>5, <1>6 DEF Unseen

\* The lock is broken before such a step if and only if it is broken after it.
LEMMA UnseenBroken ==
  ASSUME IInv, NEW t \in Thread, Unseen(t)
  PROVE  TaskBroken' = TaskBroken
<1>a. TypeOK
  BY DEF IInv
<1> USE DEF At, Goto
<1>1. CASE BombPoison(t)
  <2>1. TaskBroken /\ TaskBroken'
    BY <1>1 DEF BombPoison, TaskBroken
  <2> QED
    BY <2>1
<1>2. CASE Acquire(t)
  <2>1. CASE status = "POISONED"
    BY <1>2, <2>1 DEF Acquire, TaskBroken
  <2>2. CASE status = "UNLOCKED"
    <3>1. ~TaskBroken
      BY <2>2, BrokenOrNot
    <3>2. status' = "LOCKED" /\ pc' = [pc EXCEPT ![t] = "exec"]
      BY <1>2, <2>2 DEF Acquire
    <3> QED
      BY <1>a, <3>1, <3>2 DEF TypeOK, TaskBroken
  <2> QED
    BY <1>2, <2>1, <2>2 DEF Acquire
<1>3. CASE Release(t)
  <2>1. ~TaskBroken
    BY <1>3, BrokenOrNot DEF Release, Holds, Combining
  <2>2. status' = "UNLOCKED" /\ pc' = [pc EXCEPT ![t] = "return"]
    BY <1>3 DEF Release
  <2> QED
    BY <1>a, <2>1, <2>2 DEF TypeOK, TaskBroken
<1>4. CASE FutexWake(t)
  BY <1>4, <1>a, WokenUp DEF FutexWake, TaskBroken, rawVars
<1>5. CASE \/ CheckTail(t) \/ Enqueue(t) \/ Link(t) \/ Spin(t) \/ Park(t) \/ FutexWait(t)
           \/ FutexSyscall(t) \/ Interrupt(t) \/ Woken(t) \/ LoadNext(t) \/ Finish(t)
           \/ TryClose(t) \/ FinishLast(t) \/ AwaitSuccessor(t) \/ Promote(t) \/ Resign(t)
           \/ BombLoad(t) \/ BombWake(t) \/ BombClose(t) \/ BombSpin(t) \/ BombLast(t)
  <2>1. status' = status
    BY <1>5 DEF CheckTail, Enqueue, Link, Spin, Park, FutexWait, FutexSyscall, Interrupt,
       Woken, LoadNext, Finish, TryClose, FinishLast, AwaitSuccessor, Promote, Resign,
       BombLoad, BombWake, BombClose, BombSpin, BombLast, OnlyMoves, rawVars
  <2>2. \A u \in Thread : pc'[u] = "bombPoison" <=> pc[u] = "bombPoison"
    BY <1>5, <1>a DEF TypeOK, CheckTail, Enqueue, Link, Spin, Park, Receive, FutexWait,
       FutexSyscall, Interrupt, Woken, LoadNext, Finish, TryClose, FinishLast,
       AwaitSuccessor, Promote, Resign, BombLoad, BombWake, BombClose, BombSpin, BombLast
  <2> QED
    BY <2>1, <2>2 DEF TaskBroken
<1> QED
  BY <1>1, <1>2, <1>3, <1>4, <1>5 DEF Unseen

LEMMA UnseenStep ==
  ASSUME IInv, NEW t \in Thread, Unseen(t)
  PROVE  UNCHANGED Serial!tvars
<1>1. verdict' = verdict
  BY DEF Unseen, CheckTail, Enqueue, Link, Spin, Park, FutexWait, FutexSyscall, Interrupt,
     Woken, FutexWake, Acquire, LoadNext, Finish, TryClose, FinishLast, Release,
     AwaitSuccessor, Promote, Resign, BombPoison, BombLoad, BombWake, BombClose, BombSpin,
     BombLast, OnlyMoves, taskVars
<1>2. /\ \A u \in Thread : pc'[u] = "idle" <=> pc[u] = "idle"
      /\ \A u \in Thread : pc[u] = "idle" => outcome'[u] = outcome[u]
      /\ \A u \in Thread : Runs(u)' <=> Runs(u)
  BY UnseenPc DEF IInv, Runs
<1>3. TaskPhase' = TaskPhase
  BY <1>1, <1>2, PhaseKept DEF TaskPhase
<1>4. TaskReply' = TaskReply
  BY <1>2, ReplyKept DEF TaskReply
<1> QED
  BY <1>3, <1>4, UnseenBroken DEF Serial!tvars

LEMMA InitSerial == Init => Serial!Init
<1> SUFFICES ASSUME Init PROVE Serial!Init
  OBVIOUS
<1>1. /\ TaskPhase = [t \in Thread |-> "idle"]
      /\ TaskReply = [t \in Thread |-> "none"]
      /\ TaskBroken = FALSE
  BY DEF Init, TaskPhase, TaskReply, TaskBroken
<1> QED
  BY <1>1 DEF Serial!Init

\* A call submits a closure.
LEMMA CallSerial == ASSUME IInv, NEW t \in Thread, Call(t) PROVE Serial!Submit(t)
<1> USE DEF At, Goto
<1>a. TypeOK /\ pc[t] = "idle"
  BY DEF IInv, Call
<1>1. \A u \in Thread : pc[u] = "run" => cursor[u] # t
  BY <1>a, Detached DEF Drives, Front, Combining, Outside
<1>2. /\ \A u \in Thread \ {t} : /\ pc'[u] = pc[u] /\ verdict'[u] = verdict[u]
                              /\ outcome'[u] = outcome[u]
      /\ pc'[t] = "check" /\ verdict'[t] = "none"
      /\ cursor' = cursor /\ status' = status
  BY <1>a DEF TypeOK, Call, frameVars, rawVars
<1>3. ~Runs(t)' /\ \A u \in Thread \ {t} : Runs(u)' <=> Runs(u)
  BY <1>a, <1>1, <1>2 DEF Runs
<1>4. TaskPhase' = [TaskPhase EXCEPT ![t] = "pending"]
  <2>1. TaskPhase'[t] = "pending"
    BY <1>2, <1>3 DEF TaskPhase
  <2> QED
    BY <1>2, <1>3, <2>1, PhaseKept, PhaseSet
<1>5. TaskReply' = [TaskReply EXCEPT ![t] = "none"]
  <2>1. TaskReply'[t] = "none"
    BY <1>2 DEF TaskReply
  <2> QED
    BY <1>2, <2>1, ReplyKept, ReplySet
<1>6. TaskBroken' = TaskBroken
  BY <1>a, <1>2 DEF TaskBroken
<1>7. TaskPhase[t] = "idle"
  BY <1>a DEF TaskPhase
<1> QED
  BY <1>4, <1>5, <1>6, <1>7 DEF Serial!Submit

\* try_acquire begins the closure on the spot, gives the task to the queue, or
\* cancels it.
LEMMA TryAcquireSerial ==
  ASSUME IInv, CInv, NEW t \in Thread, TryAcquire(t)
  PROVE  \/ pc'[t] = "fast" /\ Serial!Begin(t)
         \/ pc'[t] # "fast" /\ (Serial!Cancel(t) \/ UNCHANGED Serial!tvars)
<1> USE DEF At, Goto
<1>a. TypeOK /\ pc[t] = "tryAcquire" /\ verdict[t] = "none"
  BY DEF IInv, CInv, TaskInv, TryAcquire
<1>1. \A u \in Thread : pc[u] = "run" => cursor[u] # t
  BY <1>a, Detached DEF Drives, Front, Combining, Outside
<1>2. ~Runs(t) /\ TaskPhase[t] = "pending"
  BY <1>a, <1>1 DEF Runs, TaskPhase
<1>3. verdict' = verdict /\ cursor' = cursor
  BY DEF TryAcquire, frameVars
<1>4. CASE status = "UNLOCKED"
  <2>1. /\ status' = "LOCKED" /\ pc' = [pc EXCEPT ![t] = "fast"] /\ outcome' = outcome
    BY <1>4 DEF TryAcquire
  <2>2. ~TaskBroken
    BY <1>4, BrokenOrNot
  <2>3. ~TaskBroken'
    BY <1>a, <2>1, <2>2 DEF TypeOK, TaskBroken
  <2>4. \A u \in Thread : ~Runs(u) /\ pc[u] # "run"
    BY <1>4, NothingRuns DEF Executing
  <2>5. Runs(t)' /\ \A u \in Thread \ {t} : ~Runs(u)'
    BY <1>a, <1>3, <2>1, <2>4 DEF TypeOK, Runs
  <2>6. \A u \in Thread : TaskPhase[u] # "running"
    BY <1>a, <2>4 DEF TypeOK, TaskPhase
  <2>7. pc'[t] = "fast" /\ \A u \in Thread \ {t} : pc'[u] = pc[u]
    BY <1>a, <2>1 DEF TypeOK
  <2>8. TaskPhase' = [TaskPhase EXCEPT ![t] = "running"]
    <3>1. TaskPhase'[t] = "running"
      BY <1>a, <1>3, <2>5, <2>7 DEF TaskPhase
    <3> QED
      BY <1>3, <2>4, <2>5, <2>7, <3>1, PhaseKept, PhaseSet
  <2>9. TaskReply' = TaskReply
    BY <1>a, <2>1, <2>7 DEF TaskReply
  <2>10. TaskBroken' = TaskBroken
    BY <2>2, <2>3 DEF TaskBroken
  <2> QED
    BY <1>2, <2>2, <2>6, <2>7, <2>8, <2>9, <2>10 DEF Serial!Begin
<1>5. CASE status = "LOCKED"
  <2>1. status' = "LOCKED" /\ outcome' = outcome /\ pc' = [pc EXCEPT ![t] = "enqueue"]
    BY <1>5 DEF TryAcquire
  <2>2. pc'[t] = "enqueue" /\ \A u \in Thread \ {t} : pc'[u] = pc[u]
    BY <1>a, <2>1 DEF TypeOK
  <2>3. \A u \in Thread : Runs(u)' <=> Runs(u)
    BY <1>a, <1>3, <2>2 DEF Runs
  <2>4. \A u \in Thread : TaskPhase'[u] = TaskPhase[u] /\ TaskReply'[u] = TaskReply[u]
    BY <1>a, <1>3, <2>1, <2>2, <2>3, PhaseKept, ReplyKept
  <2>5. TaskPhase' = TaskPhase /\ TaskReply' = TaskReply
    BY <2>4 DEF TaskPhase, TaskReply
  <2>6. TaskBroken' = TaskBroken
    BY <1>a, <1>5, <2>1, <2>2 DEF TaskBroken
  <2> QED
    BY <2>2, <2>5, <2>6 DEF Serial!tvars
<1>6. CASE status = "POISONED"
  <2>1. /\ status' = "POISONED" /\ outcome'[t] = "cancelled" /\ pc'[t] = "idle"
        /\ \A u \in Thread \ {t} : pc'[u] = pc[u] /\ outcome'[u] = outcome[u]
    BY <1>a, <1>6 DEF TypeOK, TryAcquire
  <2>2. \A u \in Thread \ {t} : Runs(u)' <=> Runs(u)
    BY <1>a, <1>3, <2>1 DEF Runs
  <2>3. TaskPhase' = [TaskPhase EXCEPT ![t] = "idle"]
    <3>1. TaskPhase'[t] = "idle"
      BY <2>1 DEF TaskPhase
    <3> QED
      BY <1>3, <2>1, <2>2, <3>1, PhaseKept, PhaseSet
  <2>4. TaskReply' = [TaskReply EXCEPT ![t] = "cancelled"]
    <3>1. TaskReply'[t] = "cancelled"
      BY <2>1 DEF TaskReply
    <3> QED
      BY <2>1, <3>1, ReplyKept, ReplySet
  <2>5. TaskBroken /\ TaskBroken' = TaskBroken
    BY <1>6, <2>1 DEF TaskBroken
  <2> QED
    BY <1>2, <2>1, <2>3, <2>4, <2>5 DEF Serial!Cancel
<1> QED
  BY <1>4, <1>5, <1>6 DEF TryAcquire

\* The closure of the fast path ends on its own caller.
LEMMA FastRunSerial ==
  ASSUME IInv, CInv, NEW t \in Thread, FastRun(t)
  PROVE  verdict'[t] \in {"ok", "panic"} /\ Serial!End(t, verdict'[t])
<1> USE DEF At, Goto
<1>a. TypeOK /\ pc[t] = "fast" /\ verdict[t] = "none"
  BY DEF IInv, CInv, TaskInv, FastRun
<1>1. PICK v \in {"ok", "panic"} :
        verdict' = [verdict EXCEPT ![t] = v] /\ outcome' = [outcome EXCEPT ![t] = v]
  BY DEF FastRun
<1>2. /\ pc'[t] = "unlock" /\ verdict'[t] = v /\ status' = status /\ cursor' = cursor
      /\ \A u \in Thread \ {t} : /\ pc'[u] = pc[u] /\ verdict'[u] = verdict[u]
                              /\ outcome'[u] = outcome[u]
  BY <1>a, <1>1 DEF TypeOK, FastRun, frameVars, rawVars
<1>3. Runs(t) /\ (\A u \in Thread \ {t} : ~Runs(u)) /\ ~TaskBroken
  BY <1>a, RunsAlone
<1>4. \A u \in Thread \ {t} : ~Runs(u)'
  BY <1>2, <1>3 DEF Runs
<1>5. TaskPhase[t] = "running"
  BY <1>a, <1>3 DEF TaskPhase
<1>6. TaskPhase' = [TaskPhase EXCEPT ![t] = v]
  <2>1. TaskPhase'[t] = v
    BY <1>2 DEF TaskPhase
  <2> QED
    BY <1>2, <1>3, <1>4, <2>1, PhaseKept, PhaseSet
<1>7. TaskReply' = TaskReply
  <2>1. \A u \in Thread : TaskReply'[u] = TaskReply[u]
    BY <1>a, <1>2, ReplyKept
  <2> QED
    BY <2>1 DEF TaskReply
<1>8. TaskBroken' = TaskBroken
  BY <1>a, <1>2 DEF TaskBroken
<1> QED
  BY <1>2, <1>5, <1>6, <1>7, <1>8 DEF Serial!End

\* The guard is dropped and the call returns what the closure did.
LEMMA FastUnlockSerial ==
  ASSUME IInv, CInv, NEW t \in Thread, FastUnlock(t)
  PROVE  \E r \in {"ok", "panic", "cancelled"} : Serial!Reply(t, r)
<1> USE DEF At, Goto
<1>a. TypeOK /\ pc[t] = "unlock" /\ verdict[t] # "none" /\ outcome[t] = verdict[t]
  BY DEF IInv, CInv, TaskInv, FastUnlock
<1>1. /\ pc'[t] = "idle" /\ verdict' = verdict /\ outcome' = outcome /\ cursor' = cursor
      /\ status' = "UNLOCKED" /\ \A u \in Thread \ {t} : pc'[u] = pc[u]
  BY <1>a DEF TypeOK, FastUnlock, frameVars, taskVars
<1>2. outcome[t] \in {"ok", "panic"} /\ TaskPhase[t] = outcome[t]
  BY <1>a DEF TypeOK, TaskPhase
<1>3. \A u \in Thread \ {t} : Runs(u)' <=> Runs(u)
  BY <1>a, <1>1 DEF Runs
<1>4. TaskPhase' = [TaskPhase EXCEPT ![t] = "idle"]
  <2>1. TaskPhase'[t] = "idle"
    BY <1>1 DEF TaskPhase
  <2> QED
    BY <1>1, <1>3, <2>1, PhaseKept, PhaseSet
<1>5. TaskReply' = [TaskReply EXCEPT ![t] = outcome[t]]
  <2>1. TaskReply'[t] = outcome[t]
    BY <1>1 DEF TaskReply
  <2> QED
    BY <1>1, <2>1, ReplyKept, ReplySet
<1>6. ~TaskBroken
  BY <1>a, BrokenOrNot DEF Holds
<1>7. TaskBroken' = TaskBroken
  BY <1>1, <1>6 DEF TaskBroken
<1> QED
  BY <1>2, <1>4, <1>5, <1>7 DEF Serial!Reply

\* A combiner begins the closure of the node it is at.
LEMMA ExecBeginSerial ==
  ASSUME IInv, CInv, NEW t \in Thread, ExecBegin(t)
  PROVE  Serial!Begin(cursor[t])
<1> USE DEF At, Goto
<1>a. TypeOK /\ pc[t] = "exec"
  BY DEF IInv, ExecBegin
<1>1. PICK n \in Thread : n = cursor[t] /\ pc[n] \notin Outside /\ ~started[n]
  BY <1>a, Executor DEF CInv, FreshInv, Front, Combining
<1>2. verdict[n] = "none"
  BY <1>1 DEF CInv, TaskInv
<1>3. Holds(t) /\ pc[t] # "bombPoison" /\ ~Executing(t)
  BY <1>a DEF Holds, Combining, Executing
<1>4. /\ ~TaskBroken /\ \A u \in Thread : ~Runs(u) /\ pc[u] \notin {"fast", "run"}
  BY <1>3, BrokenOrNot, NothingRuns DEF Executing
<1>5. /\ pc'[t] = "run" /\ verdict' = verdict /\ outcome' = outcome /\ cursor' = cursor
      /\ status' = status /\ \A u \in Thread \ {t} : pc'[u] = pc[u]
  BY <1>a DEF TypeOK, ExecBegin, rawVars, frameVars
<1>6. Runs(n)' /\ \A u \in Thread \ {n} : ~Runs(u)'
  BY <1>1, <1>4, <1>5 DEF Runs
<1>7. TaskPhase[n] = "pending" /\ \A u \in Thread : TaskPhase[u] # "running"
  BY <1>a, <1>1, <1>2, <1>4 DEF TypeOK, TaskPhase, Outside
<1>8. TaskPhase' = [TaskPhase EXCEPT ![n] = "running"]
  <2>1. TaskPhase'[n] = "running"
    BY <1>1, <1>2, <1>5, <1>6 DEF TaskPhase, Outside
  <2>2. \A u \in Thread \ {n} : TaskPhase'[u] = TaskPhase[u]
    BY <1>a, <1>4, <1>5, <1>6, PhaseKept
  <2> QED
    BY <2>1, <2>2, PhaseSet
<1>9. TaskReply' = TaskReply
  <2>1. \A u \in Thread : TaskReply'[u] = TaskReply[u]
    BY <1>a, <1>5, ReplyKept
  <2> QED
    BY <2>1 DEF TaskReply
<1>10. TaskBroken' = TaskBroken
  BY <1>a, <1>5 DEF TaskBroken
<1> QED
  BY <1>1, <1>4, <1>7, <1>8, <1>9, <1>10 DEF Serial!Begin

\* The closure a combiner executes ends; without std a panic breaks the lock.
LEMMA ExecEndSerial ==
  ASSUME IInv, CInv, NEW t \in Thread, ExecEnd(t)
  PROVE  /\ verdict'[cursor[t]] \in {"ok", "panic"}
         /\ Serial!End(cursor[t], verdict'[cursor[t]])
<1> USE DEF At, Goto
<1>a. TypeOK /\ pc[t] = "run"
  BY DEF IInv, ExecEnd
<1>1. PICK n \in Thread : n = cursor[t] /\ pc[n] \notin Outside /\ verdict[n] = "none"
  BY <1>a, Executor DEF CInv, FreshInv
<1>2. PICK v \in {"ok", "panic"} :
        /\ verdict' = [verdict EXCEPT ![n] = v]
        /\ IF v = "ok" \/ Std
           THEN outcome' = outcome /\ pc' = [pc EXCEPT ![t] = "loadNext"]
           ELSE /\ outcome' = [outcome EXCEPT ![t] = "panic"]
                /\ pc' = [pc EXCEPT ![t] = "bombPoison"]
  BY <1>1 DEF ExecEnd
<1>3. /\ verdict'[n] = v /\ \A u \in Thread \ {n} : verdict'[u] = verdict[u]
      /\ cursor' = cursor /\ status' = status
      /\ \A u \in Thread \ {t} : pc'[u] = pc[u] /\ outcome'[u] = outcome[u]
      /\ pc'[t] = IF v = "ok" \/ Std THEN "loadNext" ELSE "bombPoison"
  <2>1. cursor' = cursor /\ status' = status
    BY DEF ExecEnd, frameVars, rawVars
  <2> QED
    BY <1>a, <1>1, <1>2, <2>1 DEF TypeOK
<1>4. Runs(n) /\ (\A u \in Thread \ {n} : ~Runs(u)) /\ ~TaskBroken
  BY <1>a, <1>1, RunsAlone
<1>5. status # "POISONED" /\ \A u \in Thread : pc[u] # "bombPoison"
  BY <1>4 DEF TaskBroken
<1>6. \A u \in Thread \ {n} : ~Runs(u)'
  BY <1>1, <1>3, <1>4 DEF Runs
<1>7. TaskPhase[n] = "running"
  BY <1>1, <1>4 DEF TaskPhase, Outside
<1>8. \A u \in Thread : pc'[u] = "idle" <=> pc[u] = "idle"
  BY <1>a, <1>3
<1>9. TaskPhase' = [TaskPhase EXCEPT ![n] = v]
  <2>1. TaskPhase'[n] = v
    BY <1>1, <1>3, <1>8 DEF TaskPhase, Outside
  <2> QED
    BY <1>3, <1>4, <1>6, <1>8, <2>1, PhaseKept, PhaseSet
<1>10. TaskReply' = TaskReply
  <2>1. \A u \in Thread : TaskReply'[u] = TaskReply[u]
    BY <1>a, <1>3, <1>8, ReplyKept
  <2> QED
    BY <2>1 DEF TaskReply
<1>11. CASE v = "ok" \/ Std
  <2>1. TaskBroken' = TaskBroken
    BY <1>3, <1>5, <1>11 DEF TaskBroken
  <2> QED
    BY <1>1, <1>3, <1>7, <1>9, <1>10, <2>1 DEF Serial!End
<1>12. CASE ~(v = "ok" \/ Std)
  <2>1. v = "panic" /\ ~Std /\ TaskBroken' = TRUE
    BY <1>3, <1>12 DEF TaskBroken
  <2> QED
    BY <1>1, <1>3, <1>7, <1>9, <1>10, <2>1 DEF Serial!End
<1> QED
  BY <1>11, <1>12

\* What the three ways out of run_slowly have in common.
LEMMA LeaveSerial ==
  ASSUME IInv, NEW t \in Thread, Return(t) \/ Cancelled(t) \/ Unwound(t)
  PROVE  /\ TaskPhase' = [TaskPhase EXCEPT ![t] = "idle"]
         /\ TaskReply' = [TaskReply EXCEPT ![t] = outcome'[t]]
         /\ TaskBroken' = TaskBroken
<1> USE DEF At, Goto
<1>a. TypeOK
  BY DEF IInv
<1>1. /\ pc'[t] = "idle" /\ pc[t] \in {"return", "cancelled", "unwound"}
      /\ verdict' = verdict /\ status' = status
      /\ \A u \in Thread \ {t} : /\ pc'[u] = pc[u] /\ cursor'[u] = cursor[u]
                              /\ outcome'[u] = outcome[u]
  BY <1>a DEF TypeOK, Return, Cancelled, Unwound, PopFrame, taskVars, rawVars
<1>2. \A u \in Thread \ {t} : Runs(u)' <=> Runs(u)
  BY <1>1 DEF Runs
<1>3. TaskPhase'[t] = "idle" /\ TaskReply'[t] = outcome'[t]
  BY <1>1 DEF TaskPhase, TaskReply
<1>4. TaskPhase' = [TaskPhase EXCEPT ![t] = "idle"]
  BY <1>1, <1>2, <1>3, PhaseKept, PhaseSet
<1>5. TaskReply' = [TaskReply EXCEPT ![t] = outcome'[t]]
  BY <1>1, <1>3, ReplyKept, ReplySet
<1>6. TaskBroken' = TaskBroken
  BY <1>1 DEF TaskBroken
<1> QED
  BY <1>4, <1>5, <1>6

\* The stored result goes back to the caller.
LEMMA ReturnSerial ==
  ASSUME IInv, CInv, NEW t \in Thread, Return(t)
  PROVE  \E r \in {"ok", "panic", "cancelled"} : Serial!Reply(t, r)
<1>a. TypeOK /\ pc[t] = "return"
  BY DEF IInv, Return, At
<1>1. result[t] \in {"ok", "panic"} /\ verdict[t] = result[t]
  BY <1>a DEF IInv, SlotInv, CInv, TaskInv, TypeOK, Outside
<1>2. TaskPhase[t] = result[t]
  BY <1>a, <1>1 DEF TaskPhase
<1>3. outcome'[t] = result[t]
  BY <1>a DEF TypeOK, Return
<1> QED
  BY <1>1, <1>2, <1>3, LeaveSerial DEF Serial!Reply

\* The poisoned lock cancels a task that is pending, or whose own panic went on
\* in its combiner.
LEMMA CancelledSerial ==
  ASSUME IInv, CInv, NEW t \in Thread, Cancelled(t)
  PROVE  Serial!Cancel(t) \/ Serial!Reply(t, "cancelled")
<1>a. TypeOK /\ pc[t] = "cancelled"
  BY DEF IInv, Cancelled, At
<1>1. status = "POISONED" /\ verdict[t] \in {"none", "panic"}
  BY <1>a DEF CInv, CancelInv, TypeOK
<1>2. TaskBroken /\ ~Runs(t)
  BY <1>1, NothingRuns DEF TaskBroken
<1>3. outcome'[t] = "cancelled"
  BY <1>a DEF TypeOK, Cancelled
<1>4. CASE verdict[t] = "none"
  <2>1. TaskPhase[t] = "pending"
    BY <1>a, <1>2, <1>4 DEF TaskPhase
  <2> QED
    BY <1>2, <1>3, <2>1, LeaveSerial DEF Serial!Cancel
<1>5. CASE verdict[t] = "panic"
  <2>1. TaskPhase[t] = "panic"
    BY <1>a, <1>5 DEF TaskPhase
  <2> QED
    BY <1>2, <1>3, <2>1, LeaveSerial DEF Serial!Reply
<1> QED
  BY <1>1, <1>4, <1>5

\* The panic of a combiner without std goes to its own caller.
LEMMA UnwoundSerial ==
  ASSUME IInv, CInv, NEW t \in Thread, Unwound(t)
  PROVE  Serial!Reply(t, "panic")
<1>a. TypeOK /\ pc[t] = "unwound"
  BY DEF IInv, Unwound, At
<1>1. status = "POISONED" /\ outcome[t] = "panic" /\ verdict[t] \in {"ok", "panic"}
  BY <1>a DEF CInv, CancelInv, TypeOK
<1>2. TaskPhase[t] \in {"ok", "panic"} /\ TaskBroken
  BY <1>a, <1>1 DEF TaskPhase, TaskBroken
<1>3. outcome'[t] = "panic"
  BY <1>1 DEF Unwound, taskVars
<1> QED
  BY <1>2, <1>3, LeaveSerial DEF Serial!Reply

\* Every step of the lock is a step of SerialTasks or changes nothing there.
LEMMA NextSerial == IInv /\ CInv /\ [Next]_vars => [Serial!Next]_(Serial!tvars)
<1> SUFFICES ASSUME IInv, CInv, [Next]_vars PROVE [Serial!Next]_(Serial!tvars)
  OBVIOUS
<1>1. CASE UNCHANGED vars
  <2>1. TaskPhase' = TaskPhase /\ TaskReply' = TaskReply /\ TaskBroken' = TaskBroken
    BY <1>1 DEF vars, rawVars, taskVars, frameVars, TaskPhase, TaskReply, TaskBroken, Runs
  <2> QED
    BY <2>1 DEF Serial!tvars
<1>2. ASSUME NEW t \in Thread, Unseen(t) PROVE [Serial!Next]_(Serial!tvars)
  BY <1>2, UnseenStep
<1>3. ASSUME NEW t \in Thread, Call(t) PROVE [Serial!Next]_(Serial!tvars)
  BY <1>3, CallSerial DEF Serial!Next
<1>4. ASSUME NEW t \in Thread, TryAcquire(t) PROVE [Serial!Next]_(Serial!tvars)
  BY <1>4, TryAcquireSerial DEF Serial!Next
<1>5. ASSUME NEW t \in Thread, FastRun(t) PROVE [Serial!Next]_(Serial!tvars)
  BY <1>5, FastRunSerial DEF Serial!Next
<1>6. ASSUME NEW t \in Thread, FastUnlock(t) PROVE [Serial!Next]_(Serial!tvars)
  BY <1>6, FastUnlockSerial DEF Serial!Next
<1>7. ASSUME NEW t \in Thread, ExecBegin(t) PROVE [Serial!Next]_(Serial!tvars)
  <2>1. cursor[t] \in Thread
    BY <1>7, Executor DEF ExecBegin, At
  <2> QED
    BY <1>7, <2>1, ExecBeginSerial DEF Serial!Next
<1>8. ASSUME NEW t \in Thread, ExecEnd(t) PROVE [Serial!Next]_(Serial!tvars)
  <2>1. cursor[t] \in Thread
    BY <1>8, Executor DEF ExecEnd, At
  <2> QED
    BY <1>8, <2>1, ExecEndSerial DEF Serial!Next
<1>9. ASSUME NEW t \in Thread, Return(t) PROVE [Serial!Next]_(Serial!tvars)
  BY <1>9, ReturnSerial DEF Serial!Next
<1>10. ASSUME NEW t \in Thread, Cancelled(t) PROVE [Serial!Next]_(Serial!tvars)
  BY <1>10, CancelledSerial DEF Serial!Next
<1>11. ASSUME NEW t \in Thread, Unwound(t) PROVE [Serial!Next]_(Serial!tvars)
  BY <1>11, UnwoundSerial DEF Serial!Next
<1> QED
  BY <1>1, <1>2, <1>3, <1>4, <1>5, <1>6, <1>7, <1>8, <1>9, <1>10, <1>11
     DEF Next, Step, Unseen

\* The queue, its combiners, the hand-overs and the bomb together do what a serial
\* executor of the callers' closures may do, and nothing else.
THEOREM Refinement == Spec => ImplementsSerialTasks
<1>1. Init => Serial!Init
  BY InitSerial
<1>2. IInv /\ CInv /\ [Next]_vars => [Serial!Next]_(Serial!tvars)
  BY NextSerial
<1> QED
  BY <1>1, <1>2, InductiveInvariant, TaskInvariant, PTL
     DEF Spec, ImplementsSerialTasks, Serial!Spec

=============================================================================
