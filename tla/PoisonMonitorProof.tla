------------------------- MODULE PoisonMonitorProof -------------------------
(***************************************************************************)
(* The proof that PoisonLock implements PoisonMonitor, for every set of    *)
(* threads, every set of methods and both values of Std.                   *)
(*                                                                         *)
(* The queue below the wrappers is a serial executor: each step of it is a *)
(* step of SerialTasks or invisible there (FlatCombiningTaskProof).  What  *)
(* is left is to follow one wrapper through the phases of its task, and to *)
(* show that it is an atomic operation on the flag because no other is     *)
(* under way.                                                              *)
(***************************************************************************)
EXTENDS PoisonLockProof, FlatCombiningTaskProof

\* How far the wrapper of a request is in each phase of its task.
WrapInv ==
  \A t \in Thread :
    /\ stage[t] = "user" => TaskPhase[t] = "running"
    /\ TaskPhase[t] # "idle" => request[t] # "none"
    /\ TaskPhase[t] = "pending" => stage[t] = "before"
    /\ TaskPhase[t] = "running" /\ stage[t] = "after" => answer[t] # "none"
    /\ TaskPhase[t] \in {"ok", "panic"} =>
         stage[t] = "after" /\ (answer[t] = "none" <=> TaskPhase[t] = "panic")

---------------------------------------------------------------------------
(* The two refinement mappings *)

Phases  == {"idle", "pending", "running", "ok", "panic"}
Methods == {"run", "poison", "unpoison"}
Effects == {"poisoned", "done", "declined", "recovered", "panic"}

\* What the monitor sees of a thread, from the phase of its task.
MappedRequest(t) == IF TaskPhase[t] = "idle" THEN "none" ELSE request[t]
MappedEffect(t)  ==
  IF TaskPhase[t] = "idle" \/ stage[t] # "after" THEN "none"
  ELSE IF answer[t] = "none" THEN "panic" ELSE answer[t]
MappedReply(t)   ==
  IF TaskPhase[t] # "idle" THEN "none"
  ELSE IF TaskReply[t] = "ok" THEN answer[t]
  ELSE IF TaskReply[t] = "cancelled" THEN "poisoned" ELSE TaskReply[t]

Mapping ==
  /\ TaskPhase \in [Thread -> Phases]
  /\ TaskReply \in [Thread -> {"none", "ok", "panic", "cancelled"}]
  /\ TaskBroken \in BOOLEAN
  /\ MonitorRequest = [t \in Thread |-> MappedRequest(t)]
  /\ MonitorEffect  = [t \in Thread |-> MappedEffect(t)]
  /\ PoisonReply    = [t \in Thread |-> MappedReply(t)]
  /\ MonitorDisabled = TaskBroken

LEMMA MappingHolds == TypeOK => Mapping
<1> SUFFICES ASSUME TypeOK PROVE Mapping
  OBVIOUS
<1>1. TaskPhase \in [Thread -> Phases]
  BY DEF TypeOK, TaskPhase, Phases
<1>2. TaskReply \in [Thread -> {"none", "ok", "panic", "cancelled"}]
  BY DEF TypeOK, TaskReply
<1>3. TaskBroken \in BOOLEAN /\ MonitorDisabled = TaskBroken
  BY DEF TaskBroken, MonitorDisabled
<1>4. \A t \in Thread : /\ TaskPhase[t] = "idle" <=> pc[t] = "idle"
                        /\ pc[t] = "idle" => TaskReply[t] = outcome[t]
  BY DEF TypeOK, TaskPhase, TaskReply
<1>5. MonitorRequest = [t \in Thread |-> MappedRequest(t)]
  BY <1>4 DEF MonitorRequest, MappedRequest
<1>6. MonitorEffect = [t \in Thread |-> MappedEffect(t)]
  BY <1>4 DEF MonitorEffect, MappedEffect
<1>7. PoisonReply = [t \in Thread |-> MappedReply(t)]
  BY <1>4 DEF PoisonReply, MappedReply
<1> QED
  BY <1>1, <1>2, <1>3, <1>5, <1>6, <1>7 DEF Mapping

\* The same of the state after a step.
LEMMA MappingPrimed == TypeOK' => Mapping'
  BY MappingHolds, PTL

\* Of the caller's closures only one is under way, and none when none runs.
LEMMA NoUser ==
  ASSUME PTypeOK, WrapInv, \A u \in Thread : TaskPhase[u] # "running"
  PROVE  MonitorFlag = poisoned /\ \A u \in Thread : stage[u] # "user"
<1>1. \A u \in Thread : stage[u] # "user"
  BY DEF WrapInv
<1>2. poisoned \in BOOLEAN
  BY DEF PTypeOK
<1> QED
  BY <1>1, <1>2 DEF MonitorFlag

---------------------------------------------------------------------------
(* One lemma for each kind of step of the serial executor *)

LEMMA SubmitMonitor ==
  ASSUME Mapping, Mapping', PTypeOK, WrapInv, NEW t \in Thread, NEW r \in Methods,
         Serial!Submit(t), request' = [request EXCEPT ![t] = r],
         stage' = [stage EXCEPT ![t] = "before"], answer' = [answer EXCEPT ![t] = "none"],
         poisoned' = poisoned
  PROVE  Monitor!Submit(t, r) /\ WrapInv'
<1>1. /\ TaskPhase[t] = "idle" /\ TaskPhase' = [TaskPhase EXCEPT ![t] = "pending"]
      /\ TaskReply' = [TaskReply EXCEPT ![t] = "none"] /\ TaskBroken' = TaskBroken
  BY DEF Serial!Submit
<1>2. /\ TaskPhase'[t] = "pending" /\ request'[t] = r /\ stage'[t] = "before"
      /\ \A u \in Thread \ {t} :
           /\ TaskPhase'[u] = TaskPhase[u] /\ TaskReply'[u] = TaskReply[u]
           /\ request'[u] = request[u] /\ stage'[u] = stage[u] /\ answer'[u] = answer[u]
  BY <1>1 DEF Mapping, PTypeOK
<1>3. WrapInv'
  BY <1>1, <1>2 DEF WrapInv, Methods
<1>4. MonitorRequest[t] = "none" /\ MonitorRequest' = [MonitorRequest EXCEPT ![t] = r]
  BY <1>1, <1>2 DEF Mapping, MappedRequest
<1>5. MonitorEffect' = MonitorEffect
  BY <1>1, <1>2 DEF Mapping, MappedEffect
<1>6. PoisonReply' = [PoisonReply EXCEPT ![t] = "none"]
  BY <1>1, <1>2 DEF Mapping, MappedReply
<1>7. MonitorDisabled' = MonitorDisabled
  BY <1>1 DEF Mapping
<1>8. MonitorFlag' = MonitorFlag
  <2>1. stage[t] # "user"
    BY <1>1 DEF WrapInv
  <2> QED
    BY <1>2, <2>1 DEF MonitorFlag
<1> QED
  BY <1>3, <1>4, <1>5, <1>6, <1>7, <1>8 DEF Monitor!Submit

\* A wrapper begins: a refusal, and poison(), take effect at once.
LEMMA BeginMonitor ==
  ASSUME Mapping, Mapping', PTypeOK, WrapInv, NEW n \in Thread,
         Serial!Begin(n), Enter(n)
  PROVE  /\ (\E e \in Effects : Monitor!TakeEffect(n, e)) \/ UNCHANGED Monitor!mvars
         /\ WrapInv'
<1>1. /\ TaskPhase[n] = "pending" /\ TaskPhase' = [TaskPhase EXCEPT ![n] = "running"]
      /\ TaskReply' = TaskReply /\ TaskBroken' = TaskBroken /\ ~TaskBroken
      /\ \A u \in Thread : TaskPhase[u] # "running"
  BY DEF Serial!Begin
<1>2. stage[n] = "before" /\ request[n] # "none"
  BY <1>1 DEF WrapInv
<1>3. MonitorFlag = poisoned /\ \A u \in Thread : stage[u] # "user"
  BY <1>1, NoUser
<1>4. request' = request /\ \A u \in Thread \ {n} :
        stage'[u] = stage[u] /\ answer'[u] = answer[u] /\ TaskPhase'[u] = TaskPhase[u]
  BY <1>1 DEF Mapping, PTypeOK, Enter, EnterRun, EnterPoison, EnterUnpoison, Invoke, Answer
<1>5. TaskPhase'[n] = "running"
  BY <1>1 DEF Mapping
<1>6. /\ MonitorRequest' = MonitorRequest /\ MonitorRequest[n] = request[n]
      /\ MonitorEffect[n] = "none"
      /\ MonitorDisabled = FALSE /\ MonitorDisabled' = FALSE
  BY <1>1, <1>2, <1>4, <1>5 DEF Mapping, MappedRequest, MappedEffect
<1>7. PoisonReply' = PoisonReply
  BY <1>1, <1>4, <1>5 DEF Mapping, MappedReply
<1>8. ASSUME NEW a \in Effects \ {"panic"}, Answer(n, a)
      PROVE  /\ MonitorEffect' = [MonitorEffect EXCEPT ![n] = a]
             /\ MonitorFlag' = poisoned'
             /\ WrapInv'
  <2>1. stage'[n] = "after" /\ answer'[n] = a /\ a # "none"
    BY <1>8 DEF PTypeOK, Answer, Effects
  <2>2. MonitorEffect' = [MonitorEffect EXCEPT ![n] = a]
    BY <1>1, <1>4, <1>5, <2>1 DEF Mapping, MappedEffect
  <2>3. MonitorFlag' = poisoned'
    <3>1. \A u \in Thread : stage'[u] # "user"
      BY <1>3, <1>4, <2>1
    <3>2. poisoned' \in BOOLEAN
      BY EnterFacts DEF PTypeOK
    <3> QED
      BY <3>1, <3>2 DEF MonitorFlag
  <2>4. WrapInv'
    BY <1>2, <1>3, <1>4, <1>5, <2>1 DEF WrapInv
  <2> QED
    BY <2>2, <2>3, <2>4
<1>9. ASSUME Invoke(n)
      PROVE  MonitorEffect' = MonitorEffect /\ WrapInv'
  <2>1. stage'[n] = "user"
    BY <1>9 DEF PTypeOK, Invoke
  <2>2. MonitorEffect' = MonitorEffect
    BY <1>1, <1>2, <1>4, <1>5, <2>1 DEF Mapping, MappedEffect
  <2>3. WrapInv'
    BY <1>2, <1>3, <1>4, <1>5, <2>1 DEF WrapInv
  <2> QED
    BY <2>2, <2>3
<1>10. CASE EnterRun(n)
  <2>1. CASE poisoned
    <3>1. Answer(n, "poisoned") /\ poisoned' = poisoned /\ request[n] = "run"
      BY <1>10, <2>1 DEF EnterRun
    <3> QED
      BY <1>3, <1>6, <1>7, <1>8, <2>1, <3>1 DEF Monitor!TakeEffect, Monitor!Effect, Effects
  <2>2. CASE ~poisoned
    <3>1. Invoke(n) /\ poisoned' = TRUE /\ request[n] = "run"
      BY <1>10, <2>2 DEF EnterRun
    <3>2. MonitorFlag' = FALSE /\ MonitorFlag = FALSE
      BY <1>3, <1>4, <2>2, <3>1 DEF MonitorFlag, Invoke, PTypeOK
    <3> QED
      BY <1>6, <1>7, <1>9, <3>1, <3>2 DEF Monitor!mvars
  <2> QED
    BY <2>1, <2>2
<1>11. CASE EnterPoison(n)
  <2>1. request[n] = "poison" /\ Answer(n, IF poisoned THEN "poisoned" ELSE "done")
        /\ poisoned' = TRUE
    BY <1>11 DEF EnterPoison
  <2>2. (IF poisoned THEN "poisoned" ELSE "done") \in Effects \ {"panic"}
    BY DEF Effects
  <2>3. Monitor!TakeEffect(n, IF poisoned THEN "poisoned" ELSE "done") /\ WrapInv'
    BY <1>3, <1>6, <1>7, <1>8, <2>1, <2>2 DEF Monitor!TakeEffect, Monitor!Effect
  <2> QED
    BY <2>2, <2>3
<1>12. CASE EnterUnpoison(n)
  <2>1. CASE poisoned
    <3>1. Invoke(n) /\ poisoned' = poisoned /\ request[n] = "unpoison"
      BY <1>12, <2>1 DEF EnterUnpoison
    <3>2. MonitorFlag' = poisoned
      BY <1>3, <1>4, <3>1 DEF MonitorFlag, Invoke, PTypeOK
    <3> QED
      BY <1>3, <1>6, <1>7, <1>9, <3>1, <3>2 DEF Monitor!mvars
  <2>2. CASE ~poisoned
    <3>1. Answer(n, "declined") /\ poisoned' = poisoned /\ request[n] = "unpoison"
      BY <1>12, <2>2 DEF EnterUnpoison
    <3> QED
      BY <1>3, <1>6, <1>7, <1>8, <3>1 DEF Monitor!TakeEffect, Monitor!Effect, Effects
  <2> QED
    BY <2>1, <2>2
<1> QED
  BY <1>10, <1>11, <1>12 DEF Enter

\* A wrapper ends: unless it had answered already, this is where it takes effect.
LEMMA EndMonitor ==
  ASSUME Mapping, Mapping', PTypeOK, WrapInv, NEW n \in Thread, NEW v \in {"ok", "panic"},
         Serial!End(n, v), Leave(n, v), ~TaskBroken,
         \A u \in Thread : stage[u] = "user" => u = n /\ poisoned
  PROVE  /\ (\E e \in Effects : Monitor!TakeEffect(n, e)) \/ UNCHANGED Monitor!mvars
         /\ WrapInv'
<1>1. /\ TaskPhase[n] = "running" /\ TaskPhase' = [TaskPhase EXCEPT ![n] = v]
      /\ TaskReply' = TaskReply
      /\ TaskBroken' \in {FALSE} \cup (IF v = "panic" /\ ~Std THEN {TRUE} ELSE {})
  BY DEF Serial!End, Mapping
<1>2. request' = request /\ request[n] # "none"
  BY <1>1 DEF Leave, WrapInv
<1>3. \A u \in Thread \ {n} : /\ TaskPhase'[u] = TaskPhase[u]
                              /\ stage'[u] = stage[u] /\ answer'[u] = answer[u]
  BY <1>1 DEF Mapping, PTypeOK, Leave, LeaveEarly, LeaveRun, LeaveUnpoison, Answer
<1>4. TaskPhase'[n] = v
  BY <1>1 DEF Mapping
<1>5. /\ MonitorRequest' = MonitorRequest /\ MonitorRequest[n] = request[n]
      /\ MonitorDisabled = FALSE
      /\ MonitorDisabled' \in {FALSE} \cup (IF v = "panic" /\ ~Std THEN {TRUE} ELSE {})
  BY <1>1, <1>2, <1>3, <1>4 DEF Mapping, MappedRequest
<1>6. PoisonReply' = PoisonReply
  BY <1>1, <1>3, <1>4 DEF Mapping, MappedReply
<1>7. CASE LeaveEarly(n, v)
  <2>1. stage[n] = "after" /\ v = "ok" /\ UNCHANGED <<poisoned, stage, answer>>
    BY <1>7 DEF LeaveEarly
  <2>2. WrapInv'
    BY <1>1, <1>2, <1>3, <1>4, <2>1 DEF WrapInv
  <2>3. MonitorEffect' = MonitorEffect
    BY <1>1, <1>3, <1>4, <2>1 DEF Mapping, MappedEffect
  <2>4. MonitorFlag' = MonitorFlag
    BY <1>2, <2>1 DEF MonitorFlag
  <2>5. MonitorDisabled' = MonitorDisabled
    BY <1>5, <2>1
  <2> QED
    BY <1>5, <1>6, <2>2, <2>3, <2>4, <2>5 DEF Monitor!mvars
<1>8. ASSUME stage[n] = "user", NEW a \in {"none", "done", "declined", "recovered"},
             Answer(n, a), a = "none" <=> v = "panic", poisoned' \in BOOLEAN
      PROVE  /\ MonitorEffect[n] = "none"
             /\ MonitorEffect' = [MonitorEffect EXCEPT ![n] = IF v = "panic" THEN "panic" ELSE a]
             /\ MonitorFlag' = poisoned'
             /\ WrapInv'
  <2>1. stage'[n] = "after" /\ answer'[n] = a
    BY <1>8 DEF PTypeOK, Answer
  <2>2. \A u \in Thread : stage'[u] # "user"
    BY <1>3, <2>1
  <2>3. MonitorEffect[n] = "none"
    BY <1>8 DEF Mapping, MappedEffect
  <2>4. MonitorEffect' = [MonitorEffect EXCEPT ![n] = IF v = "panic" THEN "panic" ELSE a]
    BY <1>3, <1>4, <1>8, <2>1 DEF Mapping, MappedEffect
  <2>5. MonitorFlag' = poisoned'
    BY <1>8, <2>2 DEF MonitorFlag
  <2>6. WrapInv'
    BY <1>2, <1>3, <1>4, <1>8, <2>1, <2>2 DEF WrapInv
  <2> QED
    BY <2>3, <2>4, <2>5, <2>6
<1>9. CASE LeaveRun(n, v)
  <2>1. stage[n] = "user" /\ request[n] = "run" /\ poisoned = TRUE
    BY <1>9 DEF LeaveRun, PTypeOK
  <2>2. MonitorFlag = FALSE
    BY <2>1 DEF MonitorFlag
  <2>3. CASE v = "ok"
    <3>1. Answer(n, "done") /\ poisoned' = FALSE
      BY <1>9, <2>3 DEF LeaveRun
    <3>2. Monitor!TakeEffect(n, "done") /\ WrapInv'
      BY <1>2, <1>5, <1>6, <1>8, <2>1, <2>2, <2>3, <3>1
         DEF Monitor!TakeEffect, Monitor!Effect
    <3> QED
      BY <3>2 DEF Effects
  <2>4. CASE v = "panic"
    <3>1. Answer(n, "none") /\ poisoned' = TRUE
      BY <1>9, <2>1, <2>4 DEF LeaveRun
    <3>2. Monitor!TakeEffect(n, "panic") /\ WrapInv'
      BY <1>2, <1>5, <1>6, <1>8, <2>1, <2>2, <2>4, <3>1
         DEF Monitor!TakeEffect, Monitor!Effect
    <3> QED
      BY <3>2 DEF Effects
  <2> QED
    BY <2>3, <2>4
<1>10. CASE LeaveUnpoison(n, v)
  <2>1. stage[n] = "user" /\ request[n] = "unpoison" /\ poisoned = TRUE
    BY <1>10 DEF LeaveUnpoison, PTypeOK
  <2>2. MonitorFlag = TRUE
    <3>1. \A u \in Thread : ~(stage[u] = "user" /\ request[u] = "run")
      BY <2>1
    <3> QED
      BY <2>1, <3>1 DEF MonitorFlag
  <2>3. PICK a \in {"none", "declined", "recovered"} :
          /\ Answer(n, a) /\ (a = "none" <=> v = "panic")
          /\ poisoned' = (a # "recovered")
    BY <1>10, <2>1 DEF LeaveUnpoison
  <2>4. Monitor!TakeEffect(n, IF v = "panic" THEN "panic" ELSE a) /\ WrapInv'
    BY <1>2, <1>5, <1>6, <1>8, <2>1, <2>2, <2>3 DEF Monitor!TakeEffect, Monitor!Effect
  <2>5. (IF v = "panic" THEN "panic" ELSE a) \in Effects
    BY <2>3 DEF Effects
  <2> QED
    BY <2>4, <2>5
<1> QED
  BY <1>7, <1>9, <1>10 DEF Leave

\* The caller is told what its request did, unless the lock was disabled.
LEMMA ReplyMonitor ==
  ASSUME Mapping, Mapping', PTypeOK, WrapInv, NEW t \in Thread,
         NEW r \in {"ok", "panic", "cancelled"}, Serial!Reply(t, r),
         UNCHANGED <<poisoned, wrapVars>>
  PROVE  (\E e \in Effects : Monitor!Reply(t, e)) /\ WrapInv'
<1> DEFINE e == IF r = "ok" THEN answer[t] ELSE IF r = "cancelled" THEN "poisoned" ELSE r
<1>1. /\ TaskPhase[t] \in {"ok", "panic"} /\ TaskPhase' = [TaskPhase EXCEPT ![t] = "idle"]
      /\ TaskReply' = [TaskReply EXCEPT ![t] = r] /\ TaskBroken' = TaskBroken
      /\ \/ r = TaskPhase[t]
         \/ TaskBroken /\ r = "panic"
         \/ TaskBroken /\ r = "cancelled" /\ TaskPhase[t] = "panic"
  BY DEF Serial!Reply
<1>2. stage[t] = "after" /\ (answer[t] = "none" <=> TaskPhase[t] = "panic")
  BY <1>1 DEF WrapInv
<1>3. UNCHANGED <<request, stage, answer, poisoned>>
  BY DEF wrapVars
<1>4. /\ TaskPhase'[t] = "idle" /\ TaskReply'[t] = r
      /\ \A u \in Thread \ {t} :
           TaskPhase'[u] = TaskPhase[u] /\ TaskReply'[u] = TaskReply[u]
  BY <1>1 DEF Mapping
<1>5. WrapInv'
  BY <1>2, <1>3, <1>4 DEF WrapInv
<1>6. MonitorRequest' = [MonitorRequest EXCEPT ![t] = "none"]
  BY <1>3, <1>4 DEF Mapping, MappedRequest
<1>7. MonitorEffect' = [MonitorEffect EXCEPT ![t] = "none"]
  BY <1>3, <1>4 DEF Mapping, MappedEffect
<1>8. PoisonReply' = [PoisonReply EXCEPT ![t] = e]
  BY <1>3, <1>4 DEF Mapping, MappedReply
<1>9. MonitorFlag' = MonitorFlag
  BY <1>3 DEF MonitorFlag
<1>10. MonitorEffect[t] = IF TaskPhase[t] = "panic" THEN "panic" ELSE answer[t]
  BY <1>1, <1>2 DEF Mapping, MappedEffect
<1>11. MonitorEffect[t] # "none"
  BY <1>1, <1>2, <1>10
<1>12. MonitorDisabled' = MonitorDisabled /\ MonitorDisabled = TaskBroken
  BY <1>1 DEF Mapping
<1>13. \/ e = MonitorEffect[t]
       \/ MonitorDisabled /\ e = "panic"
       \/ MonitorDisabled /\ e = "poisoned" /\ MonitorEffect[t] = "panic"
  BY <1>1, <1>2, <1>10, <1>12
<1>14. Monitor!Reply(t, e)
  BY <1>6, <1>7, <1>8, <1>9, <1>11, <1>12, <1>13 DEF Monitor!Reply
<1>15. e \in Effects
  BY <1>1, <1>2 DEF PTypeOK, Effects
<1> QED
  BY <1>5, <1>14, <1>15

\* A request that has not taken effect is refused by a disabled lock.
LEMMA RefuseMonitor ==
  ASSUME Mapping, Mapping', PTypeOK, WrapInv, NEW t \in Thread, Serial!Cancel(t),
         UNCHANGED <<poisoned, wrapVars>>
  PROVE  Monitor!Refuse(t) /\ WrapInv'
<1>1. /\ TaskPhase[t] = "pending" /\ TaskPhase' = [TaskPhase EXCEPT ![t] = "idle"]
      /\ TaskReply' = [TaskReply EXCEPT ![t] = "cancelled"]
      /\ TaskBroken /\ TaskBroken' = TaskBroken
  BY DEF Serial!Cancel
<1>2. stage[t] = "before" /\ request[t] # "none"
  BY <1>1 DEF WrapInv
<1>3. UNCHANGED <<request, stage, answer, poisoned>>
  BY DEF wrapVars
<1>4. /\ TaskPhase'[t] = "idle" /\ TaskReply'[t] = "cancelled"
      /\ \A u \in Thread \ {t} :
           TaskPhase'[u] = TaskPhase[u] /\ TaskReply'[u] = TaskReply[u]
  BY <1>1 DEF Mapping
<1>5. WrapInv'
  BY <1>2, <1>3, <1>4 DEF WrapInv
<1>6. /\ MonitorRequest[t] # "none"
      /\ MonitorRequest' = [MonitorRequest EXCEPT ![t] = "none"]
  BY <1>1, <1>2, <1>3, <1>4 DEF Mapping, MappedRequest
<1>7. MonitorEffect[t] = "none" /\ MonitorEffect' = MonitorEffect
  BY <1>2, <1>3, <1>4 DEF Mapping, MappedEffect
<1>8. PoisonReply' = [PoisonReply EXCEPT ![t] = "poisoned"]
  BY <1>3, <1>4 DEF Mapping, MappedReply
<1>9. MonitorFlag' = MonitorFlag
  BY <1>3 DEF MonitorFlag
<1> QED
  BY <1>1, <1>5, <1>6, <1>7, <1>8, <1>9 DEF Monitor!Refuse, Mapping

\* What the serial executor does not see the monitor does not see.
LEMMA StutterMonitor ==
  ASSUME Mapping, Mapping', WrapInv, UNCHANGED Serial!tvars,
         UNCHANGED <<poisoned, wrapVars>>
  PROVE  UNCHANGED Monitor!mvars /\ WrapInv'
<1>1. UNCHANGED <<TaskPhase, TaskReply, TaskBroken>>
  BY DEF Serial!tvars
<1>2. UNCHANGED <<request, stage, answer, poisoned>>
  BY DEF wrapVars
<1>3. WrapInv'
  BY <1>1, <1>2 DEF WrapInv
<1>4. UNCHANGED <<MonitorRequest, MonitorEffect, PoisonReply, MonitorDisabled>>
  BY <1>1, <1>2 DEF Mapping, MappedRequest, MappedEffect, MappedReply
<1>5. MonitorFlag' = MonitorFlag
  BY <1>2 DEF MonitorFlag
<1> QED
  BY <1>3, <1>4, <1>5 DEF Monitor!mvars

---------------------------------------------------------------------------
(* The steps of the poison lock *)

\* What the steps below need of the state before them and after them.
Kept == IInv /\ CInv /\ PInv /\ WrapInv /\ Mapping /\ Mapping'

\* A step of the lock is a step of the monitor, or the monitor does not see it.
Simulated == [Monitor!Next]_(Monitor!mvars) /\ WrapInv'

LEMMA PCallMonitor == ASSUME Kept, NEW t \in Thread, PCall(t) PROVE Simulated
<1>1. PICK r \in Request : request' = [request EXCEPT ![t] = r]
  BY DEF PCall
<1>2. r \in Methods
  BY RequestAssumption DEF Methods
<1>3. Serial!Submit(t)
  BY CallSerial DEF PCall, Kept
<1>4. Monitor!Submit(t, r) /\ WrapInv'
  BY <1>1, <1>2, <1>3, SubmitMonitor DEF PCall, Kept, PInv
<1> QED
  BY <1>2, <1>4 DEF Simulated, Monitor!Next, Methods

LEMMA PTryAcquireMonitor == ASSUME Kept, NEW t \in Thread, PTryAcquire(t) PROVE Simulated
<1>1. \/ Serial!Begin(t) /\ Enter(t)
      \/ /\ Serial!Cancel(t) \/ UNCHANGED Serial!tvars
         /\ UNCHANGED <<poisoned, wrapVars>>
  BY TryAcquireSerial DEF PTryAcquire, Kept
<1>2. CASE Serial!Begin(t) /\ Enter(t)
  BY <1>2, BeginMonitor DEF Simulated, Monitor!Next, Kept, PInv, Effects
<1>3. CASE Serial!Cancel(t) /\ UNCHANGED <<poisoned, wrapVars>>
  BY <1>3, RefuseMonitor DEF Simulated, Monitor!Next, Kept, PInv
<1>4. CASE UNCHANGED Serial!tvars /\ UNCHANGED <<poisoned, wrapVars>>
  BY <1>4, StutterMonitor DEF Simulated, Kept
<1> QED
  BY <1>1, <1>2, <1>3, <1>4

LEMMA PExecBeginMonitor == ASSUME Kept, NEW t \in Thread, PExecBegin(t) PROVE Simulated
<1>1. cursor[t] \in Thread
  BY Executor DEF PExecBegin, ExecBegin, At, Kept
<1>2. Serial!Begin(cursor[t]) /\ Enter(cursor[t])
  BY ExecBeginSerial DEF PExecBegin, Kept
<1> QED
  BY <1>1, <1>2, BeginMonitor DEF Simulated, Monitor!Next, Kept, PInv, Effects

\* The thread that ends a wrapper is the only one inside a caller's closure.
LEMMA PLeaveMonitor ==
  ASSUME Kept, NEW t \in Thread, PFastRun(t) \/ PExecEnd(t)
  PROVE  Simulated
<1>1. Executing(t) /\ pc[t] \in {"fast", "run"}
  BY DEF PFastRun, FastRun, PExecEnd, ExecEnd, At, Executing
<1>2. Served(t) \in Thread
  BY <1>1, Executor DEF Served, Kept
<1>3. PICK v \in {"ok", "panic"} : Serial!End(Served(t), v) /\ Leave(Served(t), v)
  <2>1. CASE PFastRun(t)
    <3>1. Served(t) = t
      BY <2>1 DEF PFastRun, FastRun, At, Served
    <3> QED
      BY <2>1, <3>1, FastRunSerial DEF PFastRun, Kept
  <2>2. CASE PExecEnd(t)
    <3>1. Served(t) = cursor[t]
      BY <2>2 DEF PExecEnd, ExecEnd, At, Served
    <3> QED
      BY <2>2, <3>1, ExecEndSerial DEF PExecEnd, Kept
  <2> QED
    BY <2>1, <2>2
<1>4. ~TaskBroken
  BY <1>1, RunsAlone DEF Kept
<1>5. \A u \in Thread : stage[u] = "user" => u = Served(t) /\ poisoned
  BY <1>1, Alone DEF Kept, PInv, UserInv
<1> QED
  BY <1>2, <1>3, <1>4, <1>5, EndMonitor
     DEF Simulated, Monitor!Next, Kept, PInv, Effects

LEMMA QueueStepMonitor ==
  ASSUME Kept, NEW t \in Thread, QueueStep(t), UNCHANGED <<poisoned, wrapVars>>
  PROVE  Simulated
<1>1. CASE Unseen(t)
  BY <1>1, UnseenStep, StutterMonitor DEF Simulated, Kept
<1>2. CASE \E r \in {"ok", "panic", "cancelled"} : Serial!Reply(t, r)
  BY <1>2, ReplyMonitor DEF Simulated, Monitor!Next, Kept, PInv, Effects
<1>3. CASE Serial!Cancel(t)
  BY <1>3, RefuseMonitor DEF Simulated, Monitor!Next, Kept, PInv
<1>4. CASE FastUnlock(t) \/ Return(t) \/ Cancelled(t) \/ Unwound(t)
  BY <1>2, <1>3, <1>4, FastUnlockSerial, ReturnSerial, CancelledSerial, UnwoundSerial
     DEF Kept
<1> QED
  BY <1>1, <1>4 DEF QueueStep, Unseen

LEMMA NextMonitor ==
  IInv /\ CInv /\ PInv /\ WrapInv /\ TypeOK' /\ [PNext]_pvars => Simulated
<1> SUFFICES ASSUME IInv, CInv, PInv, WrapInv, TypeOK', [PNext]_pvars
             PROVE  Simulated
  OBVIOUS
<1>1. Kept
  BY MappingHolds, MappingPrimed DEF IInv, Kept
<1>2. CASE UNCHANGED pvars
  <2>1. UNCHANGED <<poisoned, wrapVars>>
    BY <1>2 DEF pvars
  <2>2. UNCHANGED Serial!tvars
    <3>1. TaskPhase' = TaskPhase /\ TaskReply' = TaskReply /\ TaskBroken' = TaskBroken
      BY <1>2 DEF pvars, vars, rawVars, taskVars, frameVars, TaskPhase, TaskReply,
         TaskBroken, Runs
    <3> QED
      BY <3>1 DEF Serial!tvars
  <2> QED
    BY <1>1, <2>1, <2>2, StutterMonitor DEF Simulated, Kept
<1> QED
  BY <1>1, <1>2, PCallMonitor, PTryAcquireMonitor, PExecBeginMonitor, PLeaveMonitor,
     QueueStepMonitor DEF PNext

LEMMA InitMonitor == PInit => Monitor!Init /\ WrapInv
<1> SUFFICES ASSUME PInit PROVE Monitor!Init /\ WrapInv
  OBVIOUS
<1>1. \A t \in Thread : pc[t] = "idle" /\ outcome[t] = "none" /\ stage[t] = "before"
  BY DEF PInit, Init
<1>2. status = "UNLOCKED" /\ poisoned = FALSE
  BY DEF PInit, Init
<1>3. WrapInv
  BY <1>1 DEF WrapInv, TaskPhase
<1>4. MonitorFlag = FALSE /\ MonitorDisabled = FALSE
  BY <1>1, <1>2 DEF MonitorFlag, MonitorDisabled
<1>5. MonitorRequest = [t \in Thread |-> "none"]
  BY <1>1 DEF MonitorRequest
<1>6. MonitorEffect = [t \in Thread |-> "none"]
  BY <1>1 DEF MonitorEffect
<1>7. PoisonReply = [t \in Thread |-> "none"]
  BY <1>1 DEF PoisonReply
<1> QED
  BY <1>3, <1>4, <1>5, <1>6, <1>7 DEF Monitor!Init

\* The methods of poison::Lock, executed by whichever thread combines, are
\* linearizable operations on one flag: a wrapper's reads and writes of the flag
\* and the caller's closure between them happen in one instant.
THEOREM MonitorRefinement == PSpec => ImplementsMonitor
<1>1. PInit => Monitor!Init /\ WrapInv
  BY InitMonitor
<1>2. /\ IInv /\ CInv /\ PInv /\ WrapInv /\ TypeOK' /\ [PNext]_pvars
        => WrapInv' /\ [Monitor!Next]_(Monitor!mvars)
  BY NextMonitor DEF Simulated
<1>3. PInit => Init
  BY DEF PInit
<1>4. PSpec => Spec
  BY <1>3, PNextIsNext, PTL DEF PSpec, Spec
<1>5. IInv => TypeOK
  BY DEF IInv
<1> QED
  BY <1>1, <1>2, <1>4, <1>5, FlagInvariant, TaskInvariant, PTL
     DEF PSpec, ImplementsMonitor, Monitor!Spec

=============================================================================
