------------------------- MODULE FlatCombiningProof -------------------------
(***************************************************************************)
(* Proofs about FlatCombining for every set of threads and both values of  *)
(* Std: IInv is inductive, and the type invariant, mutual exclusion, the   *)
(* order of service, the lifetime of the nodes, the stability of messages  *)
(* and the finality of poison follow from it.                              *)
(*                                                                         *)
(* The order is: facts about the queue as a sequence; what IInv says to    *)
(* the driver of the queue and about a thread outside it; one lemma for    *)
(* each action of Next, each with one step for each conjunct of IInv; the  *)
(* theorems.                                                               *)
(***************************************************************************)
EXTENDS FlatCombiningInv, TLAPS, SequenceTheorems

---------------------------------------------------------------------------
(* The queue as a sequence *)

\* A queue that is not empty has one node, or a second and a last one.
LEMMA Sizes ==
  ASSUME NEW n \in Nat \ {0}
  PROVE  n = 1 \/ (n > 1 /\ 2 \in 2..n /\ n \in 2..n)
  OBVIOUS

\* Appending to and taking the head off a queue, index by index.
LEMMA AppendFacts ==
  ASSUME queue \in Seq(Thread), NEW t \in Thread, queue' = Append(queue, t)
  PROVE  /\ Len(queue') = Len(queue) + 1
         /\ \A i \in 1..Len(queue) : queue'[i] = queue[i]
         /\ queue'[Len(queue')] = t
         /\ queue' # <<>>
  BY AppendProperties

LEMMA DequeueFacts ==
  ASSUME queue \in Seq(Thread), queue # <<>>, Dequeue
  PROVE  /\ queue' \in Seq(Thread)
         /\ Len(queue') = Len(queue) - 1
         /\ queue' = <<>> <=> Len(queue) = 1
         /\ \A i \in 1..Len(queue') : queue'[i] = queue[i + 1]
<1>1. queue' = Tail(queue)
  BY DEF Dequeue
<1>2. Len(queue) \in Nat \ {0}
  BY EmptySeq, LenProperties
<1>3. /\ Tail(queue) \in Seq(Thread)
      /\ Len(Tail(queue)) = Len(queue) - 1
      /\ \A i \in 1..Len(Tail(queue)) : Tail(queue)[i] = queue[i + 1]
  BY HeadTailProperties
<1> QED
  BY <1>1, <1>2, <1>3, EmptySeq

\* What the driver of the queue knows about it.
LEMMA DriverView ==
  ASSUME IInv, NEW t \in Thread, Drives(t)
  PROVE  /\ queue # <<>> /\ queue[1] = Front(t) /\ Front(t) \in Thread
         /\ \A u \in Thread \ {t} :
              ~Drives(u) /\ pc[u] \notin {"finish", "promote", "bombWake"}
         /\ Front(t) = t \/ Waits(Front(t))
         /\ \A i \in 2..Len(queue) :
              /\ queue[i] \in Thread /\ Waits(queue[i])
              /\ queue[i] # Front(t) /\ queue[i] # t
         /\ tail = Front(t) <=> Len(queue) = 1
         /\ next[Front(t)] # Null =>
              /\ Len(queue) > 1 /\ next[Front(t)] = queue[2]
              /\ queue[2] \in Thread /\ pc[queue[2]] # "link"
<1>1. queue # <<>> /\ queue[1] = Front(t)
  BY DEF IInv, DriverInv
<1>2. Len(queue) \in Nat \ {0}
  BY <1>1, EmptySeq DEF IInv, TypeOK
<1>3. \A i \in 1..Len(queue) : queue[i] \in Thread
  BY DEF IInv, TypeOK
<1>4. \A u \in Thread \ {t} :
        ~Drives(u) /\ pc[u] \notin {"finish", "promote", "bombWake"}
  BY DEF IInv, DriverInv, Drives
<1>5. Front(t) = t \/ Waits(Front(t))
  BY <1>1, <1>2, <1>3, <1>4 DEF IInv, MemberInv
<1>6. \A i \in 2..Len(queue) : Waits(queue[i]) /\ queue[i] # Front(t) /\ queue[i] # t
  <2>1. ~Waits(t)
    BY DEF Drives, Promoted, Waits, Waiting
  <2>2. \A i \in 2..Len(queue) : i \in 1..Len(queue) /\ 1 \in 1..Len(queue) /\ i # 1
    BY <1>2
  <2>3. \A i \in 2..Len(queue) : Waits(queue[i]) /\ queue[i] # queue[1]
    BY <2>2 DEF IInv, MemberInv
  <2> QED
    BY <1>1, <2>1, <2>3
<1>7. tail = Front(t) <=> Len(queue) = 1
  <2>1. tail = queue[Len(queue)]
    BY <1>1 DEF IInv, LinkInv
  <2>2. CASE Len(queue) = 1
    BY <1>1, <2>1, <2>2
  <2>3. CASE Len(queue) # 1
    <3>1. Len(queue) \in 2..Len(queue)
      BY <1>2, <2>3, Sizes
    <3> QED
      BY <1>6, <2>1, <2>3, <3>1
  <2> QED
    BY <2>2, <2>3
<1>8. ASSUME next[queue[1]] # Null
      PROVE  Len(queue) > 1 /\ next[queue[1]] = queue[2] /\ pc[queue[2]] # "link"
  <2>1. Len(queue) # 1
    BY <1>1, <1>8 DEF IInv, LinkInv
  <2>2. Len(queue) > 1 /\ 2 \in 2..Len(queue)
    BY <1>2, <2>1, Sizes
  <2>3. 2 - 1 = 1
    OBVIOUS
  <2> QED
    BY <1>8, <2>2, <2>3 DEF IInv, LinkInv
<1>9. Len(queue) > 1 => queue[2] \in Thread
  BY <1>2, <1>3
<1> QED
  BY <1>1, <1>2, <1>3, <1>4, <1>5, <1>6, <1>7, <1>8, <1>9

\* A step that leaves the queue alone and makes no thread a driver.
LEMMA DriverKept ==
  ASSUME DriverInv, queue' = queue,
         \A u \in Thread : Drives(u)' => Drives(u) /\ Front(u)' = Front(u)
  PROVE  DriverInv'
  BY DEF DriverInv

\* A step that leaves the queue, its waiters and its driver alone.
LEMMA MemberKept ==
  ASSUME TypeOK, MemberInv, queue' = queue,
         \A u \in Thread : Waits(u) => Waits(u)',
         \A u \in Thread : Drives(u) => Drives(u)' /\ Front(u)' = Front(u)
  PROVE  MemberInv'
<1>1. \A i \in 1..Len(queue) : queue[i] \in Thread
  BY DEF TypeOK
<1>2. queue # <<>> => queue[1] \in Thread
  BY <1>1, EmptySeq, LenProperties DEF TypeOK
<1> QED
  BY <1>1, <1>2 DEF MemberInv

\* A step that takes the front node off a queue whose other members wait on.
LEMMA MemberPassed ==
  ASSUME MemberInv, queue \in Seq(Thread), Len(queue) > 1, queue' \in Seq(Thread),
         Len(queue') = Len(queue) - 1,
         \A i \in 1..Len(queue') : queue'[i] = queue[i + 1],
         \A n \in Thread \ {queue[1]} : Waits(n) => Waits(n)'
  PROVE  MemberInv'
<1>1. Len(queue) \in Nat
  BY LenProperties
<1>2. 1 \in 1..Len(queue) /\ \A i \in 1..Len(queue') :
        i + 1 \in 2..Len(queue) /\ i + 1 \in 1..Len(queue) /\ i + 1 # 1
  BY <1>1
<1>3. \A i \in 2..Len(queue) : queue[i] \in Thread /\ Waits(queue[i])
  BY DEF MemberInv
<1>4. \A i \in 1..Len(queue') : queue[i + 1] # queue[1]
  BY <1>2 DEF MemberInv
<1>5. \A i \in 1..Len(queue') : queue'[i] \in Thread \ {queue[1]} /\ Waits(queue[i + 1])
  BY <1>2, <1>3, <1>4
<1>6. \A i \in 1..Len(queue') : Waits(queue[i])'
  BY <1>5 DEF Waits
<1>7. 1 \in 1..Len(queue') /\ \A i \in 2..Len(queue') : i \in 1..Len(queue')
  BY <1>1
<1>8. \A i, j \in 1..Len(queue) : queue[i] = queue[j] => i = j
  BY DEF MemberInv
<1>9. \A i, j \in 1..Len(queue') : queue'[i] = queue'[j] => i = j
  <2> SUFFICES ASSUME NEW i \in 1..Len(queue'), NEW j \in 1..Len(queue'),
                      queue[i + 1] = queue[j + 1]
               PROVE  i = j
    OBVIOUS
  <2>1. i + 1 = j + 1
    BY <1>2, <1>8
  <2> QED
    BY <1>1, <2>1
<1> QED
  BY <1>6, <1>7, <1>9 DEF MemberInv

\* A thread outside the queue's protocol is not referred to by anyone in it.
LEMMA Detached ==
  ASSUME IInv, NEW t \in Thread,
         pc[t] \in Outside \cup {"return", "cancelled", "unwound"}
  PROVE  /\ \A i \in 1..Len(queue) : queue[i] # t
         /\ \A u \in Thread : Drives(u) => Front(u) # t
         /\ \A u \in Thread : Claims(u) => Claim(u) # t
         /\ \A u \in Thread : pc[u] \in Finished => cursor[u] \in Thread \ {t}
<1>1. ~Waits(t) /\ ~Drives(t) /\ ~Claims(t)
  BY DEF Waits, Drives, Promoted, Claims, Waiting, Outside
<1>2. \A i \in 1..Len(queue) : queue[i] # t
  BY <1>1 DEF IInv, TypeOK, MemberInv
<1>3. \A u \in Thread : Drives(u) => Front(u) # t
  BY <1>2 DEF IInv, TypeOK, DriverInv
<1>4. \A u \in Thread : Claims(u) => Claim(u) # t
  BY <1>1 DEF IInv, ClaimInv
<1>5. ASSUME NEW u \in Thread, pc[u] \in Finished PROVE cursor[u] \in Thread \ {t}
  <2>1. CASE pc[u] \in {"last", "resign"}
    BY <1>4, <2>1 DEF IInv, ClaimInv, Claims, Claim
  <2>2. CASE pc[u] \notin {"last", "resign"}
    <3>1. Drives(u) /\ Front(u) = cursor[u]
      BY <1>5, <2>2 DEF Drives, Front, Finished, Combining
    <3> QED
      BY <1>3, <3>1, DriverView
  <2> QED
    BY <2>1, <2>2
<1> QED
  BY <1>2, <1>3, <1>4, <1>5

\* The links after the node at the front has left a queue of at least two.
LEMMA DequeueLinks ==
  ASSUME IInv, Len(queue) > 1, pc[queue[2]] # "link", Dequeue,
         UNCHANGED <<tail, next, prev>>,
         NEW t \in Thread, NEW l \in Label, pc[t] # "link", l # "link",
         pc' = [pc EXCEPT ![t] = l]
  PROVE  LinkInv'
<1>1. queue # <<>> /\ Len(queue) \in Nat /\ queue \in Seq(Thread)
  BY EmptySeq, LenProperties DEF IInv, TypeOK
<1>2. /\ Len(queue') = Len(queue) - 1
      /\ queue' # <<>>
      /\ \A i \in 1..Len(queue') : queue'[i] = queue[i + 1] /\ queue[i + 1] \in Thread
  BY <1>1, DequeueFacts
<1>3. \A u \in Thread : pc'[u] = "link" <=> pc[u] = "link"
  BY DEF IInv, TypeOK
<1>4. queue'[Len(queue')] = queue[Len(queue)]
  BY <1>1, <1>2
<1>5. \A i \in 2..Len(queue') :
        IF pc'[queue'[i]] = "link"
        THEN next'[queue'[i-1]] = Null /\ prev'[queue'[i]] = queue'[i-1]
        ELSE next'[queue'[i-1]] = queue'[i]
  <2> SUFFICES ASSUME NEW i \in 2..Len(queue')
               PROVE  IF pc[queue[i + 1]] = "link"
                      THEN next[queue[i]] = Null /\ prev[queue[i + 1]] = queue[i]
                      ELSE next[queue[i]] = queue[i + 1]
    <3> TAKE i \in 2..Len(queue')
    <3>1. i \in 1..Len(queue') /\ i - 1 \in 1..Len(queue') /\ (i - 1) + 1 = i
      BY <1>1, <1>2
    <3>2. /\ queue'[i] = queue[i + 1] /\ queue[i + 1] \in Thread
          /\ queue'[i-1] = queue[i]
      BY <1>2, <3>1
    <3> QED
      BY <1>3, <3>2
  <2>1. i + 1 \in 2..Len(queue) /\ (i + 1) - 1 = i
    BY <1>1, <1>2
  <2> QED
    BY <2>1 DEF IInv, LinkInv
<1>6. ASSUME NEW u \in Thread, pc'[u] = "link"
      PROVE  \E i \in 2..Len(queue') : queue'[i] = u
  <2>1. PICK j \in 2..Len(queue) : queue[j] = u
    BY <1>3, <1>6 DEF IInv, LinkInv
  <2>2. j # 2
    BY <1>3, <1>6, <2>1
  <2>3. j - 1 \in 2..Len(queue') /\ queue'[j - 1] = u
    BY <1>1, <1>2, <2>1, <2>2
  <2> QED
    BY <2>3
<1> QED
  BY <1>2, <1>4, <1>5, <1>6 DEF IInv, LinkInv

---------------------------------------------------------------------------
(* The initial state, and one lemma for each action *)

\* RawLock::new: nobody owns anything.
LEMMA InitIInv == Init => IInv
<1> SUFFICES ASSUME Init PROVE IInv
  OBVIOUS
<1> USE DEF Init
<1>1. TypeOK
  BY NullAssumption DEF TypeOK, Status, Message, Label, Outside
<1>2. LockInv
  BY DEF LockInv, Holds, Promoted, Combining, Bombing, Waiting
<1>3. DriverInv
  BY DEF DriverInv, Drives, Promoted, Waiting
<1>4. MemberInv
  BY DEF MemberInv
<1>5. LinkInv
  BY DEF LinkInv
<1>6. SuccInv /\ ClaimInv
  BY DEF SuccInv, ClaimInv, Claims
<1>7. SlotInv
  BY DEF SlotInv, Finished, Combining, Waiting
<1>8. BombInv
  BY DEF BombInv, Waiting
<1>9. FutexInv
  BY DEF FutexInv
<1> QED
  BY <1>1, <1>2, <1>3, <1>4, <1>5, <1>6, <1>7, <1>8, <1>9 DEF IInv

\* run() begins: only the caller's own task variables change.
LEMMA CallStep == ASSUME IInv, NEW t \in Thread, Call(t) PROVE IInv'
<1> USE DEF Call, At, Goto, OnlyMoves, rawVars, nodeVars, slotVars, taskVars,
       frameVars
<1>1. TypeOK'
  BY DEF IInv, TypeOK, Label, Outside, Waiting, Combining, Bombing, Leaving,
       Message, Status
<1>2. LockInv'
  BY DEF IInv, TypeOK, LockInv, Holds, Promoted, Combining, Bombing, Waiting
<1>3. DriverInv'
  BY DEF IInv, TypeOK, DriverInv, Drives, Front, Promoted, Combining, Bombing,
       Waiting
<1>4. MemberInv'
  BY DEF IInv, TypeOK, MemberInv, Waits, Drives, Front, Promoted, Combining,
       Bombing, Waiting
<1>5. LinkInv'
  BY DEF IInv, TypeOK, LinkInv, MemberInv
<1>6. SuccInv'
  BY DEF IInv, TypeOK, SuccInv
<1>7. ClaimInv'
  BY DEF IInv, TypeOK, ClaimInv, Claims, Claim, Waits, Waiting
<1>8. SlotInv'
  BY DEF IInv, TypeOK, SlotInv, Finished, Combining, Waiting
<1>9. BombInv'
  BY DEF IInv, TypeOK, BombInv, Waiting
<1>10. FutexInv'
  BY DEF IInv, TypeOK, FutexInv
<1> QED
  BY <1>1, <1>2, <1>3, <1>4, <1>5, <1>6, <1>7, <1>8, <1>9, <1>10 DEF IInv

\* has_tail moves the caller on and touches nothing else.
LEMMA CheckTailStep == ASSUME IInv, NEW t \in Thread, CheckTail(t) PROVE IInv'
<1> USE DEF CheckTail, At, Goto, OnlyMoves, rawVars, nodeVars, slotVars, taskVars,
       frameVars
<1>1. TypeOK'
  BY DEF IInv, TypeOK, Label, Outside, Waiting, Combining, Bombing, Leaving,
       Message, Status
<1>2. LockInv'
  BY DEF IInv, TypeOK, LockInv, Holds, Promoted, Combining, Bombing, Waiting
<1>3. DriverInv'
  BY DEF IInv, TypeOK, DriverInv, Drives, Front, Promoted, Combining, Bombing,
       Waiting
<1>4. MemberInv'
  BY DEF IInv, TypeOK, MemberInv, Waits, Drives, Front, Promoted, Combining,
       Bombing, Waiting
<1>5. LinkInv'
  BY DEF IInv, TypeOK, LinkInv, MemberInv
<1>6. SuccInv'
  BY DEF IInv, TypeOK, SuccInv
<1>7. ClaimInv'
  BY DEF IInv, TypeOK, ClaimInv, Claims, Claim, Waits, Waiting
<1>8. SlotInv'
  BY DEF IInv, TypeOK, SlotInv, Finished, Combining, Waiting
<1>9. BombInv'
  BY DEF IInv, TypeOK, BombInv, Waiting
<1>10. FutexInv'
  BY DEF IInv, TypeOK, FutexInv
<1> QED
  BY <1>1, <1>2, <1>3, <1>4, <1>5, <1>6, <1>7, <1>8, <1>9, <1>10 DEF IInv

\* try_acquire on the fast path: the lock is taken only when nobody has it.
LEMMA TryAcquireStep == ASSUME IInv, NEW t \in Thread, TryAcquire(t) PROVE IInv'
<1> USE DEF TryAcquire, At, Goto, OnlyMoves, Consumed, rawVars, nodeVars, slotVars,
       taskVars, frameVars
<1>1. TypeOK'
  BY DEF IInv, TypeOK, Label, Outside, Waiting, Combining, Bombing, Leaving,
       Message, Status
<1>2. LockInv'
  BY DEF IInv, TypeOK, LockInv, Holds, Promoted, Combining, Bombing, Waiting
<1>3. DriverInv'
  <2> HIDE DEF TryAcquire
  <2>1. \A u \in Thread : Drives(u)' => Drives(u) /\ Front(u)' = Front(u)
    BY DEF TryAcquire, IInv, TypeOK, Drives, Front, Promoted, Combining, Bombing, Waiting
  <2>2. queue' = queue
    BY DEF TryAcquire
  <2> QED
    BY <2>1, <2>2, DriverKept DEF IInv
<1>4. MemberInv'
  BY DEF IInv, TypeOK, MemberInv, Waits, Drives, Front, Promoted, Combining,
       Bombing, Waiting
<1>5. LinkInv'
  BY DEF IInv, TypeOK, LinkInv, MemberInv
<1>6. SuccInv'
  BY DEF IInv, TypeOK, SuccInv
<1>7. ClaimInv'
  <2> HIDE DEF TryAcquire
  <2>1. \A u \in Thread : Claims(u)' => Claims(u) /\ Claim(u)' = Claim(u)
    BY DEF TryAcquire, IInv, TypeOK, Claims, Claim
  <2>2. \A u \in Thread : Waits(u) => Waits(u)'
    BY DEF TryAcquire, IInv, TypeOK, Waits, Waiting
  <2>3. queue' = queue
    BY DEF TryAcquire
  <2> QED
    BY <2>1, <2>2, <2>3 DEF IInv, ClaimInv
<1>8. SlotInv'
  BY DEF IInv, TypeOK, SlotInv, Finished, Combining, Waiting
<1>9. BombInv'
  BY DEF IInv, TypeOK, BombInv, Waiting
<1>10. FutexInv'
  BY DEF IInv, TypeOK, FutexInv
<1> QED
  BY <1>1, <1>2, <1>3, <1>4, <1>5, <1>6, <1>7, <1>8, <1>9, <1>10 DEF IInv

\* The closure on the fast path runs under the raw lock.
LEMMA FastRunStep == ASSUME IInv, NEW t \in Thread, FastRun(t) PROVE IInv'
<1> USE DEF FastRun, At, Goto, OnlyMoves, rawVars, nodeVars, slotVars, taskVars,
       frameVars
<1>1. TypeOK'
  BY DEF IInv, TypeOK, Label, Outside, Waiting, Combining, Bombing, Leaving,
       Message, Status
<1>2. LockInv'
  BY DEF IInv, TypeOK, LockInv, Holds, Promoted, Combining, Bombing, Waiting
<1>3. DriverInv'
  BY DEF IInv, TypeOK, DriverInv, Drives, Front, Promoted, Combining, Bombing,
       Waiting
<1>4. MemberInv'
  BY DEF IInv, TypeOK, MemberInv, Waits, Drives, Front, Promoted, Combining,
       Bombing, Waiting
<1>5. LinkInv'
  BY DEF IInv, TypeOK, LinkInv, MemberInv
<1>6. SuccInv'
  BY DEF IInv, TypeOK, SuccInv
<1>7. ClaimInv'
  BY DEF IInv, TypeOK, ClaimInv, Claims, Claim, Waits, Waiting
<1>8. SlotInv'
  BY DEF IInv, TypeOK, SlotInv, Finished, Combining, Waiting
<1>9. BombInv'
  BY DEF IInv, TypeOK, BombInv, Waiting
<1>10. FutexInv'
  BY DEF IInv, TypeOK, FutexInv
<1> QED
  BY <1>1, <1>2, <1>3, <1>4, <1>5, <1>6, <1>7, <1>8, <1>9, <1>10 DEF IInv

\* UnlockGuard::drop: the only owner gives the raw lock up.
LEMMA FastUnlockStep == ASSUME IInv, NEW t \in Thread, FastUnlock(t) PROVE IInv'
<1> USE DEF FastUnlock, At, Goto, OnlyMoves, rawVars, nodeVars, slotVars, taskVars,
       frameVars
<1>1. TypeOK'
  BY DEF IInv, TypeOK, Label, Outside, Waiting, Combining, Bombing, Leaving,
       Message, Status
<1>2. LockInv'
  BY DEF IInv, TypeOK, LockInv, Holds, Promoted, Combining, Bombing, Waiting
<1>3. DriverInv'
  BY DEF IInv, TypeOK, DriverInv, Drives, Front, Promoted, Combining, Bombing,
       Waiting
<1>4. MemberInv'
  BY DEF IInv, TypeOK, MemberInv, Waits, Drives, Front, Promoted, Combining,
       Bombing, Waiting
<1>5. LinkInv'
  BY DEF IInv, TypeOK, LinkInv, MemberInv
<1>6. SuccInv'
  BY DEF IInv, TypeOK, SuccInv
<1>7. ClaimInv'
  BY DEF IInv, TypeOK, ClaimInv, Claims, Claim, Waits, Waiting
<1>8. SlotInv'
  BY DEF IInv, TypeOK, SlotInv, Finished, Combining, Waiting
<1>9. BombInv'
  BY DEF IInv, TypeOK, BombInv, Waiting
<1>10. FutexInv'
  BY DEF IInv, TypeOK, FutexInv
<1> QED
  BY <1>1, <1>2, <1>3, <1>4, <1>5, <1>6, <1>7, <1>8, <1>9, <1>10 DEF IInv

\* swap_tail: a node that nobody refers to becomes the last one.
LEMMA EnqueueStep == ASSUME IInv, NEW t \in Thread, Enqueue(t) PROVE IInv'
<1> USE DEF Enqueue, At, Goto, OnlyMoves, Arm, rawVars, nodeVars, slotVars,
       taskVars, frameVars
<1>a. /\ \A i \in 1..Len(queue) : queue[i] # t
      /\ \A u \in Thread : Drives(u) => Front(u) # t
      /\ \A u \in Thread : Claims(u) => Claim(u) # t
      /\ \A u \in Thread : pc[u] \in Finished => cursor[u] \in Thread \ {t}
  BY Detached DEF Outside
<1>b. /\ Len(queue') = Len(queue) + 1
      /\ \A i \in 1..Len(queue) : queue'[i] = queue[i]
      /\ queue'[Len(queue')] = t
      /\ queue' # <<>>
  BY AppendFacts DEF IInv, TypeOK
<1>c. tail = Null <=> queue = <<>>
  BY NullAssumption DEF IInv, TypeOK, LinkInv
<1>1. TypeOK'
  BY DEF IInv, TypeOK, Label, Outside, Waiting, Combining, Bombing, Leaving,
       Message, Status
<1>2. LockInv'
  BY DEF IInv, TypeOK, LockInv, Holds, Promoted, Combining, Bombing, Waiting
<1>3. DriverInv'
  BY <1>a, <1>b, <1>c DEF IInv, TypeOK, DriverInv, Drives, Front, Promoted,
       Combining, Bombing, Waiting
<1>4. MemberInv'
  <2> HIDE DEF Enqueue
  <2>1. /\ ~Waits(t) /\ ~Drives(t)
        /\ queue = <<>> => Drives(t)' /\ Front(t)' = t
        /\ queue # <<>> => Waits(t)'
    BY <1>c DEF Enqueue, IInv, TypeOK, Waits, Drives, Front, Promoted, Combining,
         Bombing, Waiting
  <2>2. \A u \in Thread \ {t} : Waits(u) => Waits(u)'
    BY DEF Enqueue, IInv, TypeOK, Waits
  <2>3. \A u \in Thread \ {t} : Drives(u) => Drives(u)' /\ Front(u)' = Front(u)
    BY DEF Enqueue, IInv, TypeOK, Drives, Front, Promoted, Combining, Bombing
  <2>4. /\ Len(queue) \in Nat
        /\ queue = <<>> <=> Len(queue) = 0
        /\ \A i \in 1..Len(queue) : queue[i] \in Thread \ {t}
    BY <1>a, EmptySeq, LenProperties DEF IInv, TypeOK
  <2>5. \A i \in 2..Len(queue') : Waits(queue[i])'
    <3>1. \A i \in 2..Len(queue) : Waits(queue[i])
      BY DEF IInv, MemberInv
    <3> SUFFICES ASSUME NEW i \in 2..Len(queue'), NEW n \in Thread, n = queue'[i]
                 PROVE  Waits(n)'
      BY <1>b, <2>4 DEF Waits
    <3>2. CASE i = Len(queue')
      BY <1>b, <2>1, <2>4, <3>2
    <3>3. CASE i # Len(queue')
      <4>1. i \in 2..Len(queue) /\ i \in 1..Len(queue)
        BY <1>b, <2>4, <3>3
      <4> QED
        BY <1>b, <2>2, <2>4, <3>1, <4>1
    <3> QED
      BY <3>2, <3>3
  <2>6. \A i, j \in 1..Len(queue') : queue'[i] = queue'[j] => i = j
    BY <1>b, <2>4 DEF IInv, MemberInv
  <2>7. CASE queue = <<>>
    <3>1. queue'[1] = t
      BY <1>b, <2>4, <2>7
    <3>2. (Drives(queue[1]) /\ Front(queue[1]) = queue[1])'
      BY <2>1, <2>7, <3>1 DEF Drives, Front, Promoted
    <3> QED
      BY <2>5, <2>6, <3>2 DEF MemberInv
  <2>8. CASE queue # <<>>
    <3>1. queue'[1] = queue[1] /\ queue[1] \in Thread \ {t}
      BY <1>b, <2>4, <2>8
    <3>2. Waits(queue[1]) \/ (Drives(queue[1]) /\ Front(queue[1]) = queue[1])
      BY <2>8 DEF IInv, MemberInv
    <3>3. \A n \in Thread \ {t} : Waits(n) \/ (Drives(n) /\ Front(n) = n)
                               => Waits(n)' \/ (Drives(n)' /\ Front(n)' = n)
      BY <2>2, <2>3
    <3>4. (Waits(queue[1]) \/ (Drives(queue[1]) /\ Front(queue[1]) = queue[1]))'
      BY <3>1, <3>2, <3>3 DEF Waits, Drives, Front, Promoted
    <3> QED
      BY <2>5, <2>6, <3>4 DEF MemberInv
  <2> QED
    BY <2>7, <2>8
<1>5. LinkInv'
  BY <1>a, <1>b, <1>c DEF IInv, TypeOK, LinkInv, MemberInv
<1>6. SuccInv'
  BY <1>a, <1>b, <1>c DEF IInv, TypeOK, SuccInv
<1>7. ClaimInv'
  BY <1>a, <1>b, <1>c DEF IInv, TypeOK, ClaimInv, Claims, Claim, Waits, Waiting
<1>8. SlotInv'
  <2> HIDE DEF Enqueue
  <2>1. \A u \in Thread \ {t} : /\ result'[u] = result[u] /\ pc'[u] = pc[u]
                              /\ cursor'[u] = cursor[u] /\ futex'[u] = futex[u]
    BY DEF Enqueue, IInv, TypeOK
  <2>2. /\ pc'[t] \notin Finished \cup Combining \cup {"resign", "release", "return"}
        /\ pc'[t] \in Waiting => futex'[t] # "DONE"
    BY DEF Enqueue, IInv, TypeOK, Finished, Combining, Waiting
  <2>3. ASSUME NEW u \in Thread, u # t, pc'[u] \in Finished
        PROVE  result'[cursor'[u]] # "uninit"
    <3>1. pc[u] \in Finished /\ cursor'[u] = cursor[u]
      BY <2>1, <2>3
    <3>2. cursor[u] \in Thread \ {t}
      BY <1>a, <3>1
    <3>3. result[cursor[u]] # "uninit"
      BY <3>1 DEF IInv, SlotInv
    <3> QED
      BY <2>1, <3>1, <3>2, <3>3
  <2>4. \A u \in Thread \ {t} :
          /\ pc'[u] \in Combining \cup {"resign"} /\ cursor'[u] # u => result'[u] # "uninit"
          /\ pc'[u] \in {"release", "return"} => result'[u] # "uninit"
          /\ pc'[u] \in Waiting /\ futex'[u] = "DONE" => result'[u] # "uninit"
    BY <2>1 DEF IInv, SlotInv
  <2> QED
    BY <2>2, <2>3, <2>4 DEF SlotInv
<1>9. BombInv'
  BY DEF IInv, TypeOK, BombInv, Waiting
<1>10. FutexInv'
  BY DEF IInv, TypeOK, FutexInv
<1> QED
  BY <1>1, <1>2, <1>3, <1>4, <1>5, <1>6, <1>7, <1>8, <1>9, <1>10 DEF IInv

\* store_next on the predecessor, which is still in its owner's frame.
LEMMA LinkStep == ASSUME IInv, NEW t \in Thread, Link(t) PROVE IInv'
<1> USE DEF Link, At, Goto, OnlyMoves, rawVars, nodeVars, slotVars, taskVars,
       frameVars
<1>1. TypeOK'
  BY DEF IInv, TypeOK, Label, Outside, Waiting, Combining, Bombing, Leaving,
       Message, Status
<1>2. LockInv'
  BY DEF IInv, TypeOK, LockInv, Holds, Promoted, Combining, Bombing, Waiting
<1>3. DriverInv'
  BY DEF IInv, TypeOK, DriverInv, Drives, Front, Promoted, Combining, Bombing,
       Waiting
<1>4. MemberInv'
  BY DEF IInv, TypeOK, MemberInv, Waits, Drives, Front, Promoted, Combining,
       Bombing, Waiting
<1>5. LinkInv'
  <2> HIDE DEF Link
  <2>1. /\ pc[t] = "link" /\ pc' = [pc EXCEPT ![t] = "spin"]
        /\ next' = [next EXCEPT ![prev[t]] = t] /\ prev' = [prev EXCEPT ![t] = Null]
        /\ tail' = tail /\ queue' = queue
    BY DEF Link
  <2>2. /\ pc \in [Thread -> Label] /\ next \in [Thread -> Thread \cup {Null}]
        /\ prev \in [Thread -> Thread \cup {Null}]
        /\ Len(queue) \in Nat /\ \A i \in 1..Len(queue) : queue[i] \in Thread
    BY LenProperties DEF IInv, TypeOK
  <2>3. \A i, j \in 1..Len(queue) : queue[i] = queue[j] => i = j
    BY DEF IInv, MemberInv
  <2>4. PICK k \in 2..Len(queue) : queue[k] = t
    BY <2>1 DEF IInv, LinkInv
  <2>5. prev[t] = queue[k - 1]
    BY <2>1, <2>4 DEF IInv, LinkInv
  <2>6. \A i \in 2..Len(queue) : i # k => queue[i - 1] # prev[t] /\ queue[i] # t
    BY <2>2, <2>3, <2>4, <2>5
  <2>7. queue # <<>> => queue[Len(queue)] # prev[t]
    BY <2>2, <2>3, <2>4, <2>5
  <2>8. \A i \in 2..Len(queue) :
          IF pc'[queue[i]] = "link"
          THEN next'[queue[i-1]] = Null /\ prev'[queue[i]] = queue[i-1]
          ELSE next'[queue[i-1]] = queue[i]
    <3> SUFFICES ASSUME NEW i \in 2..Len(queue)
                 PROVE  IF pc'[queue[i]] = "link"
                        THEN next'[queue[i-1]] = Null /\ prev'[queue[i]] = queue[i-1]
                        ELSE next'[queue[i-1]] = queue[i]
      OBVIOUS
    <3>1. queue[i] \in Thread /\ queue[i - 1] \in Thread
      BY <2>2
    <3>2. CASE i = k
      BY <2>1, <2>2, <2>4, <2>5, <3>1, <3>2
    <3>3. CASE i # k
      BY <2>1, <2>2, <2>6, <3>1, <3>3 DEF IInv, LinkInv
    <3> QED
      BY <3>2, <3>3
  <2>9. ASSUME NEW u \in Thread, pc'[u] = "link"
        PROVE  \E i \in 2..Len(queue) : queue[i] = u
    BY <2>1, <2>2, <2>9 DEF IInv, LinkInv
  <2>10. queue # <<>> => next'[queue[Len(queue)]] = Null
    BY <2>1, <2>2, <2>4, <2>7 DEF IInv, LinkInv
  <2> QED
    BY <2>1, <2>8, <2>9, <2>10 DEF IInv, LinkInv
<1>6. SuccInv'
  BY DEF IInv, TypeOK, SuccInv
<1>7. ClaimInv'
  BY DEF IInv, TypeOK, ClaimInv, Claims, Claim, Waits, Waiting
<1>8. SlotInv'
  BY DEF IInv, TypeOK, SlotInv, Finished, Combining, Waiting
<1>9. BombInv'
  BY DEF IInv, TypeOK, BombInv, Waiting
<1>10. FutexInv'
  BY DEF IInv, TypeOK, FutexInv
<1> QED
  BY <1>1, <1>2, <1>3, <1>4, <1>5, <1>6, <1>7, <1>8, <1>9, <1>10 DEF IInv

\* A load of the spin phase: a message other than WAITING is for this waiter.
LEMMA SpinStep == ASSUME IInv, NEW t \in Thread, Spin(t) PROVE IInv'
<1> USE DEF Spin, At, Goto, OnlyMoves, Receive, rawVars, nodeVars, slotVars,
       taskVars, frameVars
<1>a. futex[t] = "WAITING" \/ futex[t] = "DONE" \/ futex[t] = "HEAD"
     \/ (futex[t] = "POISONED" /\ ~Std)
  BY DEF IInv, TypeOK, FutexInv, Message
<1>1. TypeOK'
  BY <1>a DEF IInv, TypeOK, Label, Outside, Waiting, Combining, Bombing, Leaving,
       Message, Status
<1>2. LockInv'
  BY <1>a DEF FutexInv, IInv, TypeOK, LockInv, Holds, Promoted, Combining, Bombing, Waiting
<1>3. DriverInv'
  <2> HIDE DEF Spin
  <2>1. \A u \in Thread : Drives(u)' => Drives(u) /\ Front(u)' = Front(u)
    BY <1>a DEF Spin, IInv, TypeOK, FutexInv, Drives, Front, Promoted, Combining, Bombing, Waiting
  <2>2. queue' = queue
    BY DEF Spin
  <2> QED
    BY <2>1, <2>2 DEF IInv, DriverInv
<1>4. MemberInv'
  BY <1>a DEF FutexInv, IInv, TypeOK, MemberInv, Waits, Drives, Front, Promoted, Combining,
       Bombing, Waiting
<1>5. LinkInv'
  BY <1>a DEF IInv, TypeOK, LinkInv, MemberInv
<1>6. SuccInv'
  BY <1>a DEF IInv, TypeOK, SuccInv
<1>7. ClaimInv'
  <2> HIDE DEF Spin
  <2>1. \A u \in Thread : Claims(u)' => Claims(u) /\ Claim(u)' = Claim(u)
    BY DEF Spin, IInv, TypeOK, Claims, Claim
  <2>2. \A u \in Thread : Waits(u) => Waits(u)'
    BY <1>a DEF Spin, IInv, TypeOK, FutexInv, Waits, Waiting
  <2>3. queue' = queue
    BY DEF Spin
  <2> QED
    BY <2>1, <2>2, <2>3 DEF IInv, ClaimInv
<1>8. SlotInv'
  BY <1>a DEF IInv, TypeOK, SlotInv, Finished, Combining, Waiting
<1>9. BombInv'
  BY <1>a DEF IInv, TypeOK, BombInv, Waiting
<1>10. FutexInv'
  BY <1>a DEF IInv, TypeOK, FutexInv
<1> QED
  BY <1>1, <1>2, <1>3, <1>4, <1>5, <1>6, <1>7, <1>8, <1>9, <1>10 DEF IInv

\* Node::wait: WAITING becomes SLEEPING, or the message is taken.
LEMMA ParkStep == ASSUME IInv, NEW t \in Thread, Park(t) PROVE IInv'
<1> USE DEF Park, At, Goto, OnlyMoves, Receive, rawVars, nodeVars, slotVars,
       taskVars, frameVars
<1>a. futex[t] = "WAITING" \/ futex[t] = "DONE" \/ futex[t] = "HEAD"
     \/ (futex[t] = "POISONED" /\ ~Std)
  BY DEF IInv, TypeOK, FutexInv, Message
<1>1. TypeOK'
  <2> HIDE DEF Park
  <2>1. /\ \E l \in Label : pc' = [pc EXCEPT ![t] = l]
        /\ futex' = futex \/ futex' = [futex EXCEPT ![t] = "SLEEPING"]
        /\ cursor' = cursor \/ cursor' = [cursor EXCEPT ![t] = t]
        /\ UNCHANGED <<rawVars, next, slotVars, taskVars, prev, succ, atom, wakeAt,
                       queue>>
    BY <1>a DEF Park, Label, Waiting, Combining, Leaving
  <2>2. pc' \in [Thread -> Label] /\ futex' \in [Thread -> Message]
    BY <2>1 DEF IInv, TypeOK, Message
  <2>3. cursor' \in [Thread -> Thread \cup {Null}]
    BY <2>1 DEF IInv, TypeOK
  <2> QED
    BY <2>1, <2>2, <2>3 DEF IInv, TypeOK
<1>2. LockInv'
  BY <1>a DEF FutexInv, IInv, TypeOK, LockInv, Holds, Promoted, Combining, Bombing, Waiting
<1>3. DriverInv'
  <2> HIDE DEF Park
  <2>1. \A u \in Thread : Drives(u)' => Drives(u) /\ Front(u)' = Front(u)
    BY <1>a DEF Park, IInv, TypeOK, FutexInv, Drives, Front, Promoted, Combining, Bombing, Waiting
  <2>2. queue' = queue
    BY DEF Park
  <2> QED
    BY <2>1, <2>2 DEF IInv, DriverInv
<1>4. MemberInv'
  BY <1>a DEF FutexInv, IInv, TypeOK, MemberInv, Waits, Drives, Front, Promoted, Combining,
       Bombing, Waiting
<1>5. LinkInv'
  BY <1>a DEF IInv, TypeOK, LinkInv, MemberInv
<1>6. SuccInv'
  BY <1>a DEF IInv, TypeOK, SuccInv
<1>7. ClaimInv'
  <2> HIDE DEF Park
  <2>1. \A u \in Thread : Claims(u)' => Claims(u) /\ Claim(u)' = Claim(u)
    BY DEF Park, IInv, TypeOK, Claims, Claim
  <2>2. \A u \in Thread : Waits(u) => Waits(u)'
    BY <1>a DEF Park, IInv, TypeOK, FutexInv, Waits, Waiting
  <2>3. queue' = queue
    BY DEF Park
  <2> QED
    BY <2>1, <2>2, <2>3 DEF IInv, ClaimInv
<1>8. SlotInv'
  BY <1>a DEF IInv, TypeOK, SlotInv, Finished, Combining, Waiting
<1>9. BombInv'
  BY <1>a DEF IInv, TypeOK, BombInv, Waiting
<1>10. FutexInv'
  BY <1>a DEF IInv, TypeOK, FutexInv
<1> QED
  BY <1>1, <1>2, <1>3, <1>4, <1>5, <1>6, <1>7, <1>8, <1>9, <1>10 DEF IInv

\* The loop condition of Futex::wait.
LEMMA FutexWaitStep == ASSUME IInv, NEW t \in Thread, FutexWait(t) PROVE IInv'
<1> USE DEF FutexWait, At, Goto, OnlyMoves, rawVars, nodeVars, slotVars, taskVars,
       frameVars
<1>1. TypeOK'
  BY DEF IInv, TypeOK, Label, Outside, Waiting, Combining, Bombing, Leaving,
       Message, Status
<1>2. LockInv'
  BY DEF IInv, TypeOK, LockInv, Holds, Promoted, Combining, Bombing, Waiting
<1>3. DriverInv'
  BY DEF IInv, TypeOK, DriverInv, Drives, Front, Promoted, Combining, Bombing,
       Waiting
<1>4. MemberInv'
  BY DEF IInv, TypeOK, MemberInv, Waits, Drives, Front, Promoted, Combining,
       Bombing, Waiting
<1>5. LinkInv'
  BY DEF IInv, TypeOK, LinkInv, MemberInv
<1>6. SuccInv'
  BY DEF IInv, TypeOK, SuccInv
<1>7. ClaimInv'
  BY DEF IInv, TypeOK, ClaimInv, Claims, Claim, Waits, Waiting
<1>8. SlotInv'
  BY DEF IInv, TypeOK, SlotInv, Finished, Combining, Waiting
<1>9. BombInv'
  BY DEF IInv, TypeOK, BombInv, Waiting
<1>10. FutexInv'
  BY DEF IInv, TypeOK, FutexInv
<1> QED
  BY <1>1, <1>2, <1>3, <1>4, <1>5, <1>6, <1>7, <1>8, <1>9, <1>10 DEF IInv

\* FUTEX_WAIT blocks or returns; only the waiter's own place changes.
LEMMA FutexSyscallStep == ASSUME IInv, NEW t \in Thread, FutexSyscall(t) PROVE IInv'
<1> USE DEF FutexSyscall, At, Goto, OnlyMoves, rawVars, nodeVars, slotVars,
       taskVars, frameVars
<1>1. TypeOK'
  BY DEF IInv, TypeOK, Label, Outside, Waiting, Combining, Bombing, Leaving,
       Message, Status
<1>2. LockInv'
  BY DEF IInv, TypeOK, LockInv, Holds, Promoted, Combining, Bombing, Waiting
<1>3. DriverInv'
  BY DEF IInv, TypeOK, DriverInv, Drives, Front, Promoted, Combining, Bombing,
       Waiting
<1>4. MemberInv'
  BY DEF IInv, TypeOK, MemberInv, Waits, Drives, Front, Promoted, Combining,
       Bombing, Waiting
<1>5. LinkInv'
  BY DEF IInv, TypeOK, LinkInv, MemberInv
<1>6. SuccInv'
  BY DEF IInv, TypeOK, SuccInv
<1>7. ClaimInv'
  BY DEF IInv, TypeOK, ClaimInv, Claims, Claim, Waits, Waiting
<1>8. SlotInv'
  BY DEF IInv, TypeOK, SlotInv, Finished, Combining, Waiting
<1>9. BombInv'
  BY DEF IInv, TypeOK, BombInv, Waiting
<1>10. FutexInv'
  BY DEF IInv, TypeOK, FutexInv
<1> QED
  BY <1>1, <1>2, <1>3, <1>4, <1>5, <1>6, <1>7, <1>8, <1>9, <1>10 DEF IInv

\* FUTEX_WAIT may return for no reason.
LEMMA InterruptStep == ASSUME IInv, NEW t \in Thread, Interrupt(t) PROVE IInv'
<1> USE DEF Interrupt, At, Goto, OnlyMoves, rawVars, nodeVars, slotVars, taskVars,
       frameVars
<1>1. TypeOK'
  BY DEF IInv, TypeOK, Label, Outside, Waiting, Combining, Bombing, Leaving,
       Message, Status
<1>2. LockInv'
  BY DEF IInv, TypeOK, LockInv, Holds, Promoted, Combining, Bombing, Waiting
<1>3. DriverInv'
  BY DEF IInv, TypeOK, DriverInv, Drives, Front, Promoted, Combining, Bombing,
       Waiting
<1>4. MemberInv'
  BY DEF IInv, TypeOK, MemberInv, Waits, Drives, Front, Promoted, Combining,
       Bombing, Waiting
<1>5. LinkInv'
  BY DEF IInv, TypeOK, LinkInv, MemberInv
<1>6. SuccInv'
  BY DEF IInv, TypeOK, SuccInv
<1>7. ClaimInv'
  BY DEF IInv, TypeOK, ClaimInv, Claims, Claim, Waits, Waiting
<1>8. SlotInv'
  BY DEF IInv, TypeOK, SlotInv, Finished, Combining, Waiting
<1>9. BombInv'
  BY DEF IInv, TypeOK, BombInv, Waiting
<1>10. FutexInv'
  BY DEF IInv, TypeOK, FutexInv
<1> QED
  BY <1>1, <1>2, <1>3, <1>4, <1>5, <1>6, <1>7, <1>8, <1>9, <1>10 DEF IInv

\* The load after Futex::wait finds a message.
LEMMA WokenStep == ASSUME IInv, NEW t \in Thread, Woken(t) PROVE IInv'
<1> USE DEF Woken, At, Goto, OnlyMoves, Receive, rawVars, nodeVars, slotVars,
       taskVars, frameVars
<1>a. futex[t] = "WAITING" \/ futex[t] = "DONE" \/ futex[t] = "HEAD"
     \/ (futex[t] = "POISONED" /\ ~Std)
  BY DEF IInv, TypeOK, FutexInv, Message
<1>1. TypeOK'
  BY <1>a DEF IInv, TypeOK, Label, Outside, Waiting, Combining, Bombing, Leaving,
       Message, Status
<1>2. LockInv'
  BY <1>a DEF FutexInv, IInv, TypeOK, LockInv, Holds, Promoted, Combining, Bombing, Waiting
<1>3. DriverInv'
  <2> HIDE DEF Woken
  <2>1. \A u \in Thread : Drives(u)' => Drives(u) /\ Front(u)' = Front(u)
    BY <1>a DEF Woken, IInv, TypeOK, FutexInv, Drives, Front, Promoted, Combining, Bombing, Waiting
  <2>2. queue' = queue
    BY DEF Woken
  <2> QED
    BY <2>1, <2>2 DEF IInv, DriverInv
<1>4. MemberInv'
  BY <1>a DEF FutexInv, IInv, TypeOK, MemberInv, Waits, Drives, Front, Promoted, Combining,
       Bombing, Waiting
<1>5. LinkInv'
  BY <1>a DEF IInv, TypeOK, LinkInv, MemberInv
<1>6. SuccInv'
  BY <1>a DEF IInv, TypeOK, SuccInv
<1>7. ClaimInv'
  <2> HIDE DEF Woken
  <2>1. \A u \in Thread : Claims(u)' => Claims(u) /\ Claim(u)' = Claim(u)
    BY DEF Woken, IInv, TypeOK, Claims, Claim
  <2>2. \A u \in Thread : Waits(u) => Waits(u)'
    BY <1>a DEF Woken, IInv, TypeOK, FutexInv, Waits, Waiting
  <2>3. queue' = queue
    BY DEF Woken
  <2> QED
    BY <2>1, <2>2, <2>3 DEF IInv, ClaimInv
<1>8. SlotInv'
  BY <1>a DEF IInv, TypeOK, SlotInv, Finished, Combining, Waiting
<1>9. BombInv'
  BY <1>a DEF IInv, TypeOK, BombInv, Waiting
<1>10. FutexInv'
  BY <1>a DEF IInv, TypeOK, FutexInv
<1> QED
  BY <1>1, <1>2, <1>3, <1>4, <1>5, <1>6, <1>7, <1>8, <1>9, <1>10 DEF IInv

\* FUTEX_WAKE moves a sleeper on, for this call or for a later one.
LEMMA FutexWakeStep == ASSUME IInv, NEW t \in Thread, FutexWake(t) PROVE IInv'
<1> USE DEF FutexWake, rawVars, nodeVars, slotVars, taskVars, frameVars
<1>1. TypeOK'
  BY DEF IInv, TypeOK, Label, Outside, Waiting, Combining, Bombing, Leaving,
       Message, Status
<1>2. LockInv'
  BY DEF IInv, TypeOK, LockInv, Holds, Promoted, Combining, Bombing, Waiting
<1>3. DriverInv'
  BY DEF IInv, TypeOK, DriverInv, Drives, Front, Promoted, Combining, Bombing,
       Waiting
<1>4. MemberInv'
  BY DEF IInv, TypeOK, MemberInv, Waits, Drives, Front, Promoted, Combining,
       Bombing, Waiting
<1>5. LinkInv'
  BY DEF IInv, TypeOK, LinkInv, MemberInv
<1>6. SuccInv'
  BY DEF IInv, TypeOK, SuccInv
<1>7. ClaimInv'
  BY DEF IInv, TypeOK, ClaimInv, Claims, Claim, Waits, Waiting
<1>8. SlotInv'
  BY DEF IInv, TypeOK, SlotInv, Finished, Combining, Waiting
<1>9. BombInv'
  BY DEF IInv, TypeOK, BombInv, Waiting
<1>10. FutexInv'
  BY DEF IInv, TypeOK, FutexInv
<1> QED
  BY <1>1, <1>2, <1>3, <1>4, <1>5, <1>6, <1>7, <1>8, <1>9, <1>10 DEF IInv

\* acquire: the head of the queue becomes the owner, or its bomb goes off.
LEMMA AcquireStep == ASSUME IInv, NEW t \in Thread, Acquire(t) PROVE IInv'
<1> USE DEF Acquire, At, Goto, OnlyMoves, rawVars, nodeVars, slotVars, taskVars,
       frameVars
<1>a. Drives(t) /\ Front(t) = t
  BY DEF Drives, Front, Combining, Bombing
<1>b. queue # <<>> /\ queue[1] = t /\ t \in Thread
  BY <1>a, DriverView
<1>c. \A u \in Thread \ {t} :
          ~Drives(u) /\ pc[u] \notin {"finish", "promote", "bombWake"}
  BY <1>a, DriverView
<1>d. status = "POISONED" => ~Std /\ atom[t] = t
  BY DEF IInv, TypeOK, Status, BombInv
<1>1. TypeOK'
  BY <1>d DEF IInv, TypeOK, Label, Outside, Waiting, Combining, Bombing, Leaving,
       Message, Status
<1>2. LockInv'
  <2>1. /\ \A u \in Thread \ {t} : pc'[u] = pc[u] /\ outcome'[u] = outcome[u]
        /\ futex' = futex
    BY DEF IInv, TypeOK
  <2>2. CASE status = "UNLOCKED"
    <3> HIDE DEF Acquire
    <3>1. pc'[t] = "exec" /\ status' = "LOCKED"
      BY <2>2 DEF Acquire, IInv, TypeOK
    <3>2. \A u \in Thread : ~Holds(u) /\ pc[u] \notin Bombing
      BY <2>2 DEF IInv, LockInv
    <3>3. \A u \in Thread \ {t} : ~Holds(u)' /\ pc'[u] \notin Bombing
      BY <2>1, <3>2 DEF Holds, Promoted
    <3> QED
      BY <3>1, <3>3 DEF LockInv, Bombing
  <2>3. CASE status = "POISONED"
    <3> HIDE DEF Acquire
    <3>1. pc'[t] = "bombPoison" /\ status' = "POISONED" /\ outcome'[t] = "cancelled"
      BY <2>3 DEF Acquire, IInv, TypeOK
    <3>2. \A u \in Thread : ~Holds(u)
      BY <2>3 DEF IInv, LockInv
    <3>3. \A u \in Thread : ~Holds(u)'
      BY <2>1, <3>1, <3>2 DEF Holds, Promoted, Combining, Waiting
    <3>4. \A u \in Thread : pc'[u] \in Bombing =>
            ~Std /\ outcome'[u] \in {"panic", "cancelled"}
      BY <1>d, <2>1, <2>3, <3>1 DEF IInv, LockInv
    <3> QED
      BY <3>1, <3>3, <3>4 DEF LockInv
  <2> QED
    BY <2>2, <2>3
<1>3. DriverInv'
  BY <1>b, <1>c, <1>d DEF IInv, TypeOK, DriverInv, Drives, Front, Promoted,
       Combining, Bombing, Waiting
<1>4. MemberInv'
  <2> HIDE DEF Acquire
  <2>1. Front(t)' = Front(t) /\ Drives(t)'
    BY <1>a, <1>d DEF Acquire, IInv, TypeOK, Drives, Front, Combining, Bombing
  <2>2. \A u \in Thread : Waits(u) => Waits(u)'
    BY DEF Acquire, IInv, TypeOK, Waits, Waiting
  <2>3. queue' = queue
    BY DEF Acquire
  <2> QED
    BY <1>a, <1>b, <2>1, <2>2, <2>3 DEF IInv, TypeOK, MemberInv
<1>5. LinkInv'
  BY DEF IInv, TypeOK, LinkInv, MemberInv
<1>6. SuccInv'
  <2> HIDE DEF Acquire
  <2>1. \A u \in Thread : pc'[u] \notin {"finish", "promote", "bombWake"}
    <3>1. \E l \in {"exec", "bombPoison"} : pc' = [pc EXCEPT ![t] = l]
      BY DEF Acquire
    <3>2. pc \in [Thread -> Label]
      BY DEF IInv, TypeOK
    <3> QED
      BY <1>c, <3>1, <3>2
  <2> QED
    BY <2>1 DEF SuccInv
<1>7. ClaimInv'
  <2> HIDE DEF Acquire
  <2>1. \A u \in Thread : Claims(u)' => Claims(u) /\ Claim(u)' = Claim(u)
    BY DEF Acquire, IInv, TypeOK, Claims, Claim
  <2>2. \A u \in Thread : Waits(u) => Waits(u)'
    BY DEF Acquire, IInv, TypeOK, Waits, Waiting
  <2>3. queue' = queue
    BY DEF Acquire
  <2> QED
    BY <2>1, <2>2, <2>3 DEF IInv, ClaimInv
<1>8. SlotInv'
  BY DEF IInv, TypeOK, SlotInv, Finished, Combining, Waiting
<1>9. BombInv'
  BY DEF IInv, TypeOK, BombInv, Waiting
<1>10. FutexInv'
  BY DEF IInv, TypeOK, FutexInv
<1> QED
  BY <1>1, <1>2, <1>3, <1>4, <1>5, <1>6, <1>7, <1>8, <1>9, <1>10 DEF IInv

\* A combiner moves the closure out of the node at the front.
LEMMA ExecBeginStep == ASSUME IInv, NEW t \in Thread, ExecBegin(t) PROVE IInv'
<1> USE DEF ExecBegin, At, Goto, OnlyMoves, Consumed, rawVars, nodeVars, slotVars,
       taskVars, frameVars
<1>1. TypeOK'
  BY DEF IInv, TypeOK, Label, Outside, Waiting, Combining, Bombing, Leaving,
       Message, Status
<1>2. LockInv'
  BY DEF IInv, TypeOK, LockInv, Holds, Promoted, Combining, Bombing, Waiting
<1>3. DriverInv'
  BY DEF IInv, TypeOK, DriverInv, Drives, Front, Promoted, Combining, Bombing,
       Waiting
<1>4. MemberInv'
  BY DEF IInv, TypeOK, MemberInv, Waits, Drives, Front, Promoted, Combining,
       Bombing, Waiting
<1>5. LinkInv'
  BY DEF IInv, TypeOK, LinkInv, MemberInv
<1>6. SuccInv'
  BY DEF IInv, TypeOK, SuccInv
<1>7. ClaimInv'
  BY DEF IInv, TypeOK, ClaimInv, Claims, Claim, Waits, Waiting
<1>8. SlotInv'
  BY DEF IInv, TypeOK, SlotInv, Finished, Combining, Waiting
<1>9. BombInv'
  BY DEF IInv, TypeOK, BombInv, Waiting
<1>10. FutexInv'
  BY DEF IInv, TypeOK, FutexInv
<1> QED
  BY <1>1, <1>2, <1>3, <1>4, <1>5, <1>6, <1>7, <1>8, <1>9, <1>10 DEF IInv

\* The closure ends: the result is stored, or the combiner unwinds.
LEMMA ExecEndStep == ASSUME IInv, NEW t \in Thread, ExecEnd(t) PROVE IInv'
<1> USE DEF ExecEnd, At, Goto, OnlyMoves, rawVars, nodeVars, slotVars, taskVars,
       frameVars
<1>a. Drives(t) /\ Front(t) = cursor[t]
  BY DEF Drives, Front, Combining, Bombing
<1>b. queue # <<>> /\ queue[1] = cursor[t] /\ cursor[t] \in Thread
  BY <1>a, DriverView
<1>c. \A u \in Thread \ {t} :
          ~Drives(u) /\ pc[u] \notin {"finish", "promote", "bombWake"}
  BY <1>a, DriverView
<1>d. ~Std => atom[t] = cursor[t]
  BY DEF IInv, BombInv
<1>1. TypeOK'
  BY <1>b DEF IInv, TypeOK, Label, Outside, Waiting, Combining, Bombing, Leaving,
       Message, Status
<1>2. LockInv'
  BY DEF IInv, TypeOK, LockInv, Holds, Promoted, Combining, Bombing, Waiting
<1>3. DriverInv'
  <2> HIDE DEF ExecEnd
  <2>1. Front(t)' = cursor[t]
    BY <1>d DEF ExecEnd, IInv, TypeOK, Front, Combining, Bombing
  <2>2. \A u \in Thread \ {t} : ~Drives(u)'
    BY <1>c DEF ExecEnd, IInv, TypeOK, Drives, Promoted
  <2>3. queue' = queue
    BY DEF ExecEnd
  <2> QED
    BY <1>b, <2>1, <2>2, <2>3 DEF DriverInv
<1>4. MemberInv'
  <2> HIDE DEF ExecEnd
  <2>1. Front(t)' = Front(t) /\ Drives(t)'
    BY <1>a, <1>d DEF ExecEnd, IInv, TypeOK, Drives, Front, Combining, Bombing
  <2>2. \A u \in Thread : Waits(u) => Waits(u)'
    BY DEF ExecEnd, IInv, TypeOK, Waits, Waiting
  <2>3. queue' = queue
    BY DEF ExecEnd
  <2> QED
    BY <1>a, <1>b, <1>c, <2>1, <2>2, <2>3 DEF IInv, TypeOK, MemberInv
<1>5. LinkInv'
  <2> HIDE DEF ExecEnd
  <2>1. \A u \in Thread : pc'[u] = "link" <=> pc[u] = "link"
    BY DEF ExecEnd, IInv, TypeOK
  <2>2. UNCHANGED <<tail, next, prev, queue>>
    BY DEF ExecEnd
  <2> QED
    BY <2>1, <2>2 DEF IInv, TypeOK, LinkInv
<1>6. SuccInv'
  <2> HIDE DEF ExecEnd
  <2>1. \A u \in Thread : pc'[u] \notin {"finish", "promote", "bombWake"}
    BY <1>c DEF ExecEnd, IInv, TypeOK
  <2> QED
    BY <2>1 DEF SuccInv
<1>7. ClaimInv'
  <2> HIDE DEF ExecEnd
  <2>1. \A u \in Thread : Claims(u)' => Claims(u) /\ Claim(u)' = Claim(u)
    BY DEF ExecEnd, IInv, TypeOK, Claims, Claim
  <2>2. \A u \in Thread : Waits(u) => Waits(u)'
    BY DEF ExecEnd, IInv, TypeOK, Waits, Waiting
  <2>3. queue' = queue
    BY DEF ExecEnd
  <2> QED
    BY <2>1, <2>2, <2>3 DEF IInv, ClaimInv
<1>8. SlotInv'
  <2> HIDE DEF ExecEnd
  <2>1. \A u \in Thread : result[u] # "uninit" => result'[u] # "uninit"
    BY <1>b DEF ExecEnd, IInv, TypeOK
  <2>2. pc'[t] = "loadNext" => result'[cursor[t]] # "uninit"
    BY <1>b DEF ExecEnd, IInv, TypeOK
  <2>3. /\ UNCHANGED <<cursor, futex>>
        /\ \A u \in Thread \ {t} : pc'[u] = pc[u]
        /\ pc[t] = "run" /\ pc'[t] \in {"loadNext", "bombPoison"}
    BY DEF ExecEnd, IInv, TypeOK
  <2>4. \A u \in Thread \ {t} : pc[u] \in Finished => cursor[u] \in Thread
    BY <1>c DEF IInv, ClaimInv, Claims, Claim, Drives, Finished
  <2>5. \A u \in Thread : pc'[u] \in Finished => result'[cursor'[u]] # "uninit"
    BY <2>1, <2>2, <2>3, <2>4 DEF IInv, SlotInv, Finished
  <2> QED
    BY <2>1, <2>3, <2>5 DEF IInv, SlotInv, Finished, Combining, Waiting
<1>9. BombInv'
  BY DEF IInv, TypeOK, BombInv, Waiting
<1>10. FutexInv'
  BY DEF IInv, TypeOK, FutexInv
<1> QED
  BY <1>1, <1>2, <1>3, <1>4, <1>5, <1>6, <1>7, <1>8, <1>9, <1>10 DEF IInv

\* load_next in the combining loop sees the second node or nothing.
LEMMA LoadNextStep == ASSUME IInv, NEW t \in Thread, LoadNext(t) PROVE IInv'
<1> USE DEF LoadNext, At, Goto, OnlyMoves, rawVars, nodeVars, slotVars, taskVars,
       frameVars
<1>a. Drives(t) /\ Front(t) = cursor[t]
  BY DEF Drives, Front, Combining, Bombing
<1>b. queue # <<>> /\ queue[1] = cursor[t] /\ cursor[t] \in Thread
  BY <1>a, DriverView
<1>c. \A u \in Thread \ {t} :
          ~Drives(u) /\ pc[u] \notin {"finish", "promote", "bombWake"}
  BY <1>a, DriverView
<1>d. next[cursor[t]] # Null =>
       /\ Len(queue) > 1 /\ next[cursor[t]] = queue[2]
       /\ queue[2] \in Thread /\ pc[queue[2]] # "link"
  BY <1>a, DriverView
<1>1. TypeOK'
  BY <1>b, <1>d DEF IInv, TypeOK, Label, Outside, Waiting, Combining, Bombing,
       Leaving, Message, Status
<1>2. LockInv'
  <2> HIDE DEF LoadNext
  <2>1. \A u \in Thread : /\ Holds(u)' <=> Holds(u)
                          /\ pc'[u] \in Bombing <=> pc[u] \in Bombing
    BY DEF LoadNext, IInv, TypeOK, Holds, Promoted, Combining, Bombing, Waiting
  <2>2. UNCHANGED <<status, outcome>>
    BY DEF LoadNext
  <2> QED
    BY <2>1, <2>2 DEF IInv, LockInv
<1>3. DriverInv'
  BY DEF IInv, TypeOK, DriverInv, Drives, Front, Promoted, Combining, Bombing,
       Waiting
<1>4. MemberInv'
  BY DEF IInv, TypeOK, MemberInv, Waits, Drives, Front, Promoted, Combining,
       Bombing, Waiting
<1>5. LinkInv'
  BY DEF IInv, TypeOK, LinkInv, MemberInv
<1>6. SuccInv'
  <2> HIDE DEF LoadNext
  <2>1. \A u \in Thread \ {t} : pc'[u] \notin {"finish", "promote", "bombWake"}
    BY <1>c DEF LoadNext, IInv, TypeOK
  <2>2. pc'[t] \in {"finish", "promote", "bombWake"} =>
          Len(queue) > 1 /\ succ'[t] = queue[2] /\ pc'[queue[2]] # "link"
    BY <1>d DEF LoadNext, IInv, TypeOK
  <2>3. queue' = queue
    BY DEF LoadNext
  <2> QED
    BY <2>1, <2>2, <2>3 DEF SuccInv
<1>7. ClaimInv'
  <2> HIDE DEF LoadNext
  <2>1. \A u \in Thread : Claims(u)' => Claims(u) /\ Claim(u)' = Claim(u)
    BY DEF LoadNext, IInv, TypeOK, Claims, Claim
  <2>2. \A u \in Thread : Waits(u) => Waits(u)'
    BY DEF LoadNext, IInv, TypeOK, Waits, Waiting
  <2>3. queue' = queue
    BY DEF LoadNext
  <2> QED
    BY <2>1, <2>2, <2>3 DEF IInv, ClaimInv
<1>8. SlotInv'
  BY DEF IInv, TypeOK, SlotInv, Finished, Combining, Waiting
<1>9. BombInv'
  BY DEF IInv, TypeOK, BombInv, Waiting
<1>10. FutexInv'
  BY DEF IInv, TypeOK, FutexInv
<1> QED
  BY <1>1, <1>2, <1>3, <1>4, <1>5, <1>6, <1>7, <1>8, <1>9, <1>10 DEF IInv

\* wake_as_done in the combining loop: the front leaves, the second is next.
LEMMA FinishStep == ASSUME IInv, NEW t \in Thread, Finish(t) PROVE IInv'
<1> USE DEF Finish, At, Goto, OnlyMoves, Notify, Arm, Dequeue, rawVars, nodeVars,
       slotVars, taskVars, frameVars
<1>a. Drives(t) /\ Front(t) = cursor[t]
  BY DEF Drives, Front, Combining, Bombing
<1>b. queue # <<>> /\ queue[1] = cursor[t] /\ cursor[t] \in Thread
  BY <1>a, DriverView
<1>c. \A u \in Thread \ {t} :
          ~Drives(u) /\ pc[u] \notin {"finish", "promote", "bombWake"}
  BY <1>a, DriverView
<1>d. /\ cursor[t] = t \/ Waits(cursor[t])
      /\ \A i \in 2..Len(queue) :
           /\ queue[i] \in Thread /\ Waits(queue[i])
           /\ queue[i] # cursor[t] /\ queue[i] # t
  BY <1>a, DriverView
<1>e. Len(queue) > 1 /\ succ[t] = queue[2] /\ pc[queue[2]] # "link"
  BY DEF IInv, TypeOK, SuccInv
<1>f. /\ queue' \in Seq(Thread)
      /\ Len(queue') = Len(queue) - 1
      /\ queue' = <<>> <=> Len(queue) = 1
      /\ \A i \in 1..Len(queue') : queue'[i] = queue[i + 1]
  BY <1>b, DequeueFacts DEF IInv, TypeOK
<1>1. TypeOK'
  BY <1>b, <1>d, <1>e, <1>f DEF IInv, TypeOK, Label, Outside, Waiting, Combining,
       Bombing, Leaving, Message, Status
<1>2. LockInv'
  BY <1>b, <1>d DEF IInv, TypeOK, LockInv, Holds, Promoted, Combining, Bombing,
       Waiting
<1>3. DriverInv'
  BY <1>b, <1>c, <1>d, <1>e, <1>f DEF IInv, TypeOK, DriverInv, Drives, Front,
       Promoted, Combining, Bombing, Waiting
<1>4. MemberInv'
  <2> HIDE DEF Finish
  <2>1. /\ \E l \in Label \ Waiting : pc' = [pc EXCEPT ![t] = l]
        /\ \E m \in Message : futex' = [futex EXCEPT ![cursor[t]] = m]
        /\ ~Waits(t)
    BY DEF Finish, Label, Combining, Bombing, Waiting, Waits, Message
  <2>2. pc \in [Thread -> Label] /\ futex \in [Thread -> Message]
    BY DEF IInv, TypeOK
  <2>3. \A n \in Thread \ {queue[1]} : Waits(n) => Waits(n)'
    BY <1>b, <2>1, <2>2 DEF Waits
  <2> QED
    BY <1>e, <1>f, <2>3, MemberPassed DEF IInv, TypeOK
<1>5. LinkInv'
  BY <1>e, DequeueLinks DEF IInv, TypeOK, Label, Combining, Bombing, Leaving
<1>6. SuccInv'
  <2> HIDE DEF Finish
  <2>1. \A u \in Thread : pc'[u] \notin {"finish", "promote", "bombWake"}
    BY <1>c DEF Finish, IInv, TypeOK
  <2> QED
    BY <2>1 DEF SuccInv
<1>7. ClaimInv'
  BY <1>b, <1>d, <1>f DEF IInv, TypeOK, ClaimInv, Claims, Claim, Waits, Waiting
<1>8. SlotInv'
  BY <1>b, <1>d DEF IInv, TypeOK, SlotInv, Finished, Combining, Waiting
<1>9. BombInv'
  BY <1>b, <1>d DEF IInv, TypeOK, BombInv, Waiting
<1>10. FutexInv'
  BY <1>b, <1>d DEF IInv, TypeOK, FutexInv
<1> QED
  BY <1>1, <1>2, <1>3, <1>4, <1>5, <1>6, <1>7, <1>8, <1>9, <1>10 DEF IInv

\* try_close succeeds exactly on a queue of one.
LEMMA TryCloseStep == ASSUME IInv, NEW t \in Thread, TryClose(t) PROVE IInv'
<1> USE DEF TryClose, At, Goto, OnlyMoves, Dequeue, rawVars, nodeVars, slotVars,
       taskVars, frameVars
<1>a. Drives(t) /\ Front(t) = cursor[t]
  BY DEF Drives, Front, Combining, Bombing
<1>b. queue # <<>> /\ queue[1] = cursor[t] /\ cursor[t] \in Thread
  BY <1>a, DriverView
<1>c. \A u \in Thread \ {t} :
          ~Drives(u) /\ pc[u] \notin {"finish", "promote", "bombWake"}
  BY <1>a, DriverView
<1>d. /\ cursor[t] = t \/ Waits(cursor[t])
      /\ \A i \in 2..Len(queue) :
           /\ queue[i] \in Thread /\ Waits(queue[i])
           /\ queue[i] # cursor[t] /\ queue[i] # t
  BY <1>a, DriverView
<1>e. tail = cursor[t] <=> Len(queue) = 1
  BY <1>a, DriverView
<1>f. tail = cursor[t] => queue' = <<>>
  BY <1>b, <1>e, DequeueFacts DEF IInv, TypeOK
<1>1. TypeOK'
  BY <1>f DEF IInv, TypeOK, Label, Outside, Waiting, Combining, Bombing, Leaving,
       Message, Status
<1>2. LockInv'
  <2> HIDE DEF TryClose
  <2>1. \A u \in Thread : /\ Holds(u)' <=> Holds(u)
                          /\ pc'[u] \in Bombing <=> pc[u] \in Bombing
    BY DEF TryClose, IInv, TypeOK, Holds, Promoted, Combining, Bombing, Waiting
  <2>2. UNCHANGED <<status, outcome>>
    BY DEF TryClose
  <2> QED
    BY <2>1, <2>2 DEF IInv, LockInv
<1>3. DriverInv'
  BY <1>b, <1>c, <1>f DEF IInv, TypeOK, DriverInv, Drives, Front, Promoted,
       Combining, Bombing, Waiting
<1>4. MemberInv'
  BY <1>b, <1>d, <1>f DEF IInv, TypeOK, MemberInv, Waits, Drives, Front, Promoted,
       Combining, Bombing, Waiting
<1>5. LinkInv'
  <2> HIDE DEF TryClose
  <2>1. \A u \in Thread : pc'[u] = "link" <=> pc[u] = "link"
    BY DEF TryClose, IInv, TypeOK
  <2>2. CASE tail = cursor[t]
    BY <1>f, <2>1, <2>2 DEF TryClose, IInv, TypeOK, LinkInv
  <2>3. CASE tail # cursor[t]
    BY <2>1, <2>3 DEF TryClose, IInv, TypeOK, LinkInv
  <2> QED
    BY <2>2, <2>3
<1>6. SuccInv'
  <2> HIDE DEF TryClose
  <2>1. \A u \in Thread : pc'[u] \notin {"finish", "promote", "bombWake"}
    BY <1>c DEF TryClose, IInv, TypeOK
  <2> QED
    BY <2>1 DEF SuccInv
<1>7. ClaimInv'
  <2> HIDE DEF TryClose
  <2>1. \A u \in Thread \ {t} : Claims(u)' => Claims(u) /\ Claim(u)' = Claim(u)
    BY DEF TryClose, IInv, TypeOK, Claims, Claim
  <2>2. \A u \in Thread : Waits(u) => Waits(u)'
    BY DEF TryClose, IInv, TypeOK, Waits, Waiting
  <2>3. CASE tail = cursor[t]
    <3>1. queue' = <<>> /\ Claim(t)' = cursor[t]
      BY <1>f, <2>3 DEF TryClose, IInv, TypeOK, Claim
    <3>2. \A u \in Thread : Claims(u) => Claim(u) # cursor[t]
      <4>1. 1 \in 1..Len(queue)
        BY <1>b, EmptySeq DEF TryClose, IInv, TypeOK
      <4> QED
        BY <1>b, <4>1 DEF IInv, ClaimInv
    <3> QED
      BY <1>b, <1>d, <2>1, <2>2, <3>1, <3>2 DEF IInv, ClaimInv
  <2>4. CASE tail # cursor[t]
    <3>1. ~Claims(t)' /\ queue' = queue
      BY <2>4 DEF TryClose, IInv, TypeOK, Claims
    <3> QED
      BY <2>1, <2>2, <2>4, <3>1 DEF IInv, ClaimInv
  <2> QED
    BY <2>3, <2>4
<1>8. SlotInv'
  BY DEF IInv, TypeOK, SlotInv, Finished, Combining, Waiting
<1>9. BombInv'
  BY DEF IInv, TypeOK, BombInv, Waiting
<1>10. FutexInv'
  BY DEF IInv, TypeOK, FutexInv
<1> QED
  BY <1>1, <1>2, <1>3, <1>4, <1>5, <1>6, <1>7, <1>8, <1>9, <1>10 DEF IInv

\* wake_as_done after the queue was closed.
LEMMA FinishLastStep == ASSUME IInv, NEW t \in Thread, FinishLast(t) PROVE IInv'
<1> USE DEF FinishLast, At, Goto, OnlyMoves, Notify, rawVars, nodeVars, slotVars,
       taskVars, frameVars
<1>a. Claim(t) \in Thread /\ (Claim(t) = t \/ Waits(Claim(t)))
      /\ \A i \in 1..Len(queue) : queue[i] # Claim(t)
  BY DEF IInv, ClaimInv, Claims
<1>1. TypeOK'
  BY <1>a DEF Claim, IInv, TypeOK, Label, Outside, Waiting, Combining, Bombing, Leaving,
       Message, Status
<1>2. LockInv'
  BY <1>a DEF IInv, TypeOK, LockInv, Holds, Promoted, Combining, Bombing, Waiting
<1>3. DriverInv'
  BY <1>a DEF IInv, TypeOK, DriverInv, Drives, Front, Promoted, Combining, Bombing,
       Waiting
<1>4. MemberInv'
  BY <1>a DEF Claim, IInv, TypeOK, MemberInv, Waits, Drives, Front, Promoted, Combining,
       Bombing, Waiting
<1>5. LinkInv'
  BY DEF IInv, TypeOK, LinkInv, MemberInv
<1>6. SuccInv'
  BY <1>a DEF IInv, TypeOK, SuccInv
<1>7. ClaimInv'
  BY <1>a DEF IInv, TypeOK, ClaimInv, Claims, Claim, Waits, Waiting
<1>8. SlotInv'
  BY <1>a DEF IInv, TypeOK, SlotInv, Finished, Combining, Waiting
<1>9. BombInv'
  BY DEF IInv, TypeOK, BombInv, Waiting
<1>10. FutexInv'
  BY <1>a DEF IInv, TypeOK, FutexInv
<1> QED
  BY <1>1, <1>2, <1>3, <1>4, <1>5, <1>6, <1>7, <1>8, <1>9, <1>10 DEF IInv

\* release after the queue was closed.
LEMMA ReleaseStep == ASSUME IInv, NEW t \in Thread, Release(t) PROVE IInv'
<1> USE DEF Release, At, Goto, OnlyMoves, rawVars, nodeVars, slotVars, taskVars,
       frameVars
<1>1. TypeOK'
  BY DEF IInv, TypeOK, Label, Outside, Waiting, Combining, Bombing, Leaving,
       Message, Status
<1>2. LockInv'
  BY DEF IInv, TypeOK, LockInv, Holds, Promoted, Combining, Bombing, Waiting
<1>3. DriverInv'
  BY DEF IInv, TypeOK, DriverInv, Drives, Front, Promoted, Combining, Bombing,
       Waiting
<1>4. MemberInv'
  BY DEF IInv, TypeOK, MemberInv, Waits, Drives, Front, Promoted, Combining,
       Bombing, Waiting
<1>5. LinkInv'
  BY DEF IInv, TypeOK, LinkInv, MemberInv
<1>6. SuccInv'
  BY DEF IInv, TypeOK, SuccInv
<1>7. ClaimInv'
  BY DEF IInv, TypeOK, ClaimInv, Claims, Claim, Waits, Waiting
<1>8. SlotInv'
  BY DEF IInv, TypeOK, SlotInv, Finished, Combining, Waiting
<1>9. BombInv'
  BY DEF IInv, TypeOK, BombInv, Waiting
<1>10. FutexInv'
  BY DEF IInv, TypeOK, FutexInv
<1> QED
  BY <1>1, <1>2, <1>3, <1>4, <1>5, <1>6, <1>7, <1>8, <1>9, <1>10 DEF IInv

\* The spin of the handoff ends with the second node.
LEMMA AwaitSuccessorStep == ASSUME IInv, NEW t \in Thread, AwaitSuccessor(t) PROVE IInv'
<1> USE DEF AwaitSuccessor, At, Goto, OnlyMoves, rawVars, nodeVars, slotVars,
       taskVars, frameVars
<1>a. Drives(t) /\ Front(t) = cursor[t]
  BY DEF Drives, Front, Combining, Bombing
<1>b. queue # <<>> /\ queue[1] = cursor[t] /\ cursor[t] \in Thread
  BY <1>a, DriverView
<1>c. \A u \in Thread \ {t} :
          ~Drives(u) /\ pc[u] \notin {"finish", "promote", "bombWake"}
  BY <1>a, DriverView
<1>d. next[cursor[t]] # Null =>
       /\ Len(queue) > 1 /\ next[cursor[t]] = queue[2]
       /\ queue[2] \in Thread /\ pc[queue[2]] # "link"
  BY <1>a, DriverView
<1>1. TypeOK'
  BY <1>b, <1>d DEF IInv, TypeOK, Label, Outside, Waiting, Combining, Bombing,
       Leaving, Message, Status
<1>2. LockInv'
  BY DEF IInv, TypeOK, LockInv, Holds, Promoted, Combining, Bombing, Waiting
<1>3. DriverInv'
  BY DEF IInv, TypeOK, DriverInv, Drives, Front, Promoted, Combining, Bombing,
       Waiting
<1>4. MemberInv'
  BY DEF IInv, TypeOK, MemberInv, Waits, Drives, Front, Promoted, Combining,
       Bombing, Waiting
<1>5. LinkInv'
  BY DEF IInv, TypeOK, LinkInv, MemberInv
<1>6. SuccInv'
  <2> HIDE DEF AwaitSuccessor
  <2>1. \A u \in Thread \ {t} : pc'[u] \notin {"finish", "promote", "bombWake"}
    BY <1>c DEF AwaitSuccessor, IInv, TypeOK
  <2>2. pc'[t] \in {"finish", "promote", "bombWake"} =>
          Len(queue) > 1 /\ succ'[t] = queue[2] /\ pc'[queue[2]] # "link"
    BY <1>d DEF AwaitSuccessor, IInv, TypeOK
  <2>3. queue' = queue
    BY DEF AwaitSuccessor
  <2> QED
    BY <2>1, <2>2, <2>3 DEF SuccInv
<1>7. ClaimInv'
  <2> HIDE DEF AwaitSuccessor
  <2>1. \A u \in Thread : Claims(u)' => Claims(u) /\ Claim(u)' = Claim(u)
    BY DEF AwaitSuccessor, IInv, TypeOK, Claims, Claim
  <2>2. \A u \in Thread : Waits(u) => Waits(u)'
    BY DEF AwaitSuccessor, IInv, TypeOK, Waits, Waiting
  <2>3. queue' = queue
    BY DEF AwaitSuccessor
  <2> QED
    BY <2>1, <2>2, <2>3 DEF IInv, ClaimInv
<1>8. SlotInv'
  BY DEF IInv, TypeOK, SlotInv, Finished, Combining, Waiting
<1>9. BombInv'
  BY DEF IInv, TypeOK, BombInv, Waiting
<1>10. FutexInv'
  BY DEF IInv, TypeOK, FutexInv
<1> QED
  BY <1>1, <1>2, <1>3, <1>4, <1>5, <1>6, <1>7, <1>8, <1>9, <1>10 DEF IInv

\* wake_as_head: the raw lock and the queue change hands in one store.
LEMMA PromoteStep == ASSUME IInv, NEW t \in Thread, Promote(t) PROVE IInv'
<1> USE DEF Promote, At, Goto, OnlyMoves, Notify, Dequeue, rawVars, nodeVars,
       slotVars, taskVars, frameVars
<1>a. Drives(t) /\ Front(t) = cursor[t]
  BY DEF Drives, Front, Combining, Bombing
<1>b. queue # <<>> /\ queue[1] = cursor[t] /\ cursor[t] \in Thread
  BY <1>a, DriverView
<1>c. \A u \in Thread \ {t} :
          ~Drives(u) /\ pc[u] \notin {"finish", "promote", "bombWake"}
  BY <1>a, DriverView
<1>d. /\ cursor[t] = t \/ Waits(cursor[t])
      /\ \A i \in 2..Len(queue) :
           /\ queue[i] \in Thread /\ Waits(queue[i])
           /\ queue[i] # cursor[t] /\ queue[i] # t
  BY <1>a, DriverView
<1>e. Len(queue) > 1 /\ succ[t] = queue[2] /\ pc[queue[2]] # "link"
  BY DEF IInv, TypeOK, SuccInv
<1>f. /\ queue' \in Seq(Thread)
      /\ Len(queue') = Len(queue) - 1
      /\ queue' = <<>> <=> Len(queue) = 1
      /\ \A i \in 1..Len(queue') : queue'[i] = queue[i + 1]
  BY <1>b, DequeueFacts DEF IInv, TypeOK
<1>1. TypeOK'
  BY <1>b, <1>d, <1>e, <1>f DEF IInv, TypeOK, Label, Outside, Waiting, Combining,
       Bombing, Leaving, Message, Status
<1>2. LockInv'
  BY <1>b, <1>d DEF IInv, TypeOK, LockInv, Holds, Promoted, Combining, Bombing,
       Waiting
<1>3. DriverInv'
  BY <1>b, <1>c, <1>d, <1>e, <1>f DEF IInv, TypeOK, DriverInv, Drives, Front,
       Promoted, Combining, Bombing, Waiting
<1>4. MemberInv'
  BY <1>b, <1>d, <1>e, <1>f DEF IInv, TypeOK, MemberInv, Waits, Drives, Front,
       Promoted, Combining, Bombing, Waiting
<1>5. LinkInv'
  BY <1>e, DequeueLinks DEF IInv, TypeOK, Label, Combining, Bombing, Leaving
<1>6. SuccInv'
  <2> HIDE DEF Promote
  <2>1. \A u \in Thread : pc'[u] \notin {"finish", "promote", "bombWake"}
    BY <1>c DEF Promote, IInv, TypeOK
  <2> QED
    BY <2>1 DEF SuccInv
<1>7. ClaimInv'
  <2> HIDE DEF Promote
  <2>1. \A u \in Thread \ {t} : Claims(u)' => Claims(u) /\ Claim(u)' = Claim(u)
    BY DEF Promote, IInv, TypeOK, Claims, Claim
  <2>2. Claims(t)' /\ Claim(t)' = cursor[t]
    BY DEF Promote, IInv, TypeOK, Claims, Claim
  <2>3. \A u \in Thread : Waits(u) /\ u # queue[2] => Waits(u)'
    BY <1>e DEF Promote, IInv, TypeOK, Waits, Waiting
  <2>4. 1 \in 1..Len(queue) /\ 2 \in 1..Len(queue) /\ 2 \in 2..Len(queue)
    BY <1>b, <1>e, EmptySeq, Sizes DEF Promote, IInv, TypeOK
  <2>5. \A i \in 1..Len(queue') : /\ i + 1 \in 2..Len(queue) /\ i + 1 \in 1..Len(queue)
                                 /\ queue'[i] = queue[i + 1]
    BY <1>b, <1>f, EmptySeq DEF Promote, IInv, TypeOK
  <2>6. \A u \in Thread : Claims(u) => Claim(u) # queue[1] /\ Claim(u) # queue[2]
    BY <2>4 DEF Promote, IInv, ClaimInv
  <2>7. cursor[t] # queue[2]
    BY <1>d, <2>4
  <2>8. ASSUME NEW u \in Thread, Claims(u)'
        PROVE  /\ Claim(u)' \in Thread
               /\ Claim(u)' = u \/ Waits(Claim(u))'
               /\ \A i \in 1..Len(queue') : queue'[i] # Claim(u)'
    <3>1. CASE u = t
      BY <1>b, <1>d, <2>2, <2>3, <2>5, <2>7, <3>1 DEF Waits
    <3>2. CASE u # t
      <4>1. Claims(u) /\ Claim(u)' = Claim(u)
        BY <2>1, <2>8, <3>2
      <4>2. /\ Claim(u) \in Thread
            /\ Claim(u) = u \/ Waits(Claim(u))
            /\ \A i \in 1..Len(queue) : queue[i] # Claim(u)
        BY <4>1 DEF IInv, ClaimInv
      <4> QED
        BY <2>3, <2>5, <2>6, <4>1, <4>2 DEF Waits
    <3> QED
      BY <3>1, <3>2
  <2>9. \A u \in Thread \ {t} : Claims(u)' => Claim(u)' # Claim(t)'
    BY <1>b, <2>1, <2>2, <2>6
  <2>10. \A u, v \in Thread : Claims(u) /\ Claims(v) /\ Claim(u) = Claim(v) => u = v
    BY DEF IInv, ClaimInv
  <2> QED
    BY <2>1, <2>2, <2>8, <2>9, <2>10 DEF ClaimInv
<1>8. SlotInv'
  BY <1>b, <1>d DEF IInv, TypeOK, SlotInv, Finished, Combining, Waiting
<1>9. BombInv'
  BY <1>b, <1>d DEF IInv, TypeOK, BombInv, Waiting
<1>10. FutexInv'
  BY <1>b, <1>d DEF IInv, TypeOK, FutexInv
<1> QED
  BY <1>1, <1>2, <1>3, <1>4, <1>5, <1>6, <1>7, <1>8, <1>9, <1>10 DEF IInv

\* wake_as_done of the node that the handoff left behind.
LEMMA ResignStep == ASSUME IInv, NEW t \in Thread, Resign(t) PROVE IInv'
<1> USE DEF Resign, At, Goto, OnlyMoves, Notify, rawVars, nodeVars, slotVars,
       taskVars, frameVars
<1>a. Claim(t) \in Thread /\ (Claim(t) = t \/ Waits(Claim(t)))
      /\ \A i \in 1..Len(queue) : queue[i] # Claim(t)
  BY DEF IInv, ClaimInv, Claims
<1>1. TypeOK'
  BY <1>a DEF Claim, IInv, TypeOK, Label, Outside, Waiting, Combining, Bombing, Leaving,
       Message, Status
<1>2. LockInv'
  BY <1>a DEF IInv, TypeOK, LockInv, Holds, Promoted, Combining, Bombing, Waiting
<1>3. DriverInv'
  BY <1>a DEF IInv, TypeOK, DriverInv, Drives, Front, Promoted, Combining, Bombing,
       Waiting
<1>4. MemberInv'
  BY <1>a DEF Claim, IInv, TypeOK, MemberInv, Waits, Drives, Front, Promoted, Combining,
       Bombing, Waiting
<1>5. LinkInv'
  BY DEF IInv, TypeOK, LinkInv, MemberInv
<1>6. SuccInv'
  BY <1>a DEF IInv, TypeOK, SuccInv
<1>7. ClaimInv'
  BY <1>a DEF IInv, TypeOK, ClaimInv, Claims, Claim, Waits, Waiting
<1>8. SlotInv'
  BY <1>a DEF IInv, TypeOK, SlotInv, Finished, Combining, Waiting
<1>9. BombInv'
  BY DEF IInv, TypeOK, BombInv, Waiting
<1>10. FutexInv'
  BY <1>a DEF IInv, TypeOK, FutexInv
<1> QED
  BY <1>1, <1>2, <1>3, <1>4, <1>5, <1>6, <1>7, <1>8, <1>9, <1>10 DEF IInv

\* run_slowly returns: the frame that is popped is referred to by nobody.
LEMMA ReturnStep == ASSUME IInv, NEW t \in Thread, Return(t) PROVE IInv'
<1> USE DEF Return, At, Goto, OnlyMoves, PopFrame, rawVars, nodeVars, slotVars,
       taskVars, frameVars
<1>a. /\ \A i \in 1..Len(queue) : queue[i] # t
      /\ \A u \in Thread : Drives(u) => Front(u) # t
      /\ \A u \in Thread : Claims(u) => Claim(u) # t
      /\ \A u \in Thread : pc[u] \in Finished => cursor[u] \in Thread \ {t}
  BY Detached DEF Outside
<1>b. result[t] \in {"ok", "panic"}
  BY DEF IInv, TypeOK, SlotInv
<1>1. TypeOK'
  BY <1>b DEF IInv, TypeOK, Label, Outside, Waiting, Combining, Bombing, Leaving,
       Message, Status
<1>2. LockInv'
  BY DEF IInv, TypeOK, LockInv, Holds, Promoted, Combining, Bombing, Waiting
<1>3. DriverInv'
  BY <1>a DEF IInv, TypeOK, DriverInv, Drives, Front, Promoted, Combining, Bombing,
       Waiting
<1>4. MemberInv'
  <2> HIDE DEF Return
  <2>1. \A u \in Thread : Waits(u) => Waits(u)'
    BY DEF Return, IInv, TypeOK, Waits, Waiting
  <2>2. \A u \in Thread : Drives(u) => Drives(u)' /\ Front(u)' = Front(u)
    BY <1>a DEF Return, IInv, TypeOK, Drives, Front, Promoted, Combining, Bombing, Waiting
  <2>3. queue' = queue
    BY DEF Return
  <2> QED
    BY <2>1, <2>2, <2>3, MemberKept DEF IInv
<1>5. LinkInv'
  BY <1>a DEF IInv, TypeOK, LinkInv, MemberInv
<1>6. SuccInv'
  BY DEF IInv, TypeOK, SuccInv
<1>7. ClaimInv'
  BY <1>a DEF IInv, TypeOK, ClaimInv, Claims, Claim, Waits, Waiting
<1>8. SlotInv'
  <2> HIDE DEF Return
  <2>1. \A u \in Thread \ {t} : /\ result'[u] = result[u] /\ pc'[u] = pc[u]
                              /\ cursor'[u] = cursor[u] /\ futex'[u] = futex[u]
    BY DEF Return, IInv, TypeOK
  <2>2. /\ pc'[t] \notin Finished \cup Combining \cup {"resign", "release", "return"}
        /\ pc'[t] \in Waiting => futex'[t] # "DONE"
    BY DEF Return, IInv, TypeOK, Finished, Combining, Waiting
  <2>3. ASSUME NEW u \in Thread, u # t, pc'[u] \in Finished
        PROVE  result'[cursor'[u]] # "uninit"
    <3>1. pc[u] \in Finished /\ cursor'[u] = cursor[u]
      BY <2>1, <2>3
    <3>2. cursor[u] \in Thread \ {t}
      BY <1>a, <3>1
    <3>3. result[cursor[u]] # "uninit"
      BY <3>1 DEF IInv, SlotInv
    <3> QED
      BY <2>1, <3>1, <3>2, <3>3
  <2>4. \A u \in Thread \ {t} :
          /\ pc'[u] \in Combining \cup {"resign"} /\ cursor'[u] # u => result'[u] # "uninit"
          /\ pc'[u] \in {"release", "return"} => result'[u] # "uninit"
          /\ pc'[u] \in Waiting /\ futex'[u] = "DONE" => result'[u] # "uninit"
    BY <2>1 DEF IInv, SlotInv
  <2> QED
    BY <2>2, <2>3, <2>4 DEF SlotInv
<1>9. BombInv'
  BY DEF IInv, TypeOK, BombInv, Waiting
<1>10. FutexInv'
  BY DEF IInv, TypeOK, FutexInv
<1> QED
  BY <1>1, <1>2, <1>3, <1>4, <1>5, <1>6, <1>7, <1>8, <1>9, <1>10 DEF IInv

\* run_slowly returns the error: the frame is referred to by nobody.
LEMMA CancelledStep == ASSUME IInv, NEW t \in Thread, Cancelled(t) PROVE IInv'
<1> USE DEF Cancelled, At, Goto, OnlyMoves, Consumed, PopFrame, rawVars, nodeVars,
       slotVars, taskVars, frameVars
<1>a. /\ \A i \in 1..Len(queue) : queue[i] # t
      /\ \A u \in Thread : Drives(u) => Front(u) # t
      /\ \A u \in Thread : Claims(u) => Claim(u) # t
      /\ \A u \in Thread : pc[u] \in Finished => cursor[u] \in Thread \ {t}
  BY Detached DEF Outside
<1>1. TypeOK'
  BY DEF IInv, TypeOK, Label, Outside, Waiting, Combining, Bombing, Leaving,
       Message, Status
<1>2. LockInv'
  BY DEF IInv, TypeOK, LockInv, Holds, Promoted, Combining, Bombing, Waiting
<1>3. DriverInv'
  BY <1>a DEF IInv, TypeOK, DriverInv, Drives, Front, Promoted, Combining, Bombing,
       Waiting
<1>4. MemberInv'
  <2> HIDE DEF Cancelled
  <2>1. \A u \in Thread : Waits(u) => Waits(u)'
    BY DEF Cancelled, IInv, TypeOK, Waits, Waiting
  <2>2. \A u \in Thread : Drives(u) => Drives(u)' /\ Front(u)' = Front(u)
    BY <1>a DEF Cancelled, IInv, TypeOK, Drives, Front, Promoted, Combining, Bombing, Waiting
  <2>3. queue' = queue
    BY DEF Cancelled
  <2> QED
    BY <2>1, <2>2, <2>3, MemberKept DEF IInv
<1>5. LinkInv'
  BY <1>a DEF IInv, TypeOK, LinkInv, MemberInv
<1>6. SuccInv'
  BY DEF IInv, TypeOK, SuccInv
<1>7. ClaimInv'
  BY <1>a DEF IInv, TypeOK, ClaimInv, Claims, Claim, Waits, Waiting
<1>8. SlotInv'
  <2> HIDE DEF Cancelled
  <2>1. \A u \in Thread \ {t} : /\ result'[u] = result[u] /\ pc'[u] = pc[u]
                              /\ cursor'[u] = cursor[u] /\ futex'[u] = futex[u]
    BY DEF Cancelled, IInv, TypeOK
  <2>2. /\ pc'[t] \notin Finished \cup Combining \cup {"resign", "release", "return"}
        /\ pc'[t] \in Waiting => futex'[t] # "DONE"
    BY DEF Cancelled, IInv, TypeOK, Finished, Combining, Waiting
  <2>3. ASSUME NEW u \in Thread, u # t, pc'[u] \in Finished
        PROVE  result'[cursor'[u]] # "uninit"
    <3>1. pc[u] \in Finished /\ cursor'[u] = cursor[u]
      BY <2>1, <2>3
    <3>2. cursor[u] \in Thread \ {t}
      BY <1>a, <3>1
    <3>3. result[cursor[u]] # "uninit"
      BY <3>1 DEF IInv, SlotInv
    <3> QED
      BY <2>1, <3>1, <3>2, <3>3
  <2>4. \A u \in Thread \ {t} :
          /\ pc'[u] \in Combining \cup {"resign"} /\ cursor'[u] # u => result'[u] # "uninit"
          /\ pc'[u] \in {"release", "return"} => result'[u] # "uninit"
          /\ pc'[u] \in Waiting /\ futex'[u] = "DONE" => result'[u] # "uninit"
    BY <2>1 DEF IInv, SlotInv
  <2> QED
    BY <2>2, <2>3, <2>4 DEF SlotInv
<1>9. BombInv'
  BY DEF IInv, TypeOK, BombInv, Waiting
<1>10. FutexInv'
  BY DEF IInv, TypeOK, FutexInv
<1> QED
  BY <1>1, <1>2, <1>3, <1>4, <1>5, <1>6, <1>7, <1>8, <1>9, <1>10 DEF IInv

\* poison: by the owner of the raw lock, or on a lock already disabled.
LEMMA BombPoisonStep == ASSUME IInv, NEW t \in Thread, BombPoison(t) PROVE IInv'
<1> USE DEF BombPoison, At, Goto, OnlyMoves, rawVars, nodeVars, slotVars, taskVars,
       frameVars
<1>a. ~Std
  BY DEF IInv, LockInv, Bombing
<1>1. TypeOK'
  BY <1>a DEF IInv, TypeOK, Label, Outside, Waiting, Combining, Bombing, Leaving,
       Message, Status
<1>2. LockInv'
  BY DEF IInv, TypeOK, LockInv, Holds, Promoted, Combining, Bombing, Waiting
<1>3. DriverInv'
  BY DEF IInv, TypeOK, DriverInv, Drives, Front, Promoted, Combining, Bombing,
       Waiting
<1>4. MemberInv'
  BY DEF IInv, TypeOK, MemberInv, Waits, Drives, Front, Promoted, Combining,
       Bombing, Waiting
<1>5. LinkInv'
  BY DEF IInv, TypeOK, LinkInv, MemberInv
<1>6. SuccInv'
  BY DEF IInv, TypeOK, SuccInv
<1>7. ClaimInv'
  BY DEF IInv, TypeOK, ClaimInv, Claims, Claim, Waits, Waiting
<1>8. SlotInv'
  BY DEF IInv, TypeOK, SlotInv, Finished, Combining, Waiting
<1>9. BombInv'
  BY DEF IInv, TypeOK, BombInv, Waiting
<1>10. FutexInv'
  BY DEF IInv, TypeOK, FutexInv
<1> QED
  BY <1>1, <1>2, <1>3, <1>4, <1>5, <1>6, <1>7, <1>8, <1>9, <1>10 DEF IInv

\* load_next in Bomb::drop sees the second node or nothing.
LEMMA BombLoadStep == ASSUME IInv, NEW t \in Thread, BombLoad(t) PROVE IInv'
<1> USE DEF BombLoad, At, Goto, OnlyMoves, rawVars, nodeVars, slotVars, taskVars,
       frameVars
<1>a. Drives(t) /\ Front(t) = atom[t]
  BY DEF Drives, Front, Combining, Bombing
<1>b. queue # <<>> /\ queue[1] = atom[t] /\ atom[t] \in Thread
  BY <1>a, DriverView
<1>c. \A u \in Thread \ {t} :
          ~Drives(u) /\ pc[u] \notin {"finish", "promote", "bombWake"}
  BY <1>a, DriverView
<1>d. next[atom[t]] # Null =>
       /\ Len(queue) > 1 /\ next[atom[t]] = queue[2]
       /\ queue[2] \in Thread /\ pc[queue[2]] # "link"
  BY <1>a, DriverView
<1>1. TypeOK'
  <2> HIDE DEF BombLoad
  <2>1. /\ \E l \in Label : pc' = [pc EXCEPT ![t] = l]
        /\ succ' = succ \/ succ' = [succ EXCEPT ![t] = next[atom[t]]]
        /\ UNCHANGED <<rawVars, nodeVars, slotVars, taskVars, prev, cursor, atom,
                       wakeAt, queue>>
    BY DEF BombLoad, Label, Bombing
  <2>2. next[atom[t]] \in Thread \cup {Null}
    BY <1>b DEF IInv, TypeOK
  <2>3. pc' \in [Thread -> Label] /\ succ' \in [Thread -> Thread \cup {Null}]
    BY <2>1, <2>2 DEF IInv, TypeOK
  <2> QED
    BY <2>1, <2>3 DEF IInv, TypeOK
<1>2. LockInv'
  BY DEF IInv, TypeOK, LockInv, Holds, Promoted, Combining, Bombing, Waiting
<1>3. DriverInv'
  <2> HIDE DEF BombLoad
  <2>1. \A u \in Thread : Drives(u)' => Drives(u) /\ Front(u)' = Front(u)
    BY DEF BombLoad, IInv, TypeOK, Drives, Front, Promoted, Combining, Bombing, Waiting
  <2>2. queue' = queue
    BY DEF BombLoad
  <2> QED
    BY <2>1, <2>2, DriverKept DEF IInv
<1>4. MemberInv'
  BY DEF IInv, TypeOK, MemberInv, Waits, Drives, Front, Promoted, Combining,
       Bombing, Waiting
<1>5. LinkInv'
  BY DEF IInv, TypeOK, LinkInv, MemberInv
<1>6. SuccInv'
  <2> HIDE DEF BombLoad
  <2>1. \A u \in Thread \ {t} : pc'[u] \notin {"finish", "promote", "bombWake"}
    BY <1>c DEF BombLoad, IInv, TypeOK
  <2>2. pc'[t] \in {"finish", "promote", "bombWake"} =>
          Len(queue) > 1 /\ succ'[t] = queue[2] /\ pc'[queue[2]] # "link"
    BY <1>d DEF BombLoad, IInv, TypeOK
  <2>3. queue' = queue
    BY DEF BombLoad
  <2> QED
    BY <2>1, <2>2, <2>3 DEF SuccInv
<1>7. ClaimInv'
  <2> HIDE DEF BombLoad
  <2>1. \A u \in Thread : Claims(u)' => Claims(u) /\ Claim(u)' = Claim(u)
    BY DEF BombLoad, IInv, TypeOK, Claims, Claim
  <2>2. \A u \in Thread : Waits(u) => Waits(u)'
    BY DEF BombLoad, IInv, TypeOK, Waits, Waiting
  <2>3. queue' = queue
    BY DEF BombLoad
  <2> QED
    BY <2>1, <2>2, <2>3 DEF IInv, ClaimInv
<1>8. SlotInv'
  BY DEF IInv, TypeOK, SlotInv, Finished, Combining, Waiting
<1>9. BombInv'
  BY DEF IInv, TypeOK, BombInv, Waiting
<1>10. FutexInv'
  BY DEF IInv, TypeOK, FutexInv
<1> QED
  BY <1>1, <1>2, <1>3, <1>4, <1>5, <1>6, <1>7, <1>8, <1>9, <1>10 DEF IInv

\* wake_as_poisoned in Bomb::drop: the front leaves.
LEMMA BombWakeStep == ASSUME IInv, NEW t \in Thread, BombWake(t) PROVE IInv'
<1> USE DEF BombWake, At, Goto, OnlyMoves, Notify, Dequeue, rawVars, nodeVars,
       slotVars, taskVars, frameVars
<1>a. Drives(t) /\ Front(t) = atom[t]
  BY DEF Drives, Front, Combining, Bombing
<1>b. queue # <<>> /\ queue[1] = atom[t] /\ atom[t] \in Thread
  BY <1>a, DriverView
<1>c. \A u \in Thread \ {t} :
          ~Drives(u) /\ pc[u] \notin {"finish", "promote", "bombWake"}
  BY <1>a, DriverView
<1>d. /\ atom[t] = t \/ Waits(atom[t])
      /\ \A i \in 2..Len(queue) :
           /\ queue[i] \in Thread /\ Waits(queue[i])
           /\ queue[i] # atom[t] /\ queue[i] # t
  BY <1>a, DriverView
<1>e. Len(queue) > 1 /\ succ[t] = queue[2] /\ pc[queue[2]] # "link"
  BY DEF IInv, TypeOK, SuccInv
<1>f. /\ queue' \in Seq(Thread)
      /\ Len(queue') = Len(queue) - 1
      /\ queue' = <<>> <=> Len(queue) = 1
      /\ \A i \in 1..Len(queue') : queue'[i] = queue[i + 1]
  BY <1>b, DequeueFacts DEF IInv, TypeOK
<1>g. ~Std
  BY DEF IInv, LockInv, Bombing
<1>1. TypeOK'
  BY <1>b, <1>d, <1>e, <1>f, <1>g DEF IInv, TypeOK, Label, Outside, Waiting,
       Combining, Bombing, Leaving, Message, Status
<1>2. LockInv'
  BY <1>b, <1>d DEF IInv, TypeOK, LockInv, Holds, Promoted, Combining, Bombing,
       Waiting
<1>3. DriverInv'
  BY <1>b, <1>c, <1>d, <1>e, <1>f DEF IInv, TypeOK, DriverInv, Drives, Front,
       Promoted, Combining, Bombing, Waiting
<1>4. MemberInv'
  <2> HIDE DEF BombWake
  <2>1. /\ \E l \in Label \ Waiting : pc' = [pc EXCEPT ![t] = l]
        /\ \E m \in Message : futex' = [futex EXCEPT ![atom[t]] = m]
        /\ ~Waits(t)
    BY <1>g DEF BombWake, Label, Combining, Bombing, Waiting, Waits, Message
  <2>2. pc \in [Thread -> Label] /\ futex \in [Thread -> Message]
    BY DEF IInv, TypeOK
  <2>3. \A n \in Thread \ {queue[1]} : Waits(n) => Waits(n)'
    BY <1>b, <2>1, <2>2 DEF Waits
  <2> QED
    BY <1>e, <1>f, <2>3, MemberPassed DEF IInv, TypeOK
<1>5. LinkInv'
  BY <1>e, DequeueLinks DEF IInv, TypeOK, Label, Combining, Bombing, Leaving
<1>6. SuccInv'
  <2> HIDE DEF BombWake
  <2>1. \A u \in Thread : pc'[u] \notin {"finish", "promote", "bombWake"}
    BY <1>c DEF BombWake, IInv, TypeOK
  <2> QED
    BY <2>1 DEF SuccInv
<1>7. ClaimInv'
  BY <1>b, <1>d, <1>f DEF IInv, TypeOK, ClaimInv, Claims, Claim, Waits, Waiting
<1>8. SlotInv'
  BY <1>b, <1>d DEF IInv, TypeOK, SlotInv, Finished, Combining, Waiting
<1>9. BombInv'
  BY <1>b, <1>d DEF IInv, TypeOK, BombInv, Waiting
<1>10. FutexInv'
  BY <1>b, <1>d DEF IInv, TypeOK, FutexInv
<1> QED
  BY <1>1, <1>2, <1>3, <1>4, <1>5, <1>6, <1>7, <1>8, <1>9, <1>10 DEF IInv

\* try_close in Bomb::drop succeeds exactly on a queue of one.
LEMMA BombCloseStep == ASSUME IInv, NEW t \in Thread, BombClose(t) PROVE IInv'
<1> USE DEF BombClose, At, Goto, OnlyMoves, Dequeue, rawVars, nodeVars, slotVars,
       taskVars, frameVars
<1>a. Drives(t) /\ Front(t) = atom[t]
  BY DEF Drives, Front, Combining, Bombing
<1>b. queue # <<>> /\ queue[1] = atom[t] /\ atom[t] \in Thread
  BY <1>a, DriverView
<1>c. \A u \in Thread \ {t} :
          ~Drives(u) /\ pc[u] \notin {"finish", "promote", "bombWake"}
  BY <1>a, DriverView
<1>d. /\ atom[t] = t \/ Waits(atom[t])
      /\ \A i \in 2..Len(queue) :
           /\ queue[i] \in Thread /\ Waits(queue[i])
           /\ queue[i] # atom[t] /\ queue[i] # t
  BY <1>a, DriverView
<1>e. tail = atom[t] <=> Len(queue) = 1
  BY <1>a, DriverView
<1>f. tail = atom[t] => queue' = <<>>
  BY <1>b, <1>e, DequeueFacts DEF IInv, TypeOK
<1>1. TypeOK'
  BY <1>f DEF IInv, TypeOK, Label, Outside, Waiting, Combining, Bombing, Leaving,
       Message, Status
<1>2. LockInv'
  <2> HIDE DEF BombClose
  <2>1. \A u \in Thread : /\ Holds(u)' <=> Holds(u)
                          /\ pc'[u] \in Bombing <=> pc[u] \in Bombing
    BY DEF BombClose, IInv, TypeOK, Holds, Promoted, Combining, Bombing, Waiting
  <2>2. UNCHANGED <<status, outcome>>
    BY DEF BombClose
  <2> QED
    BY <2>1, <2>2 DEF IInv, LockInv
<1>3. DriverInv'
  BY <1>b, <1>c, <1>f DEF IInv, TypeOK, DriverInv, Drives, Front, Promoted,
       Combining, Bombing, Waiting
<1>4. MemberInv'
  BY <1>b, <1>d, <1>f DEF IInv, TypeOK, MemberInv, Waits, Drives, Front, Promoted,
       Combining, Bombing, Waiting
<1>5. LinkInv'
  <2> HIDE DEF BombClose
  <2>1. \A u \in Thread : pc'[u] = "link" <=> pc[u] = "link"
    BY DEF BombClose, IInv, TypeOK
  <2>2. CASE tail = atom[t]
    BY <1>f, <2>1, <2>2 DEF BombClose, IInv, TypeOK, LinkInv
  <2>3. CASE tail # atom[t]
    BY <2>1, <2>3 DEF BombClose, IInv, TypeOK, LinkInv
  <2> QED
    BY <2>2, <2>3
<1>6. SuccInv'
  <2> HIDE DEF BombClose
  <2>1. \A u \in Thread : pc'[u] \notin {"finish", "promote", "bombWake"}
    BY <1>c DEF BombClose, IInv, TypeOK
  <2> QED
    BY <2>1 DEF SuccInv
<1>7. ClaimInv'
  <2> HIDE DEF BombClose
  <2>1. \A u \in Thread \ {t} : Claims(u)' => Claims(u) /\ Claim(u)' = Claim(u)
    BY DEF BombClose, IInv, TypeOK, Claims, Claim
  <2>2. \A u \in Thread : Waits(u) => Waits(u)'
    BY DEF BombClose, IInv, TypeOK, Waits, Waiting
  <2>3. CASE tail = atom[t]
    <3>1. queue' = <<>> /\ Claim(t)' = atom[t]
      BY <1>f, <2>3 DEF BombClose, IInv, TypeOK, Claim
    <3>2. \A u \in Thread : Claims(u) => Claim(u) # atom[t]
      <4>1. 1 \in 1..Len(queue)
        BY <1>b, EmptySeq DEF BombClose, IInv, TypeOK
      <4> QED
        BY <1>b, <4>1 DEF IInv, ClaimInv
    <3> QED
      BY <1>b, <1>d, <2>1, <2>2, <3>1, <3>2 DEF IInv, ClaimInv
  <2>4. CASE tail # atom[t]
    <3>1. ~Claims(t)' /\ queue' = queue
      BY <2>4 DEF BombClose, IInv, TypeOK, Claims
    <3> QED
      BY <2>1, <2>2, <2>4, <3>1 DEF IInv, ClaimInv
  <2> QED
    BY <2>3, <2>4
<1>8. SlotInv'
  BY DEF IInv, TypeOK, SlotInv, Finished, Combining, Waiting
<1>9. BombInv'
  BY DEF IInv, TypeOK, BombInv, Waiting
<1>10. FutexInv'
  BY DEF IInv, TypeOK, FutexInv
<1> QED
  BY <1>1, <1>2, <1>3, <1>4, <1>5, <1>6, <1>7, <1>8, <1>9, <1>10 DEF IInv

\* The spin of Bomb::drop ends.
LEMMA BombSpinStep == ASSUME IInv, NEW t \in Thread, BombSpin(t) PROVE IInv'
<1> USE DEF BombSpin, At, Goto, OnlyMoves, rawVars, nodeVars, slotVars, taskVars,
       frameVars
<1>1. TypeOK'
  BY DEF IInv, TypeOK, Label, Outside, Waiting, Combining, Bombing, Leaving,
       Message, Status
<1>2. LockInv'
  BY DEF IInv, TypeOK, LockInv, Holds, Promoted, Combining, Bombing, Waiting
<1>3. DriverInv'
  BY DEF IInv, TypeOK, DriverInv, Drives, Front, Promoted, Combining, Bombing,
       Waiting
<1>4. MemberInv'
  BY DEF IInv, TypeOK, MemberInv, Waits, Drives, Front, Promoted, Combining,
       Bombing, Waiting
<1>5. LinkInv'
  BY DEF IInv, TypeOK, LinkInv, MemberInv
<1>6. SuccInv'
  BY DEF IInv, TypeOK, SuccInv
<1>7. ClaimInv'
  BY DEF IInv, TypeOK, ClaimInv, Claims, Claim, Waits, Waiting
<1>8. SlotInv'
  BY DEF IInv, TypeOK, SlotInv, Finished, Combining, Waiting
<1>9. BombInv'
  BY DEF IInv, TypeOK, BombInv, Waiting
<1>10. FutexInv'
  BY DEF IInv, TypeOK, FutexInv
<1> QED
  BY <1>1, <1>2, <1>3, <1>4, <1>5, <1>6, <1>7, <1>8, <1>9, <1>10 DEF IInv

\* wake_as_poisoned of the last node.
LEMMA BombLastStep == ASSUME IInv, NEW t \in Thread, BombLast(t) PROVE IInv'
<1> USE DEF BombLast, At, Goto, OnlyMoves, Notify, rawVars, nodeVars, slotVars,
       taskVars, frameVars
<1>a. Claim(t) \in Thread /\ (Claim(t) = t \/ Waits(Claim(t)))
      /\ \A i \in 1..Len(queue) : queue[i] # Claim(t)
  BY DEF IInv, ClaimInv, Claims
<1>b. ~Std
  BY DEF IInv, LockInv, Bombing
<1>1. TypeOK'
  BY <1>a, <1>b DEF Claim, IInv, TypeOK, Label, Outside, Waiting, Combining, Bombing,
       Leaving, Message, Status
<1>2. LockInv'
  BY <1>a, <1>b DEF IInv, TypeOK, LockInv, Holds, Promoted, Combining, Bombing,
       Waiting
<1>3. DriverInv'
  BY <1>a, <1>b DEF IInv, TypeOK, DriverInv, Drives, Front, Promoted, Combining,
       Bombing, Waiting
<1>4. MemberInv'
  BY <1>a, <1>b DEF Claim, IInv, TypeOK, MemberInv, Waits, Drives, Front, Promoted,
       Combining, Bombing, Waiting
<1>5. LinkInv'
  BY DEF IInv, TypeOK, LinkInv, MemberInv
<1>6. SuccInv'
  BY <1>a, <1>b DEF IInv, TypeOK, SuccInv
<1>7. ClaimInv'
  BY <1>a, <1>b DEF IInv, TypeOK, ClaimInv, Claims, Claim, Waits, Waiting
<1>8. SlotInv'
  BY <1>a, <1>b DEF IInv, TypeOK, SlotInv, Finished, Combining, Waiting
<1>9. BombInv'
  BY DEF IInv, TypeOK, BombInv, Waiting
<1>10. FutexInv'
  BY <1>a, <1>b DEF IInv, TypeOK, FutexInv
<1> QED
  BY <1>1, <1>2, <1>3, <1>4, <1>5, <1>6, <1>7, <1>8, <1>9, <1>10 DEF IInv

\* The panic leaves run_slowly: the frame is referred to by nobody.
LEMMA UnwoundStep == ASSUME IInv, NEW t \in Thread, Unwound(t) PROVE IInv'
<1> USE DEF Unwound, At, Goto, OnlyMoves, PopFrame, rawVars, nodeVars, slotVars,
       taskVars, frameVars
<1>a. /\ \A i \in 1..Len(queue) : queue[i] # t
      /\ \A u \in Thread : Drives(u) => Front(u) # t
      /\ \A u \in Thread : Claims(u) => Claim(u) # t
      /\ \A u \in Thread : pc[u] \in Finished => cursor[u] \in Thread \ {t}
  BY Detached DEF Outside
<1>1. TypeOK'
  BY DEF IInv, TypeOK, Label, Outside, Waiting, Combining, Bombing, Leaving,
       Message, Status
<1>2. LockInv'
  BY DEF IInv, TypeOK, LockInv, Holds, Promoted, Combining, Bombing, Waiting
<1>3. DriverInv'
  BY <1>a DEF IInv, TypeOK, DriverInv, Drives, Front, Promoted, Combining, Bombing,
       Waiting
<1>4. MemberInv'
  BY <1>a DEF IInv, TypeOK, MemberInv, Waits, Drives, Front, Promoted, Combining,
       Bombing, Waiting
<1>5. LinkInv'
  BY <1>a DEF IInv, TypeOK, LinkInv, MemberInv
<1>6. SuccInv'
  BY DEF IInv, TypeOK, SuccInv
<1>7. ClaimInv'
  BY <1>a DEF IInv, TypeOK, ClaimInv, Claims, Claim, Waits, Waiting
<1>8. SlotInv'
  <2> HIDE DEF Unwound
  <2>1. \A u \in Thread \ {t} : /\ result'[u] = result[u] /\ pc'[u] = pc[u]
                              /\ cursor'[u] = cursor[u] /\ futex'[u] = futex[u]
    BY DEF Unwound, IInv, TypeOK
  <2>2. /\ pc'[t] \notin Finished \cup Combining \cup {"resign", "release", "return"}
        /\ pc'[t] \in Waiting => futex'[t] # "DONE"
    BY DEF Unwound, IInv, TypeOK, Finished, Combining, Waiting
  <2>3. ASSUME NEW u \in Thread, u # t, pc'[u] \in Finished
        PROVE  result'[cursor'[u]] # "uninit"
    <3>1. pc[u] \in Finished /\ cursor'[u] = cursor[u]
      BY <2>1, <2>3
    <3>2. cursor[u] \in Thread \ {t}
      BY <1>a, <3>1
    <3>3. result[cursor[u]] # "uninit"
      BY <3>1 DEF IInv, SlotInv
    <3> QED
      BY <2>1, <3>1, <3>2, <3>3
  <2>4. \A u \in Thread \ {t} :
          /\ pc'[u] \in Combining \cup {"resign"} /\ cursor'[u] # u => result'[u] # "uninit"
          /\ pc'[u] \in {"release", "return"} => result'[u] # "uninit"
          /\ pc'[u] \in Waiting /\ futex'[u] = "DONE" => result'[u] # "uninit"
    BY <2>1 DEF IInv, SlotInv
  <2> QED
    BY <2>2, <2>3, <2>4 DEF SlotInv
<1>9. BombInv'
  BY DEF IInv, TypeOK, BombInv, Waiting
<1>10. FutexInv'
  BY DEF IInv, TypeOK, FutexInv
<1> QED
  BY <1>1, <1>2, <1>3, <1>4, <1>5, <1>6, <1>7, <1>8, <1>9, <1>10 DEF IInv

---------------------------------------------------------------------------
(* Invariance *)

\* Every step of the specification keeps the inductive invariant.
LEMMA NextIInv == IInv /\ [Next]_vars => IInv'
<1> SUFFICES ASSUME IInv, [Next]_vars PROVE IInv'
  OBVIOUS
<1>1. CASE UNCHANGED vars
  <2>1. UNCHANGED <<status, tail, futex, next, started, result, closure, verdict,
                    outcome, pc, prev, cursor, succ, atom, wakeAt, queue>>
    BY <1>1 DEF vars, rawVars, nodeVars, slotVars, taskVars, frameVars
  <2>2. TypeOK' /\ LockInv' /\ SuccInv' /\ SlotInv' /\ BombInv' /\ FutexInv'
    BY <2>1 DEF IInv, TypeOK, LockInv, SuccInv, SlotInv, BombInv, FutexInv, Holds,
         Promoted
  <2>3. DriverInv' /\ MemberInv'
    BY <2>1 DEF IInv, DriverInv, MemberInv, Promoted, Drives, Front, Waits
  <2>4. LinkInv' /\ ClaimInv'
    BY <2>1 DEF IInv, LinkInv, ClaimInv, Waits, Claims, Claim
  <2> QED
    BY <2>2, <2>3, <2>4 DEF IInv
<1>2. ASSUME NEW t \in Thread, Call(t) PROVE IInv'
  BY <1>2, CallStep
<1>3. ASSUME NEW t \in Thread, Interrupt(t) PROVE IInv'
  BY <1>3, InterruptStep
<1>4. ASSUME NEW t \in Thread, Step(t) PROVE IInv'
  <2>1. CASE CheckTail(t)
    BY <2>1, CheckTailStep
  <2>2. CASE TryAcquire(t)
    BY <2>2, TryAcquireStep
  <2>3. CASE FastRun(t)
    BY <2>3, FastRunStep
  <2>4. CASE FastUnlock(t)
    BY <2>4, FastUnlockStep
  <2>5. CASE Enqueue(t)
    BY <2>5, EnqueueStep
  <2>6. CASE Link(t)
    BY <2>6, LinkStep
  <2>7. CASE Spin(t)
    BY <2>7, SpinStep
  <2>8. CASE Park(t)
    BY <2>8, ParkStep
  <2>9. CASE FutexWait(t)
    BY <2>9, FutexWaitStep
  <2>10. CASE FutexSyscall(t)
    BY <2>10, FutexSyscallStep
  <2>11. CASE Woken(t)
    BY <2>11, WokenStep
  <2>12. CASE FutexWake(t)
    BY <2>12, FutexWakeStep
  <2>13. CASE Acquire(t)
    BY <2>13, AcquireStep
  <2>14. CASE ExecBegin(t)
    BY <2>14, ExecBeginStep
  <2>15. CASE ExecEnd(t)
    BY <2>15, ExecEndStep
  <2>16. CASE LoadNext(t)
    BY <2>16, LoadNextStep
  <2>17. CASE Finish(t)
    BY <2>17, FinishStep
  <2>18. CASE TryClose(t)
    BY <2>18, TryCloseStep
  <2>19. CASE FinishLast(t)
    BY <2>19, FinishLastStep
  <2>20. CASE Release(t)
    BY <2>20, ReleaseStep
  <2>21. CASE AwaitSuccessor(t)
    BY <2>21, AwaitSuccessorStep
  <2>22. CASE Promote(t)
    BY <2>22, PromoteStep
  <2>23. CASE Resign(t)
    BY <2>23, ResignStep
  <2>24. CASE Return(t)
    BY <2>24, ReturnStep
  <2>25. CASE Cancelled(t)
    BY <2>25, CancelledStep
  <2>26. CASE BombPoison(t)
    BY <2>26, BombPoisonStep
  <2>27. CASE BombLoad(t)
    BY <2>27, BombLoadStep
  <2>28. CASE BombWake(t)
    BY <2>28, BombWakeStep
  <2>29. CASE BombClose(t)
    BY <2>29, BombCloseStep
  <2>30. CASE BombSpin(t)
    BY <2>30, BombSpinStep
  <2>31. CASE BombLast(t)
    BY <2>31, BombLastStep
  <2>32. CASE Unwound(t)
    BY <2>32, UnwoundStep
  <2> QED
    BY <1>4, <2>1, <2>2, <2>3, <2>4, <2>5, <2>6, <2>7, <2>8, <2>9, <2>10, <2>11,
       <2>12, <2>13, <2>14, <2>15, <2>16, <2>17, <2>18, <2>19, <2>20, <2>21, <2>22,
       <2>23, <2>24, <2>25, <2>26, <2>27, <2>28, <2>29, <2>30, <2>31, <2>32 DEF Step
<1> QED
  BY <1>1, <1>2, <1>3, <1>4 DEF Next

\* IInv holds in every reachable state of the lock.
THEOREM InductiveInvariant == Spec => []IInv
<1>1. Init => IInv
  BY InitIInv
<1>2. IInv /\ [Next]_vars => IInv'
  BY NextIInv
<1> QED
  BY <1>1, <1>2, PTL DEF Spec

\* Every variable keeps its type; in particular run_slowly never reads a result
\* slot that nobody has written (nonpoison.rs, assume_init on the result).
THEOREM TypeCorrect == Spec => []TypeOK
<1>1. IInv => TypeOK
  BY DEF IInv
<1> QED
  BY <1>1, InductiveInvariant, PTL

\* No two threads execute closures at the same time, so the &mut T that execute
\* and try_run create is exclusive.
THEOREM Exclusion == Spec => []MutualExclusion
<1>1. IInv => MutualExclusion
  BY DEF IInv, LockInv, Holds, Combining, MutualExclusion, Executing
<1> QED
  BY <1>1, InductiveInvariant, PTL

\* The closure that a combiner executes is the one at the front of the queue.
THEOREM ServiceOrder == Spec => []InArrivalOrder
<1>1. IInv => InArrivalOrder
  <2> SUFFICES ASSUME IInv, NEW t \in Thread, pc[t] \in {"exec", "run"}
               PROVE  queue # <<>> /\ cursor[t] = Head(queue)
    BY DEF InArrivalOrder
  <2>1. Drives(t) /\ Front(t) = cursor[t]
    BY DEF Drives, Front, Combining
  <2>2. queue # <<>> /\ queue[1] = cursor[t] /\ queue \in Seq(Thread)
    BY <2>1, DriverView DEF IInv, TypeOK
  <2> QED
    BY <2>2
<1> QED
  BY <1>1, InductiveInvariant, PTL

\* A node that a thread is about to read or write is in a live frame: attach and
\* Bomb::drop never follow a pointer to a stack frame that has been popped.
THEOREM NodesLive == Spec => []NoDangling
<1>1. IInv => NoDangling
  <2> SUFFICES ASSUME IInv, NEW t \in Thread, NEW n \in Touches(t)
               PROVE  n \in Thread /\ pc[n] \notin Outside
    BY DEF NoDangling
  <2>1. \A u \in Thread : Waits(u) \/ Drives(u) \/ Claims(u) => pc[u] \notin Outside
    BY DEF Waits, Drives, Promoted, Claims, Waiting, Outside
  <2>2. CASE pc[t] = "link"
    <3>1. PICK i \in 2..Len(queue) : queue[i] = t
      BY <2>2 DEF IInv, LinkInv
    <3>2. n = queue[i - 1] /\ i - 1 \in 1..Len(queue)
      BY <2>2, <3>1 DEF IInv, LinkInv, TypeOK, Touches
    <3>3. queue[i - 1] \in Thread
      BY <3>2 DEF IInv, TypeOK
    <3>4. Waits(queue[i - 1]) \/ Drives(queue[i - 1])
      <4>1. CASE i = 2
        BY <3>1, <4>1, EmptySeq DEF IInv, TypeOK, MemberInv
      <4>2. CASE i # 2
        BY <3>1, <4>2 DEF IInv, TypeOK, MemberInv
      <4> QED
        BY <4>1, <4>2
    <3> QED
      BY <2>1, <3>2, <3>3, <3>4
  <2>3. CASE pc[t] \in {"exec", "run", "loadNext", "finish", "handoff"}
    <3>1. Drives(t) /\ Front(t) = n
      BY <2>3 DEF Drives, Front, Combining, Touches
    <3> QED
      BY <2>1, <3>1, DriverView
  <2>4. CASE pc[t] = "promote"
    <3>1. Drives(t) /\ n = queue[2] /\ Len(queue) > 1
      BY <2>4 DEF IInv, SuccInv, Drives, Touches
    <3>2. 2 \in 2..Len(queue)
      BY <3>1 DEF IInv, TypeOK
    <3> QED
      BY <2>1, <3>1, <3>2, DriverView
  <2>5. CASE pc[t] \in {"bombLoad", "bombWake", "bombSpin"}
    <3>1. Drives(t) /\ Front(t) = n
      BY <2>5 DEF Drives, Front, Combining, Bombing, Touches
    <3> QED
      BY <2>1, <3>1, DriverView
  <2>6. CASE pc[t] \in {"last", "resign", "bombLast"}
    <3>1. Claims(t) /\ Claim(t) = n
      BY <2>6 DEF Claims, Claim, Touches
    <3> QED
      BY <2>1, <3>1 DEF IInv, ClaimInv
  <2>7. CASE pc[t] \notin {"link", "exec", "run", "loadNext", "finish", "handoff",
                         "promote", "bombLoad", "bombWake", "bombSpin", "last",
                         "resign", "bombLast"}
    BY <2>7 DEF Touches
  <2> QED
    BY <2>2, <2>3, <2>4, <2>5, <2>6, <2>7
<1> QED
  BY <1>1, InductiveInvariant, PTL

\* Once Bomb::drop has stored POISONED, no closure is executing.
THEOREM PoisonStops == Spec => []NoRunAfterPoison
<1>1. IInv => NoRunAfterPoison
  BY DEF IInv, LockInv, Holds, Combining, NoRunAfterPoison, Executing
<1> QED
  BY <1>1, InductiveInvariant, PTL

\* POISONED is final: no release of RawLock ever overwrites it.
THEOREM PoisonStays == Spec => PoisonIsPermanent
<1>1. IInv /\ [Next]_vars => (status = "POISONED" => status' = "POISONED")
  <2> SUFFICES ASSUME IInv, status = "POISONED", [Next]_vars
               PROVE  status' = "POISONED"
    OBVIOUS
  <2>1. \A t \in Thread : ~Holds(t)
    BY DEF IInv, LockInv
  <2>2. CASE UNCHANGED vars
    BY <2>2 DEF vars, rawVars
  <2>3. ASSUME NEW t \in Thread, FastUnlock(t) \/ Release(t) PROVE FALSE
    BY <2>1, <2>3 DEF FastUnlock, Release, At, Holds, Combining
  <2>4. ASSUME NEW t \in Thread, TryAcquire(t) \/ Acquire(t) \/ BombPoison(t)
        PROVE  status' = "POISONED"
    BY <2>4 DEF TryAcquire, Acquire, BombPoison, At
  <2>5. ASSUME NEW t \in Thread, Call(t) \/ Interrupt(t) \/ Step(t),
               ~(FastUnlock(t) \/ Release(t)),
               ~(TryAcquire(t) \/ Acquire(t) \/ BombPoison(t))
        PROVE  status' = status
    BY <2>5 DEF Step, Call, Interrupt, CheckTail, FastRun, Enqueue, Link, Spin, Park,
         FutexWait, FutexSyscall, Woken, FutexWake, ExecBegin, ExecEnd, LoadNext,
         Finish, TryClose, FinishLast, AwaitSuccessor, Promote, Resign, Return,
         Cancelled, BombLoad, BombWake, BombClose, BombSpin, BombLast, Unwound,
         OnlyMoves, rawVars
  <2> QED
    BY <2>2, <2>3, <2>4, <2>5 DEF Next
<1> QED
  BY <1>1, InductiveInvariant, PTL DEF Spec, PoisonIsPermanent

\* A message is not overwritten before its addressee has acted on it: a combiner
\* or a bomb notifies only nodes that have not been told anything, and a waiter
\* replaces only WAITING by SLEEPING.
THEOREM MessagesStand == Spec => MessageStands
<1>1. ASSUME IInv, [Next]_vars, NEW n \in Thread, pc[n] \in Waiting,
             futex[n] \in {"DONE", "HEAD", "POISONED"}
      PROVE  futex'[n] = futex[n]
  <2>1. ~Waits(n)
    BY <1>1 DEF Waits
  <2>2. CASE UNCHANGED vars
    BY <2>2 DEF vars, nodeVars
  <2>3. ASSUME NEW t \in Thread, Finish(t) \/ FinishLast(t) \/ Resign(t)
        PROVE  futex'[n] = futex[n]
    <3>1. cursor[t] # n
      <4>1. CASE Finish(t)
        <5>1. Drives(t) /\ Front(t) = cursor[t] /\ pc[t] \notin Waiting
          BY <4>1 DEF Finish, At, Drives, Front, Combining, Waiting
        <5> QED
          BY <1>1, <2>1, <5>1, DriverView
      <4>2. CASE FinishLast(t) \/ Resign(t)
        <5>1. Claims(t) /\ Claim(t) = cursor[t] /\ pc[t] \notin Waiting
          BY <4>2 DEF FinishLast, Resign, At, Claims, Claim, Waiting
        <5> QED
          BY <1>1, <2>1, <5>1 DEF IInv, ClaimInv
      <4> QED
        BY <2>3, <4>1, <4>2
    <3> QED
      BY <1>1, <2>3, <3>1 DEF IInv, TypeOK, Finish, FinishLast, Resign, Notify
  <2>4. ASSUME NEW t \in Thread, BombWake(t) \/ BombLast(t)
        PROVE  futex'[n] = futex[n]
    <3>1. atom[t] # n
      <4>1. CASE BombWake(t)
        <5>1. Drives(t) /\ Front(t) = atom[t] /\ pc[t] \notin Waiting
          BY <4>1 DEF BombWake, At, Drives, Front, Combining, Bombing, Waiting
        <5> QED
          BY <1>1, <2>1, <5>1, DriverView
      <4>2. CASE BombLast(t)
        <5>1. Claims(t) /\ Claim(t) = atom[t] /\ pc[t] \notin Waiting
          BY <4>2 DEF BombLast, At, Claims, Claim, Waiting
        <5> QED
          BY <1>1, <2>1, <5>1 DEF IInv, ClaimInv
      <4> QED
        BY <2>4, <4>1, <4>2
    <3> QED
      BY <1>1, <2>4, <3>1 DEF IInv, TypeOK, BombWake, BombLast, Notify
  <2>5. ASSUME NEW t \in Thread, Promote(t) PROVE futex'[n] = futex[n]
    <3>1. Drives(t) /\ succ[t] = queue[2] /\ Len(queue) > 1
      BY <1>1, <2>5 DEF IInv, SuccInv, Promote, At, Drives
    <3>2. 2 \in 2..Len(queue)
      BY <1>1, <3>1 DEF IInv, TypeOK
    <3>3. succ[t] # n
      BY <1>1, <2>1, <3>1, <3>2, DriverView
    <3> QED
      BY <1>1, <2>5, <3>3 DEF IInv, TypeOK, Promote, Notify
  <2>6. ASSUME NEW t \in Thread,
               Enqueue(t) \/ Park(t) \/ Return(t) \/ Cancelled(t) \/ Unwound(t)
        PROVE  futex'[n] = futex[n]
    BY <1>1, <2>6 DEF IInv, TypeOK, Enqueue, Park, Return, Cancelled, Unwound, PopFrame,
       At, Waiting
  <2>7. ASSUME NEW t \in Thread,
               \/ Call(t) \/ Interrupt(t) \/ CheckTail(t) \/ TryAcquire(t)
               \/ FastRun(t) \/ FastUnlock(t) \/ Link(t) \/ Spin(t)
               \/ FutexWait(t) \/ FutexSyscall(t) \/ Woken(t) \/ FutexWake(t)
               \/ Acquire(t) \/ ExecBegin(t) \/ ExecEnd(t) \/ LoadNext(t)
               \/ TryClose(t) \/ Release(t) \/ AwaitSuccessor(t)
               \/ BombPoison(t) \/ BombLoad(t) \/ BombClose(t) \/ BombSpin(t)
        PROVE  futex' = futex
    BY <2>7 DEF Call, Interrupt, CheckTail, TryAcquire, FastRun, FastUnlock, Link, Spin,
       FutexWait, FutexSyscall, Woken, FutexWake, Acquire, ExecBegin, ExecEnd, LoadNext,
       TryClose, Release, AwaitSuccessor, BombPoison, BombLoad, BombClose, BombSpin,
       OnlyMoves, nodeVars
  <2> QED
    BY <1>1, <2>2, <2>3, <2>4, <2>5, <2>6, <2>7 DEF Next, Step
<1>2. IInv /\ [Next]_vars =>
        [\A n \in Thread :
           pc[n] \in Waiting /\ futex[n] \in {"DONE", "HEAD", "POISONED"}
             => futex'[n] = futex[n]]_vars
  BY <1>1
<1> QED
  BY <1>2, InductiveInvariant, PTL DEF Spec, MessageStands

=============================================================================
