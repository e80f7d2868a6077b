-------------------------- MODULE FlatCombiningInv --------------------------
(***************************************************************************)
(* The inductive invariant of FlatCombining: who owns the raw lock, who    *)
(* drives the queue, and what the nodes in it look like meanwhile.         *)
(***************************************************************************)
EXTENDS FlatCombining

\* A thread whose node is in the queue, or in the hands of the combiner that
\* took it out, and that has not been told anything yet.
Waits(n) == pc[n] \in Waiting /\ futex[n] \in {"WAITING", "SLEEPING"}

\* A thread that has been promoted, whether or not it has seen the message.
Promoted(t) == pc[t] \in Waiting /\ futex[t] = "HEAD"

\* The thread that owns the front of the queue: the first one, which is still
\* acquiring the raw lock; a combiner; a promoted waiter; or an armed bomb.
Drives(t) ==
  \/ pc[t] = "acquire"
  \/ Promoted(t)
  \/ pc[t] \in {"exec", "run", "loadNext", "finish", "close", "handoff", "promote"}
  \/ pc[t] \in {"bombPoison", "bombLoad", "bombWake", "bombClose", "bombSpin"}

\* The node such a thread is at.
Front(t) == IF pc[t] \in Combining THEN cursor[t]
            ELSE IF pc[t] \in Bombing THEN atom[t] ELSE t

\* The thread that owns the raw lock.  A panicking combiner gives it up when it
\* stores POISONED; a bomb that fires because acquire failed never had it.
Holds(t) ==
  \/ pc[t] \in {"fast", "unlock"} \cup Combining
  \/ Promoted(t)
  \/ pc[t] = "bombPoison" /\ outcome[t] = "panic"

\* A thread that has yet to notify a node which has already left the queue.
Claims(t) == pc[t] \in {"last", "resign", "bombLast"}
Claim(t)  == IF pc[t] = "bombLast" THEN atom[t] ELSE cursor[t]

LockInv ==
  /\ \A t \in Thread : Holds(t) => status = "LOCKED"
  /\ \A t, u \in Thread : Holds(t) /\ Holds(u) => t = u
  /\ \A t \in Thread : pc[t] \in Bombing =>
       /\ ~Std
       /\ outcome[t] \in {"panic", "cancelled"}
       /\ Holds(t) \/ status = "POISONED"

DriverInv ==
  /\ \A t, u \in Thread : Drives(t) /\ Drives(u) => t = u
  /\ \A t \in Thread : Drives(t) => queue # <<>> /\ Front(t) = queue[1]

\* Everyone in the queue waits, except a driver that is at its own node.
MemberInv ==
  /\ \A i \in 2..Len(queue) : Waits(queue[i])
  /\ queue # <<>> =>
       \/ Waits(queue[1])
       \/ Drives(queue[1]) /\ Front(queue[1]) = queue[1]
  /\ \A i, j \in 1..Len(queue) : queue[i] = queue[j] => i = j

\* The linked list is the queue, but for the links its members have yet to store.
LinkInv ==
  /\ tail = IF queue = <<>> THEN Null ELSE queue[Len(queue)]
  /\ queue # <<>> => next[queue[Len(queue)]] = Null
  /\ \A i \in 2..Len(queue) :
       IF pc[queue[i]] = "link"
       THEN next[queue[i-1]] = Null /\ prev[queue[i]] = queue[i-1]
       ELSE next[queue[i-1]] = queue[i]
  /\ \A t \in Thread : pc[t] = "link" => \E i \in 2..Len(queue) : queue[i] = t

SuccInv ==
  \A t \in Thread : pc[t] \in {"finish", "promote", "bombWake"} =>
    Len(queue) > 1 /\ succ[t] = queue[2] /\ pc[queue[2]] # "link"

ClaimInv ==
  /\ \A t \in Thread : Claims(t) =>
       /\ Claim(t) \in Thread
       /\ Claim(t) = t \/ Waits(Claim(t))
       /\ \A i \in 1..Len(queue) : queue[i] # Claim(t)
  /\ \A t, u \in Thread : Claims(t) /\ Claims(u) /\ Claim(t) = Claim(u) => t = u

\* Where a combiner has run the closure of the node at its cursor.
Finished == {"loadNext", "finish", "close", "last", "handoff", "promote", "resign"}

\* Whoever is, or will be, told DONE has its result stored.
SlotInv ==
  \A t \in Thread :
    /\ pc[t] \in Finished => result[cursor[t]] # "uninit"
    /\ pc[t] \in Combining \cup {"resign"} /\ cursor[t] # t => result[t] # "uninit"
    /\ pc[t] \in {"release", "return"} => result[t] # "uninit"
    /\ pc[t] \in Waiting /\ futex[t] = "DONE" => result[t] # "uninit"

\* The bomb is on the node that an unwinding combiner would leave at the front.
BombInv ==
  ~Std => \A t \in Thread :
    /\ pc[t] \in Waiting \cup {"acquire"} => atom[t] = t
    /\ pc[t] \in {"exec", "run", "loadNext", "finish"} => atom[t] = cursor[t]

\* SLEEPING is stored by the owner and replaced only by a message.
FutexInv ==
  \A t \in Thread :
    /\ pc[t] \in {"link", "spin", "park"} => futex[t] # "SLEEPING"
    /\ pc[t] \in {"futexWait", "syscall", "asleep", "woken"} => futex[t] # "WAITING"
    /\ pc[t] = "woken" => futex[t] # "SLEEPING"

\* The inductive invariant of the lock: no state in which two threads own the
\* raw lock or the queue, or a node in use has left its owner's frame, is near.
IInv ==
  /\ TypeOK /\ LockInv /\ DriverInv /\ MemberInv /\ LinkInv
  /\ SuccInv /\ ClaimInv /\ SlotInv /\ BombInv /\ FutexInv

=============================================================================
