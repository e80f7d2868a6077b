--------------------------- MODULE PoisonMonitor ---------------------------
(***************************************************************************)
(* What poison::Lock promises: each request takes effect at one instant    *)
(* between its call and its return, on a flag that only a panic or poison()*)
(* raises and only a successful recovery lowers.  An ordinary task is      *)
(* invoked only while the flag is down, a recovery only while it is up.    *)
(* Without panic transport (Transport = FALSE) a panic may disable the     *)
(* monitor for good, with the flag up: requests that are pending then are  *)
(* refused, and the panic may surface in another caller.                   *)
(***************************************************************************)
CONSTANTS Thread, Transport

VARIABLES
  flag,     \* the lock is poisoned
  request,  \* what each thread is asking for, "none" outside a call
  effect,   \* what the request did, "none" until it has taken effect
  reply,    \* what the last call of each thread returned, "none" inside a call
  disabled  \* no request can take effect any more

mvars == <<flag, request, effect, reply, disabled>>

Init ==
  /\ flag     = FALSE
  /\ request  = [t \in Thread |-> "none"]
  /\ effect   = [t \in Thread |-> "none"]
  /\ reply    = [t \in Thread |-> "none"]
  /\ disabled = FALSE

Submit(t, r) ==
  /\ request[t] = "none"
  /\ request' = [request EXCEPT ![t] = r]
  /\ reply'   = [reply EXCEPT ![t] = "none"]
  /\ UNCHANGED <<flag, effect, disabled>>

\* Effect e of request r turns the flag from f to g.
Effect(r, f, e, g) ==
  CASE r = "run"      -> \/ f /\ e = "poisoned" /\ g
                         \/ ~f /\ e = "done" /\ ~g
                         \/ ~f /\ e = "panic" /\ g
    [] r = "poison"   -> g /\ e = (IF f THEN "poisoned" ELSE "done")
    [] r = "unpoison" -> \/ e = "declined" /\ g = f
                         \/ f /\ e = "recovered" /\ ~g
                         \/ f /\ e = "panic" /\ g

TakeEffect(t, e) ==
  /\ request[t] # "none" /\ effect[t] = "none"
  /\ ~disabled
  /\ effect'   = [effect EXCEPT ![t] = e]
  /\ Effect(request[t], flag, e, flag')
  /\ disabled' \in {FALSE} \cup (IF e = "panic" /\ ~Transport THEN {TRUE} ELSE {})
  /\ UNCHANGED <<request, reply>>

\* The caller is told the effect; when the monitor is disabled it may meet
\* another task's panic, or its own panic went to another caller.
Reply(t, r) ==
  /\ effect[t] # "none"
  /\ \/ r = effect[t]
     \/ disabled /\ r = "panic"
     \/ disabled /\ r = "poisoned" /\ effect[t] = "panic"
  /\ request' = [request EXCEPT ![t] = "none"]
  /\ effect'  = [effect EXCEPT ![t] = "none"]
  /\ reply'   = [reply EXCEPT ![t] = r]
  /\ UNCHANGED <<flag, disabled>>

Refuse(t) ==
  /\ request[t] # "none" /\ effect[t] = "none"
  /\ disabled
  /\ request' = [request EXCEPT ![t] = "none"]
  /\ reply'   = [reply EXCEPT ![t] = "poisoned"]
  /\ UNCHANGED <<flag, effect, disabled>>

Next ==
  \E t \in Thread :
    \/ \E r \in {"run", "poison", "unpoison"} : Submit(t, r)
    \/ \E e \in {"poisoned", "done", "declined", "recovered", "panic"} :
         TakeEffect(t, e) \/ Reply(t, e)
    \/ Refuse(t)

Spec == Init /\ [][Next]_mvars

===========================================================================
