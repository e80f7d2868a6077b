---------------------------- MODULE SerialTasks ----------------------------
(***************************************************************************)
(* What lamlock's nonpoison lock promises to its callers: every submitted  *)
(* closure runs at most once, no two run at the same time, and the call    *)
(* returns what its own closure did.  Without panic transport (Transport = *)
(* FALSE) a panic may break the executor for good: tasks that are pending  *)
(* then are cancelled, and the panic may surface in another caller.        *)
(* Nothing is said here about queues, combiners or memory.                 *)
(***************************************************************************)
CONSTANTS Thread, Transport

VARIABLES
  phase,    \* "idle", "pending", "running", or how the closure ended
  reply,    \* what the last call of each thread returned, "none" inside a call
  broken    \* the executor has been disabled

tvars == <<phase, reply, broken>>

Init ==
  /\ phase  = [t \in Thread |-> "idle"]
  /\ reply  = [t \in Thread |-> "none"]
  /\ broken = FALSE

Submit(t) ==
  /\ phase[t] = "idle"
  /\ phase' = [phase EXCEPT ![t] = "pending"]
  /\ reply' = [reply EXCEPT ![t] = "none"]
  /\ UNCHANGED broken

Begin(t) ==
  /\ phase[t] = "pending"
  /\ ~broken
  /\ \A u \in Thread : phase[u] # "running"
  /\ phase' = [phase EXCEPT ![t] = "running"]
  /\ UNCHANGED <<reply, broken>>

End(t, v) ==
  /\ phase[t] = "running"
  /\ phase' = [phase EXCEPT ![t] = v]
  /\ broken' \in {broken} \cup (IF v = "panic" /\ ~Transport THEN {TRUE} ELSE {})
  /\ UNCHANGED reply

\* The caller of a closure that ended is told so; with a broken executor it may
\* meet another task's panic, or its own panic went to another caller.
Reply(t, r) ==
  /\ phase[t] \in {"ok", "panic"}
  /\ \/ r = phase[t]
     \/ broken /\ r = "panic"
     \/ broken /\ r = "cancelled" /\ phase[t] = "panic"
  /\ phase' = [phase EXCEPT ![t] = "idle"]
  /\ reply' = [reply EXCEPT ![t] = r]
  /\ UNCHANGED broken

Cancel(t) ==
  /\ phase[t] = "pending"
  /\ broken
  /\ phase' = [phase EXCEPT ![t] = "idle"]
  /\ reply' = [reply EXCEPT ![t] = "cancelled"]
  /\ UNCHANGED broken

Next ==
  \E t \in Thread :
    \/ Submit(t) \/ Begin(t) \/ Cancel(t)
    \/ \E v \in {"ok", "panic"} : End(t, v)
    \/ \E r \in {"ok", "panic", "cancelled"} : Reply(t, r)

Spec == Init /\ [][Next]_tvars

===========================================================================
