-------------------------------- MODULE Fill --------------------------------
(***************************************************************************)
(* vdso-rng: LocalState::fill and try_fill on one LocalState, and the      *)
(* debug flag that detects a call made while another one is inside the     *)
(* vDSO function.  A thread has one call of the state at a time; a signal  *)
(* handler that reaches the same state by unsafe means may interrupt it    *)
(* anywhere and runs its own call to the end first.  The handler catches   *)
(* the panic of the debug assertion.                                       *)
(***************************************************************************)
EXTENDS Integers

CONSTANTS
  Debug,     \* cfg(debug_assertions)
  Depth,     \* how deeply handlers may interrupt each other, plus one
  MaxLen,    \* the longest buffer
  Fatal      \* the errors of getrandom other than EAGAIN and EINTR

ASSUME DebugAssumption == Debug \in BOOLEAN
ASSUME DepthAssumption == Depth \in Nat \ {0} /\ MaxLen \in Nat

Frame  == 1..Depth
EINTR  == 4
EAGAIN == 11

ASSUME FatalAssumption == Fatal \subseteq 1..4095 \ {EINTR, EAGAIN}

VARIABLES
  pc,        \* where the call of each frame is, "idle" if it has none
  whole,     \* fill, not try_fill
  size,      \* buf.len() at the call
  done,      \* how many bytes of the buffer lie behind buf, the rest of it
  result,    \* what the vDSO function returned
  inflight,  \* LocalState.inflight
  written,   \* how often each byte of the buffer has been written (history)
  answer     \* what the call of each frame returns

fvars == <<pc, whole, size, done, result, inflight, written, answer>>

FillInit ==
  /\ pc      = [f \in Frame |-> "idle"]
  /\ whole   = [f \in Frame |-> FALSE]
  /\ size    = [f \in Frame |-> 0]
  /\ done    = [f \in Frame |-> 0]
  /\ result  = [f \in Frame |-> 0]
  /\ inflight = FALSE
  /\ written = [f \in Frame |-> [b \in 1..MaxLen |-> 0]]
  /\ answer  = [f \in Frame |-> <<"none", 0>>]

\* A frame runs only while nothing interrupts it.
Runs(f) == f + 1 \in Frame => pc[f + 1] = "idle"

Goto(f, l) == pc' = [pc EXCEPT ![f] = l]
Answer(f, a) == Goto(f, "return") /\ answer' = [answer EXCEPT ![f] = a]

\* state.fill(buf) or state.try_fill(buf), by the thread or by a handler that
\* interrupts the frame below.
Call(f) ==
  /\ pc[f] = "idle" /\ Runs(f)
  /\ f > 1 => pc[f - 1] # "idle"
  /\ \E n \in 0..MaxLen, w \in BOOLEAN :
       /\ size'  = [size EXCEPT ![f] = n]
       /\ whole' = [whole EXCEPT ![f] = w]
       /\ Goto(f, IF w THEN "loop" ELSE "check")
  /\ UNCHANGED <<done, result, inflight, written, answer>>

\* while !buf.is_empty()
Loop(f) ==
  /\ pc[f] = "loop" /\ Runs(f)
  /\ IF done[f] = size[f]
     THEN Answer(f, <<"ok", done[f]>>)
     ELSE Goto(f, "check") /\ UNCHANGED answer
  /\ UNCHANGED <<whole, size, done, result, inflight, written>>

\* A wrong try_fill: the assertion is left to release builds, or out.
CheckNothing(f) ==
  /\ pc[f] = "check" /\ Runs(f)
  /\ Goto(f, "raise")
  /\ UNCHANGED <<whole, size, done, result, inflight, written, answer>>

\* debug_assert!(!self.inflight)
Check(f) ==
  /\ pc[f] = "check" /\ Runs(f)
  /\ IF Debug /\ inflight
     THEN Answer(f, <<"panic", done[f]>>)
     ELSE Goto(f, "raise") /\ UNCHANGED answer
  /\ UNCHANGED <<whole, size, done, result, inflight, written>>

\* self.inflight = true
Raise(f) ==
  /\ pc[f] = "raise" /\ Runs(f)
  /\ inflight' = Debug
  /\ Goto(f, "inside")
  /\ UNCHANGED <<whole, size, done, result, written, answer>>

\* The vDSO function fills any number of bytes from the start of buf, or fails.
Vgetrandom(f) ==
  /\ pc[f] = "inside" /\ Runs(f)
  /\ \E r \in 0..(size[f] - done[f]) \cup {-e : e \in Fatal \cup {EINTR, EAGAIN}} :
       /\ result'  = [result EXCEPT ![f] = r]
       /\ written' = [written EXCEPT ![f] =
                        [b \in 1..MaxLen |-> IF b \in (done[f] + 1)..(done[f] + r)
                                             THEN @[b] + 1 ELSE @[b]]]
  /\ Goto(f, "lower")
  /\ UNCHANGED <<whole, size, done, inflight, answer>>

\* Three wrong ways of going on: a short read is taken for the whole buffer, the
\* buffer is not advanced over it, or every error is retried.
ReturnedShort(f) ==
  IF result[f] < 0 THEN Answer(f, <<"errno", -result[f]>>) /\ UNCHANGED done
  ELSE Answer(f, <<"ok", size[f]>>) /\ done' = [done EXCEPT ![f] = @ + result[f]]
ReturnedInPlace(f) ==
  IF result[f] < 0 THEN Answer(f, <<"errno", -result[f]>>) /\ UNCHANGED done
  ELSE Goto(f, "loop") /\ UNCHANGED <<answer, done>>
ReturnedRetrying(f) ==
  IF result[f] < 0 THEN Goto(f, "loop") /\ UNCHANGED <<answer, done>>
  ELSE Goto(f, "loop") /\ done' = [done EXCEPT ![f] = @ + result[f]] /\ UNCHANGED answer

\* What try_fill returns, and what the match in fill makes of it.
Returned(f) ==
  \/ /\ result[f] < 0
     /\ IF whole[f] /\ -result[f] \in {EAGAIN, EINTR}
        THEN Goto(f, "loop") /\ UNCHANGED answer
        ELSE Answer(f, <<"errno", -result[f]>>)
     /\ UNCHANGED done
  \/ /\ result[f] >= 0
     /\ done' = [done EXCEPT ![f] = @ + result[f]]
     /\ IF whole[f] THEN Goto(f, "loop") /\ UNCHANGED answer
                    ELSE Answer(f, <<"ok", result[f]>>)

\* A wrong try_fill: an error returns before the flag is lowered.
LowerUnlessFailed(f) ==
  /\ pc[f] = "lower" /\ Runs(f)
  /\ inflight' = (inflight /\ result[f] < 0)
  /\ Returned(f)
  /\ result' = [result EXCEPT ![f] = 0]
  /\ UNCHANGED <<whole, size, written>>

\* self.inflight = false, then the result
Lower(f) ==
  /\ pc[f] = "lower" /\ Runs(f)
  /\ inflight' = FALSE
  /\ Returned(f)
  /\ result' = [result EXCEPT ![f] = 0]
  /\ UNCHANGED <<whole, size, written>>

\* The caller, or the code that was interrupted, goes on.
Exit(f) ==
  /\ pc[f] = "return" /\ Runs(f)
  /\ Goto(f, "idle")
  /\ whole' = [whole EXCEPT ![f] = FALSE]
  /\ size'  = [size EXCEPT ![f] = 0] /\ done' = [done EXCEPT ![f] = 0]
  /\ written' = [written EXCEPT ![f] = [b \in 1..MaxLen |-> 0]]
  /\ answer'  = [answer EXCEPT ![f] = <<"none", 0>>]
  /\ UNCHANGED <<result, inflight>>

Step(f) == Loop(f) \/ Check(f) \/ Raise(f) \/ Lower(f) \/ Exit(f)

FillNext == \E f \in Frame : Call(f) \/ Step(f) \/ Vgetrandom(f)

\* The vDSO function gets somewhere, or says that it never will.
Progress(f) ==
  Vgetrandom(f) /\ (result'[f] > 0 \/ -result'[f] \in Fatal \/ done[f] = size[f])

---------------------------------------------------------------------------
(* Properties *)

\* Every variable has its type; an assertion fails only in a handler.
FillTypeOK ==
  /\ pc \in [Frame -> {"idle", "loop", "check", "raise", "inside", "lower", "return"}]
  /\ whole \in [Frame -> BOOLEAN]
  /\ size \in [Frame -> 0..MaxLen] /\ done \in [Frame -> 0..MaxLen]
  /\ result \in [Frame -> -4095..MaxLen]
  /\ inflight \in BOOLEAN
  /\ written \in [Frame -> [1..MaxLen -> Nat]]
  /\ answer \in [Frame -> {"none", "ok", "errno", "panic"} \X Nat]

Inside(f) == pc[f] \in {"inside", "lower"}

\* "Under debug builds, reentrancy is explicitly checked and will panic if
\* detected": no two calls are inside the vDSO function with the same state,
\* wherever a handler interrupts.
NoReentrancy == Debug => \A f, g \in Frame : pc[f] = "inside" /\ pc[g] = "inside" => f = g

\* The flag is up exactly while a call is inside, so that neither an error nor a
\* detected reentrancy makes the state unusable.
FlagTracksCall == inflight = (Debug /\ \E f \in Frame : Inside(f))

\* The bytes of the buffer are written once each, in order, across short reads,
\* retries and interruptions: what lies behind buf is written, the rest is not.
FilledInOrder ==
  \A f \in Frame : \A b \in 1..MaxLen :
    written[f][b] = IF b <= done[f] + (IF pc[f] = "lower" /\ result[f] > 0
                                       THEN result[f] ELSE 0) THEN 1 ELSE 0

\* "This method will block until the buffer is filled": fill returns Ok only with
\* the whole buffer, and no error that it could have retried.
FillIsWhole ==
  \A f \in Frame : pc[f] = "return" /\ whole[f] =>
    /\ answer[f][1] = "ok" => done[f] = size[f]
    /\ answer[f][1] = "errno" => answer[f][2] \in Fatal

\* Every call returns, whatever interrupts it, if the vDSO keeps answering.
FillReturns == \A f \in Frame : pc[f] # "idle" ~> pc[f] = "idle"

============================================================================
