---------------------------- MODULE VdsoRngProof ----------------------------
(***************************************************************************)
(* Proofs about the fill loop of VdsoRng, for any depth of interruptions,  *)
(* any length of the buffer, any set of fatal errors and both kinds of     *)
(* build.                                                                  *)
(***************************************************************************)
EXTENDS VdsoRng, TLAPS

Label == {"idle", "loop", "check", "raise", "inside", "lower", "return"}

TypeInv ==
  /\ pc \in [Frame -> Label]
  /\ whole \in [Frame -> BOOLEAN]
  /\ size \in [Frame -> 0..MaxLen] /\ done \in [Frame -> 0..MaxLen]
  /\ result \in [Frame -> -4095..MaxLen]
  /\ inflight \in BOOLEAN
  /\ written \in [Frame -> [1..MaxLen -> Nat]]
  /\ answer \in [Frame -> {"none", "ok", "errno", "panic"} \X Nat]

\* The frames with a call are the lowest ones, so a frame that runs is the last.
StackInv == \A f, g \in Frame : f < g /\ pc[f] = "idle" => pc[g] = "idle"

\* A call that has found the flag down is the only one inside, once it goes on.
GuardInv ==
  Debug => \A f, g \in Frame : f < g /\ Inside(f) => pc[g] \notin {"raise", "inside", "lower"}

\* The vDSO function fails with an errno, or fills bytes that were still to be filled.
ResultOK(f) ==
  /\ done[f] <= size[f]
  /\ pc[f] = "lower" => \/ result[f] \in 0..(size[f] - done[f])
                        \/ result[f] < 0 /\ -result[f] \in Fatal \cup {EINTR, EAGAIN}

\* What FilledInOrder and FillIsWhole say of one frame; a new call finds an
\* untouched buffer.
Filled(f) ==
  /\ pc[f] = "idle" => done[f] = 0
  /\ \A b \in 1..MaxLen :
       written[f][b] = IF b <= done[f] + (IF pc[f] = "lower" /\ result[f] > 0
                                          THEN result[f] ELSE 0) THEN 1 ELSE 0
Whole(f) ==
  pc[f] = "return" /\ whole[f] =>
    /\ answer[f][1] = "ok" => done[f] = size[f]
    /\ answer[f][1] = "errno" => answer[f][2] \in Fatal

FrameInv == \A f \in Frame : ResultOK(f) /\ Filled(f) /\ Whole(f)

IInv == TypeInv /\ StackInv /\ GuardInv /\ FlagTracksCall /\ FrameInv

USE DEF Frame

LEMMA Errors == Fatal \cup {EINTR, EAGAIN} \subseteq 1..4095
  BY FatalAssumption DEF EINTR, EAGAIN

\* Nothing above a running frame has a call.
LEMMA TopRuns ==
  ASSUME TypeInv, StackInv, NEW f \in Frame, Runs(f), NEW g \in Frame, f < g
  PROVE  pc[g] = "idle"
<1>1. f + 1 \in Frame /\ pc[f + 1] = "idle"
  BY DepthAssumption DEF Runs
<1>2. CASE g = f + 1
  BY <1>1, <1>2
<1>3. CASE f + 1 < g
  BY <1>1, <1>3 DEF StackInv
<1> QED
  BY <1>2, <1>3, DepthAssumption

\* What stays true of the other frames when the call of one goes on.
LEMMA StackStep ==
  ASSUME TypeInv, StackInv, NEW f \in Frame, Runs(f), NEW l \in Label, Goto(f, l),
         \/ pc[f] # "idle"
         \/ f > 1 => pc[f - 1] # "idle"
  PROVE  StackInv'
<1>1. pc' = [pc EXCEPT ![f] = l]
  BY DEF Goto
<1>2. \A g \in Frame : f < g => pc[g] = "idle"
  BY TopRuns
<1>3. \A g \in Frame : g < f => pc[g] # "idle"
  <2> SUFFICES ASSUME NEW g \in Frame, g < f, pc[g] = "idle" PROVE FALSE
    OBVIOUS
  <2>1. pc[f] = "idle"
    BY DEF StackInv
  <2>2. f > 1 /\ f - 1 \in Frame /\ pc[f - 1] # "idle"
    BY <2>1, DepthAssumption
  <2>3. g < f - 1
    BY <2>2, DepthAssumption
  <2> QED
    BY <2>2, <2>3 DEF StackInv
<1> SUFFICES ASSUME NEW g \in Frame, NEW h \in Frame, g < h, pc'[g] = "idle"
             PROVE  pc'[h] = "idle"
  BY DEF StackInv
<1>4. \A u \in Frame : u # f => pc'[u] = pc[u]
  BY <1>1 DEF TypeInv
<1>5. CASE f < h
  BY <1>2, <1>4, <1>5
<1>6. CASE ~(f < h)
  <2>1. g < f
    BY <1>6
  <2> QED
    BY <1>3, <1>4, <2>1
<1> QED
  BY <1>5, <1>6


\* Steps of a frame that do not touch the flag, the buffer or the answer.
LEMMA GuardStep ==
  ASSUME TypeInv, StackInv, GuardInv, NEW f \in Frame, Runs(f), NEW l \in Label, Goto(f, l),
         \/ l \notin {"raise", "inside", "lower"}
         \/ Inside(f) /\ l = "lower"
         \/ pc[f] = "raise" /\ l = "inside"
         \/ \A g \in Frame : ~Inside(g)
         \/ ~Debug
  PROVE  GuardInv'
<1>1. \A u \in Frame : u # f => pc'[u] = pc[u]
  BY DEF Goto, TypeInv
<1>2. pc'[f] = l
  BY DEF Goto, TypeInv
<1>3. \A g \in Frame : f < g => pc[g] = "idle"
  BY TopRuns
<1> SUFFICES ASSUME Debug, NEW g \in Frame, NEW h \in Frame, g < h, Inside(g)'
             PROVE  pc'[h] \notin {"raise", "inside", "lower"}
  BY DEF GuardInv
<1>4. CASE g = f
  BY <1>1, <1>3, <1>4
<1>5. CASE h = f
  BY <1>1, <1>2, <1>5 DEF GuardInv, Inside
<1>6. CASE g # f /\ h # f
  BY <1>1, <1>6 DEF GuardInv, Inside
<1> QED
  BY <1>4, <1>5, <1>6


\* In a debug build a frame inside the vDSO function is alone there.
LEMMA AloneInside ==
  ASSUME TypeInv, StackInv, GuardInv, Debug, NEW f \in Frame, Runs(f), pc[f] \in {"raise", "inside", "lower"},
         NEW g \in Frame, Inside(g)
  PROVE  g = f
<1>1. CASE f < g
  BY <1>1, TopRuns DEF Inside
<1>2. CASE g < f
  BY <1>2 DEF GuardInv
<1> QED
  BY <1>1, <1>2, DepthAssumption

\* The other frames keep what they have.
LEMMA FrameStep ==
  ASSUME FrameInv, NEW f \in Frame,
         \A g \in Frame \ {f} :
           /\ pc'[g] = pc[g] /\ whole'[g] = whole[g] /\ size'[g] = size[g]
           /\ done'[g] = done[g] /\ result'[g] = result[g]
           /\ written'[g] = written[g] /\ answer'[g] = answer[g],
         ResultOK(f)' /\ Filled(f)' /\ Whole(f)'
  PROVE  FrameInv'
<1> SUFFICES ASSUME NEW g \in Frame \ {f} PROVE ResultOK(g)' /\ Filled(g)' /\ Whole(g)'
  BY DEF FrameInv
<1>1. ResultOK(g) /\ Filled(g) /\ Whole(g)
  BY DEF FrameInv
<1>2. ResultOK(g)'
  BY <1>1 DEF ResultOK
<1>3. Filled(g)'
  BY <1>1 DEF Filled
<1>4. Whole(g)'
  BY <1>1 DEF Whole
<1> QED
  BY <1>2, <1>3, <1>4

---------------------------------------------------------------------------
(* The actions *)

LEMMA CallStep ==
  ASSUME IInv, NEW f \in Frame, Call(f)
  PROVE  IInv'
<1>1. PICK n \in 0..MaxLen, w \in BOOLEAN :
        /\ size' = [size EXCEPT ![f] = n] /\ whole' = [whole EXCEPT ![f] = w]
        /\ Goto(f, IF w THEN "loop" ELSE "check")
  BY DEF Call
<1>2. /\ pc[f] = "idle" /\ Runs(f) /\ (f > 1 => pc[f - 1] # "idle")
      /\ UNCHANGED <<done, result, inflight, written, answer>>
  BY DEF Call
<1> DEFINE l == IF w THEN "loop" ELSE "check"
<1>3. l \in Label /\ l \notin {"raise", "inside", "lower", "return"} /\ Goto(f, l)
  BY <1>1 DEF Label
<1> HIDE DEF l
<1>4. TypeInv /\ StackInv /\ GuardInv /\ FrameInv
  BY DEF IInv
<1>5. pc' = [pc EXCEPT ![f] = l]
  BY <1>3 DEF Goto
<1>6. TypeInv'
  BY <1>1, <1>2, <1>3, <1>4, <1>5 DEF TypeInv
<1>7. StackInv'
  BY <1>2, <1>3, <1>4, StackStep
<1>8. GuardInv'
  BY <1>2, <1>3, <1>4, GuardStep
<1>9. \A g \in Frame : Inside(g)' <=> Inside(g)
  BY <1>2, <1>3, <1>4, <1>5 DEF TypeInv, Inside
<1>10. FlagTracksCall'
  BY <1>2, <1>9 DEF IInv, FlagTracksCall
<1>11. /\ pc'[f] = l /\ size'[f] \in Nat /\ done'[f] = 0 /\ written'[f] = written[f]
  BY <1>1, <1>2, <1>4, <1>5 DEF TypeInv, FrameInv, Filled
<1>12. ResultOK(f)' /\ Whole(f)'
  BY <1>3, <1>11 DEF ResultOK, Whole
<1>13. Filled(f)'
  BY <1>2, <1>3, <1>4, <1>11 DEF FrameInv, Filled
<1>14. FrameInv'
  BY <1>1, <1>2, <1>4, <1>5, <1>12, <1>13, FrameStep DEF TypeInv
<1> QED
  BY <1>6, <1>7, <1>8, <1>10, <1>14 DEF IInv

\* Loop and Check go on or answer; neither touches flag or buffer.
LEMMA QuietStep ==
  ASSUME IInv, NEW f \in Frame, Runs(f), pc[f] \in {"loop", "check"},
         UNCHANGED <<whole, size, done, result, inflight, written>>,
         NEW l \in Label \ {"idle", "inside", "lower"}, Goto(f, l),
         l = "raise" => ~(Debug /\ inflight),
         NEW a \in {"none", "ok", "errno", "panic"} \X Nat,
         answer' = [answer EXCEPT ![f] = a],
         l = "return" => a[1] = "panic" \/ (a[1] = "ok" /\ done[f] = size[f])
  PROVE  IInv'
<1>1. TypeInv /\ StackInv /\ GuardInv /\ FrameInv
  BY DEF IInv
<1>2. pc' = [pc EXCEPT ![f] = l] /\ l \in Label
  BY DEF Goto
<1>3. TypeInv'
  BY <1>1, <1>2 DEF TypeInv
<1>4. StackInv'
  BY <1>1, StackStep
<1>5. GuardInv'
  <2>1. l = "raise" => ~Debug \/ \A g \in Frame : ~Inside(g)
    BY DEF IInv, FlagTracksCall
  <2> QED
    BY <1>1, <2>1, GuardStep
<1>6. \A g \in Frame : Inside(g)' <=> Inside(g)
  BY <1>1, <1>2 DEF TypeInv, Inside
<1>7. FlagTracksCall'
  BY <1>6 DEF IInv, FlagTracksCall
<1>8. ResultOK(f) /\ Filled(f)
  BY <1>1 DEF FrameInv
<1>9. pc'[f] = l /\ answer'[f] = a
  BY <1>1, <1>2 DEF TypeInv
<1>10. ResultOK(f)' /\ Filled(f)'
  BY <1>8, <1>9 DEF ResultOK, Filled
<1>11. Whole(f)'
  BY <1>9 DEF Whole
<1>12. \A g \in Frame \ {f} : pc'[g] = pc[g] /\ answer'[g] = answer[g]
  BY <1>1, <1>2 DEF TypeInv
<1>13. FrameInv'
  BY <1>1, <1>10, <1>11, <1>12, FrameStep
<1> QED
  BY <1>3, <1>4, <1>5, <1>7, <1>13 DEF IInv

LEMMA LoopStep ==
  ASSUME IInv, NEW f \in Frame, Loop(f)
  PROVE  IInv'
<1>1. /\ pc[f] = "loop" /\ Runs(f)
      /\ UNCHANGED <<whole, size, done, result, inflight, written>>
  BY DEF Loop
<1>2. /\ answer \in [Frame -> {"none", "ok", "errno", "panic"} \X Nat]
      /\ done[f] \in Nat
  BY DEF IInv, TypeInv
<1>3. CASE done[f] = size[f]
  <2>1. Goto(f, "return") /\ answer' = [answer EXCEPT ![f] = <<"ok", done[f]>>]
    BY <1>3 DEF Loop, Answer
  <2>2. "return" \in Label \ {"idle", "inside", "lower"}
    BY DEF Label
  <2>3. /\ <<"ok", done[f]>> \in {"none", "ok", "errno", "panic"} \X Nat
        /\ <<"ok", done[f]>>[1] = "ok"
    BY <1>2
  <2> QED
    BY <1>1, <1>3, <2>1, <2>2, <2>3, QuietStep
<1>4. CASE done[f] # size[f]
  <2>1. Goto(f, "check") /\ answer' = answer
    BY <1>4 DEF Loop
  <2>2. answer' = [answer EXCEPT ![f] = answer[f]] /\ answer[f] \in {"none", "ok", "errno", "panic"} \X Nat
    BY <1>2, <2>1
  <2>3. "check" \in Label \ {"idle", "inside", "lower"}
    BY DEF Label
  <2> QED
    BY <1>1, <2>1, <2>2, <2>3, QuietStep
<1> QED
  BY <1>3, <1>4

LEMMA CheckStep ==
  ASSUME IInv, NEW f \in Frame, Check(f)
  PROVE  IInv'
<1>1. /\ pc[f] = "check" /\ Runs(f)
      /\ UNCHANGED <<whole, size, done, result, inflight, written>>
  BY DEF Check
<1>2. /\ answer \in [Frame -> {"none", "ok", "errno", "panic"} \X Nat]
      /\ done[f] \in Nat
  BY DEF IInv, TypeInv
<1>3. CASE Debug /\ inflight
  <2>1. Goto(f, "return") /\ answer' = [answer EXCEPT ![f] = <<"panic", done[f]>>]
    BY <1>3 DEF Check, Answer
  <2>2. "return" \in Label \ {"idle", "inside", "lower"}
    BY DEF Label
  <2>3. /\ <<"panic", done[f]>> \in {"none", "ok", "errno", "panic"} \X Nat
        /\ <<"panic", done[f]>>[1] = "panic"
    BY <1>2
  <2> QED
    BY <1>1, <2>1, <2>2, <2>3, QuietStep
<1>4. CASE ~(Debug /\ inflight)
  <2>1. Goto(f, "raise") /\ answer' = answer
    BY <1>4 DEF Check
  <2>2. answer' = [answer EXCEPT ![f] = answer[f]] /\ answer[f] \in {"none", "ok", "errno", "panic"} \X Nat
    BY <1>2, <2>1
  <2>3. "raise" \in Label \ {"idle", "inside", "lower"}
    BY DEF Label
  <2> QED
    BY <1>1, <1>4, <2>1, <2>2, <2>3, QuietStep
<1> QED
  BY <1>3, <1>4

LEMMA RaiseStep ==
  ASSUME IInv, NEW f \in Frame, Raise(f)
  PROVE  IInv'
<1>1. TypeInv /\ StackInv /\ GuardInv /\ FrameInv
  BY DEF IInv
<1>2. /\ pc[f] = "raise" /\ Runs(f) /\ Goto(f, "inside") /\ inflight' = Debug
      /\ UNCHANGED <<whole, size, done, result, written, answer>>
  BY DEF Raise
<1>3. pc' = [pc EXCEPT ![f] = "inside"] /\ pc'[f] = "inside"
  BY <1>1, <1>2 DEF Goto, TypeInv
<1>4. TypeInv'
  BY <1>1, <1>2, <1>3, DebugAssumption DEF TypeInv, Label
<1>5. StackInv'
  BY <1>1, <1>2, StackStep DEF Label
<1>6. GuardInv'
  BY <1>1, <1>2, GuardStep DEF Label
<1>7. FlagTracksCall'
  BY <1>2, <1>3, DebugAssumption DEF FlagTracksCall, Inside
<1>8. ResultOK(f)' /\ Filled(f)' /\ Whole(f)'
  BY <1>1, <1>2, <1>3 DEF FrameInv, ResultOK, Filled, Whole
<1>9. FrameInv'
  BY <1>1, <1>2, <1>3, <1>8, FrameStep DEF TypeInv
<1> QED
  BY <1>4, <1>5, <1>6, <1>7, <1>9 DEF IInv

LEMMA VgetrandomStep ==
  ASSUME IInv, NEW f \in Frame, Vgetrandom(f)
  PROVE  IInv'
<1>1. TypeInv /\ StackInv /\ GuardInv /\ FrameInv
  BY DEF IInv
<1>2. /\ pc[f] = "inside" /\ Runs(f) /\ Goto(f, "lower")
      /\ UNCHANGED <<whole, size, done, inflight, answer>>
  BY DEF Vgetrandom
<1>3. PICK r \in 0..(size[f] - done[f]) \cup {-e : e \in Fatal \cup {EINTR, EAGAIN}} :
        /\ result'  = [result EXCEPT ![f] = r]
        /\ written' = [written EXCEPT ![f] =
                         [b \in 1..MaxLen |-> IF b \in (done[f] + 1)..(done[f] + r)
                                              THEN @[b] + 1 ELSE @[b]]]
  BY DEF Vgetrandom
<1>4. pc' = [pc EXCEPT ![f] = "lower"] /\ pc'[f] = "lower"
  BY <1>1, <1>2 DEF Goto, TypeInv
<1>5. /\ done[f] \in 0..MaxLen /\ size[f] \in 0..MaxLen /\ done[f] <= size[f]
      /\ MaxLen \in Nat
  <2>1. done[f] \in 0..MaxLen /\ size[f] \in 0..MaxLen
    BY <1>1 DEF TypeInv
  <2>2. done[f] <= size[f]
    BY <1>1 DEF FrameInv, ResultOK
  <2> QED
    BY <2>1, <2>2, DepthAssumption
<1>6. /\ \/ r \in 0..(size[f] - done[f])
         \/ r < 0 /\ -r \in Fatal \cup {EINTR, EAGAIN}
      /\ r \in -4095..MaxLen
  <2>1. CASE r \in 0..(size[f] - done[f])
    BY <1>5, <2>1
  <2>2. CASE r \in {-e : e \in Fatal \cup {EINTR, EAGAIN}}
    <3>1. PICK e \in Fatal \cup {EINTR, EAGAIN} : r = -e
      BY <2>2
    <3>2. e \in 1..4095
      BY <3>1, Errors
    <3>3. -r = e
      BY <3>1, <3>2
    <3> QED
      BY <1>5, <3>1, <3>2, <3>3
  <2> QED
    BY <2>1, <2>2
<1>7. /\ result' \in [Frame -> -4095..MaxLen] /\ result'[f] = r
      /\ \A g \in Frame \ {f} : result'[g] = result[g]
  BY <1>1, <1>3, <1>6 DEF TypeInv
<1>8. /\ written' \in [Frame -> [1..MaxLen -> Nat]]
      /\ \A g \in Frame \ {f} : written'[g] = written[g]
      /\ \A b \in 1..MaxLen :
           written'[f][b] = IF b \in (done[f] + 1)..(done[f] + r)
                            THEN written[f][b] + 1 ELSE written[f][b]
  <2> DEFINE w == [b \in 1..MaxLen |-> IF b \in (done[f] + 1)..(done[f] + r)
                                       THEN written[f][b] + 1 ELSE written[f][b]]
  <2>1. written \in [Frame -> [1..MaxLen -> Nat]] /\ written' = [written EXCEPT ![f] = w]
    BY <1>1, <1>3 DEF TypeInv
  <2>2. w \in [1..MaxLen -> Nat]
    <3>1. \A b \in 1..MaxLen : written[f][b] \in Nat
      BY <2>1
    <3> QED
      BY <3>1
  <2>3. \A b \in 1..MaxLen :
           w[b] = IF b \in (done[f] + 1)..(done[f] + r)
                  THEN written[f][b] + 1 ELSE written[f][b]
    OBVIOUS
  <2> HIDE DEF w
  <2> QED
    BY <2>1, <2>2, <2>3
<1>9. TypeInv'
  BY <1>1, <1>2, <1>4, <1>7, <1>8 DEF TypeInv, Label
<1>10. StackInv'
  BY <1>1, <1>2, StackStep DEF Label
<1>11. GuardInv'
  BY <1>1, <1>2, GuardStep DEF Label, Inside
<1>12. \A g \in Frame : Inside(g)' <=> Inside(g)
  BY <1>1, <1>2, <1>4 DEF TypeInv, Inside
<1>13. FlagTracksCall'
  BY <1>2, <1>12 DEF IInv, FlagTracksCall
<1>14. ResultOK(f)' /\ Whole(f)'
  BY <1>2, <1>4, <1>5, <1>6, <1>7 DEF ResultOK, Whole
<1>15. Filled(f)'
  <2>1. \A b \in 1..MaxLen : written[f][b] = IF b <= done[f] THEN 1 ELSE 0
    BY <1>1, <1>2, <1>5 DEF FrameInv, Filled
  <2>2. \A b \in 1..MaxLen :
          written'[f][b] = IF b <= done[f] + (IF r > 0 THEN r ELSE 0) THEN 1 ELSE 0
    BY <1>5, <1>6, <1>8, <2>1
  <2> QED
    BY <1>2, <1>4, <1>7, <2>2 DEF Filled
<1>16. FrameInv'
  BY <1>1, <1>2, <1>4, <1>7, <1>8, <1>14, <1>15, FrameStep DEF TypeInv
<1> QED
  BY <1>9, <1>10, <1>11, <1>13, <1>16 DEF IInv

LEMMA LowerStep ==
  ASSUME IInv, NEW f \in Frame, Lower(f)
  PROVE  IInv'
<1>1. TypeInv /\ StackInv /\ GuardInv /\ FrameInv
  BY DEF IInv
<1>2. /\ pc[f] = "lower" /\ Runs(f) /\ inflight' = FALSE
      /\ result' = [result EXCEPT ![f] = 0] /\ UNCHANGED <<whole, size, written>>
  BY DEF Lower
<1>3. /\ done[f] \in 0..MaxLen /\ size[f] \in 0..MaxLen /\ done[f] <= size[f]
      /\ MaxLen \in Nat
      /\ \/ result[f] \in 0..(size[f] - done[f])
         \/ result[f] < 0 /\ -result[f] \in Fatal \cup {EINTR, EAGAIN}
  <2>1. done[f] \in 0..MaxLen /\ size[f] \in 0..MaxLen
    BY <1>1 DEF TypeInv
  <2>2. ResultOK(f)
    BY <1>1 DEF FrameInv
  <2> QED
    BY <1>2, <2>1, <2>2, DepthAssumption DEF ResultOK
<1>0. Returned(f) /\ result[f] \in Int
  BY <1>1 DEF Lower, TypeInv
<1> DEFINE d == IF result[f] < 0 THEN done[f] ELSE done[f] + result[f]
<1>4. PICK l \in {"loop", "return"}, a \in {"none", "ok", "errno", "panic"} \X Nat :
        /\ pc' = [pc EXCEPT ![f] = l] /\ answer' = [answer EXCEPT ![f] = a]
        /\ done' = [done EXCEPT ![f] = d]
        /\ l = "return" /\ whole[f] => a[1] = "errno" /\ a[2] \in Fatal
  <2>1. /\ answer \in [Frame -> {"none", "ok", "errno", "panic"} \X Nat]
        /\ answer' = answer => answer' = [answer EXCEPT ![f] = answer[f]]
        /\ done' = done => done' = [done EXCEPT ![f] = done[f]]
    BY <1>1 DEF TypeInv
  <2>2. CASE result[f] < 0
    <3>1. -result[f] \in Fatal \cup {EINTR, EAGAIN} /\ -result[f] \in Nat
      <4>1. -result[f] \in Nat
        BY <1>0, <2>2
      <4>2. result[f] \notin 0..(size[f] - done[f])
        BY <1>0, <2>2
      <4> QED
        BY <1>3, <4>1, <4>2
    <3>2. done' = [done EXCEPT ![f] = d]
      BY <1>0, <2>1, <2>2 DEF Returned
    <3>3. CASE whole[f] /\ -result[f] \in {EAGAIN, EINTR}
      <4>1. Goto(f, "loop") /\ answer' = answer
        BY <1>0, <2>2, <3>3 DEF Returned
      <4> QED
        BY <2>1, <3>2, <4>1 DEF Goto
    <3>4. CASE ~(whole[f] /\ -result[f] \in {EAGAIN, EINTR})
      <4> DEFINE a == <<"errno", -result[f]>>
      <4>1. Goto(f, "return") /\ answer' = [answer EXCEPT ![f] = a]
        BY <1>0, <2>2, <3>4 DEF Returned, Answer
      <4>2. a \in {"none", "ok", "errno", "panic"} \X Nat
        BY <3>1
      <4>3. whole[f] => a[1] = "errno" /\ a[2] \in Fatal
        BY <3>1, <3>4
      <4> HIDE DEF a
      <4> QED
        BY <3>2, <4>1, <4>2, <4>3 DEF Goto
    <3> QED
      BY <3>3, <3>4
  <2>3. CASE result[f] >= 0
    <3>1. result[f] \in Nat
      BY <1>0, <2>3
    <3>2. done' = [done EXCEPT ![f] = d]
      BY <1>0, <2>1, <2>3 DEF Returned
    <3>3. CASE whole[f]
      <4>1. Goto(f, "loop") /\ answer' = answer
        BY <1>0, <2>3, <3>3 DEF Returned
      <4> QED
        BY <2>1, <3>2, <4>1 DEF Goto
    <3>4. CASE ~whole[f]
      <4> DEFINE a == <<"ok", result[f]>>
      <4>1. Goto(f, "return") /\ answer' = [answer EXCEPT ![f] = a]
        BY <1>0, <2>3, <3>4 DEF Returned, Answer
      <4>2. a \in {"none", "ok", "errno", "panic"} \X Nat
        BY <3>1
      <4> HIDE DEF a
      <4> QED
        BY <3>2, <3>4, <4>1, <4>2 DEF Goto
    <3> QED
      BY <3>3, <3>4
  <2> QED
    BY <1>0, <2>2, <2>3
<1>5. d \in 0..MaxLen /\ d <= size[f]
  BY <1>3
<1>6. Goto(f, l) /\ l \in Label /\ l \notin {"idle", "raise", "inside", "lower"}
  BY <1>4 DEF Goto, Label
<1>7. /\ done'[f] = d /\ pc'[f] = l /\ answer'[f] = a /\ result'[f] = 0
      /\ \A g \in Frame \ {f} : /\ done'[g] = done[g] /\ pc'[g] = pc[g]
                               /\ answer'[g] = answer[g] /\ result'[g] = result[g]
  BY <1>1, <1>2, <1>4 DEF TypeInv
<1>8. Filled(f)'
  <2>1. \A b \in 1..MaxLen : written[f][b] = IF b <= d THEN 1 ELSE 0
    <3>1. \A b \in 1..MaxLen :
            written[f][b] = IF b <= done[f] + (IF result[f] > 0 THEN result[f] ELSE 0)
                            THEN 1 ELSE 0
      BY <1>1, <1>2 DEF FrameInv, Filled
    <3>2. d = done[f] + (IF result[f] > 0 THEN result[f] ELSE 0)
      BY <1>0, <1>3
    <3> QED
      BY <3>1, <3>2
  <2> HIDE DEF d
  <2> QED
    BY <1>2, <1>5, <1>6, <1>7, <2>1 DEF Filled
<1> HIDE DEF d
<1>9. TypeInv'
  <2>1. 0 \in -4095..MaxLen
    BY <1>3
  <2>2. result' \in [Frame -> -4095..MaxLen]
    BY <1>1, <1>2, <2>1 DEF TypeInv
  <2>3. pc' \in [Frame -> Label]
    BY <1>1, <1>4, <1>6 DEF TypeInv
  <2>4. answer' \in [Frame -> {"none", "ok", "errno", "panic"} \X Nat]
    BY <1>1, <1>4 DEF TypeInv
  <2>5. done' \in [Frame -> 0..MaxLen]
    BY <1>1, <1>4, <1>5 DEF TypeInv
  <2>6. /\ whole' \in [Frame -> BOOLEAN] /\ size' \in [Frame -> 0..MaxLen]
        /\ written' \in [Frame -> [1..MaxLen -> Nat]]
    BY <1>1, <1>2 DEF TypeInv
  <2>7. inflight' \in BOOLEAN
    BY <1>2
  <2> QED
    BY <2>2, <2>3, <2>4, <2>5, <2>6, <2>7 DEF TypeInv
<1>10. StackInv'
  BY <1>1, <1>2, <1>6, StackStep
<1>11. GuardInv'
  BY <1>1, <1>2, <1>6, GuardStep
<1>12. FlagTracksCall'
  <2>1. Debug => \A g \in Frame : ~Inside(g)'
    <3>1. Debug => \A g \in Frame : Inside(g) => g = f
      BY <1>1, <1>2, AloneInside
    <3> QED
      BY <1>6, <1>7, <3>1 DEF Inside
  <2> QED
    BY <1>2, <2>1, DebugAssumption DEF FlagTracksCall
<1>13. ResultOK(f)' /\ Whole(f)'
  BY <1>2, <1>4, <1>5, <1>6, <1>7 DEF ResultOK, Whole
<1>14. FrameInv'
  BY <1>1, <1>2, <1>7, <1>8, <1>13, FrameStep
<1> QED
  BY <1>9, <1>10, <1>11, <1>12, <1>14 DEF IInv

LEMMA ExitStep ==
  ASSUME IInv, NEW f \in Frame, Exit(f)
  PROVE  IInv'
<1>1. TypeInv /\ StackInv /\ GuardInv /\ FrameInv
  BY DEF IInv
<1>2. /\ pc[f] = "return" /\ Runs(f) /\ Goto(f, "idle")
      /\ whole' = [whole EXCEPT ![f] = FALSE]
      /\ size'  = [size EXCEPT ![f] = 0] /\ done' = [done EXCEPT ![f] = 0]
      /\ written' = [written EXCEPT ![f] = [b \in 1..MaxLen |-> 0]]
      /\ answer'  = [answer EXCEPT ![f] = <<"none", 0>>]
      /\ UNCHANGED <<result, inflight>>
  BY DEF Exit
<1>3. pc' = [pc EXCEPT ![f] = "idle"] /\ pc'[f] = "idle"
  BY <1>1, <1>2 DEF Goto, TypeInv
<1>4. TypeInv'
  <2>1. size' \in [Frame -> 0..MaxLen] /\ done' \in [Frame -> 0..MaxLen]
    <3>1. 0 \in 0..MaxLen
      BY DepthAssumption
    <3> QED
      BY <1>1, <1>2, <3>1 DEF TypeInv
  <2>2. written' \in [Frame -> [1..MaxLen -> Nat]]
    BY <1>1, <1>2 DEF TypeInv
  <2>3. answer' \in [Frame -> {"none", "ok", "errno", "panic"} \X Nat]
    BY <1>1, <1>2 DEF TypeInv
  <2>4. whole' \in [Frame -> BOOLEAN]
    BY <1>1, <1>2 DEF TypeInv
  <2>5. pc' \in [Frame -> Label]
    BY <1>1, <1>3 DEF TypeInv, Label
  <2>6. result' \in [Frame -> -4095..MaxLen] /\ inflight' \in BOOLEAN
    BY <1>1, <1>2 DEF TypeInv
  <2> QED
    BY <2>1, <2>2, <2>3, <2>4, <2>5, <2>6 DEF TypeInv
<1>5. StackInv'
  BY <1>1, <1>2, StackStep DEF Label
<1>6. GuardInv'
  BY <1>1, <1>2, GuardStep DEF Label
<1>7. \A g \in Frame : Inside(g)' <=> Inside(g)
  BY <1>1, <1>2, <1>3 DEF TypeInv, Inside
<1>8. FlagTracksCall'
  BY <1>2, <1>7 DEF IInv, FlagTracksCall
<1>9. /\ size'[f] = 0 /\ done'[f] = 0 /\ \A b \in 1..MaxLen : written'[f][b] = 0
  BY <1>1, <1>2 DEF TypeInv
<1>10. ResultOK(f)' /\ Filled(f)' /\ Whole(f)'
  BY <1>3, <1>9, DepthAssumption DEF ResultOK, Filled, Whole
<1>11. \A g \in Frame \ {f} :
         /\ pc'[g] = pc[g] /\ whole'[g] = whole[g] /\ size'[g] = size[g]
         /\ done'[g] = done[g] /\ result'[g] = result[g]
         /\ written'[g] = written[g] /\ answer'[g] = answer[g]
  BY <1>1, <1>2, <1>3 DEF TypeInv
<1>12. FrameInv'
  BY <1>1, <1>10, <1>11, FrameStep
<1> QED
  BY <1>4, <1>5, <1>6, <1>8, <1>12 DEF IInv

LEMMA InitIInv == Init => IInv
<1> SUFFICES ASSUME Init PROVE IInv
  OBVIOUS
<1>1. FillInit
  BY DEF Init
<1>2. TypeInv
  <2>1. 0 \in 0..MaxLen /\ 0 \in -4095..MaxLen /\ "idle" \in Label
    BY DepthAssumption DEF Label
  <2>2. /\ pc \in [Frame -> Label] /\ size \in [Frame -> 0..MaxLen]
        /\ done \in [Frame -> 0..MaxLen] /\ result \in [Frame -> -4095..MaxLen]
    BY <1>1, <2>1 DEF FillInit
  <2>3. whole \in [Frame -> BOOLEAN] /\ inflight \in BOOLEAN
    BY <1>1 DEF FillInit
  <2>4. /\ written \in [Frame -> [1..MaxLen -> Nat]]
        /\ answer \in [Frame -> {"none", "ok", "errno", "panic"} \X Nat]
    BY <1>1 DEF FillInit
  <2> QED
    BY <2>2, <2>3, <2>4 DEF TypeInv
<1>3. StackInv /\ GuardInv
  BY <1>1 DEF FillInit, StackInv, GuardInv, Inside
<1>4. FlagTracksCall
  BY <1>1 DEF FillInit, FlagTracksCall, Inside
<1>5. FrameInv
  BY <1>1, DepthAssumption DEF FillInit, FrameInv, ResultOK, Filled, Whole
<1> QED
  BY <1>2, <1>3, <1>4, <1>5 DEF IInv

LEMMA Untouched ==
  ASSUME IInv, UNCHANGED fvars
  PROVE  IInv'
<1>1. TypeInv' /\ StackInv'
  BY DEF IInv, fvars, TypeInv, StackInv
<1>2. GuardInv' /\ FlagTracksCall'
  BY DEF IInv, fvars, GuardInv, FlagTracksCall, Inside
<1>3. FrameInv'
  BY DEF IInv, fvars, FrameInv, ResultOK, Filled, Whole
<1> QED
  BY <1>1, <1>2, <1>3 DEF IInv

LEMMA NextIInv == IInv /\ [Next]_rngVars => IInv'
<1> SUFFICES ASSUME IInv, [Next]_rngVars PROVE IInv'
  OBVIOUS
<1>1. CASE Looking \/ PoolNew \/ UNCHANGED rngVars
  BY <1>1, Untouched DEF Looking, PoolNew, rngVars
<1>2. CASE Filling(FillNext)
  <2> SUFFICES ASSUME NEW f \in Frame, Call(f) \/ Step(f) \/ Vgetrandom(f) PROVE IInv'
    BY <1>2 DEF Filling, FillNext
  <2> QED
    BY CallStep, LoopStep, CheckStep, RaiseStep, LowerStep, ExitStep, VgetrandomStep DEF Step
<1> QED
  BY <1>1, <1>2 DEF Next

---------------------------------------------------------------------------
(* What follows *)

\* Every reachable state satisfies the invariant, however deeply signal handlers
\* interrupt each other and whatever the vDSO function answers.
THEOREM InductiveInvariant == Spec => []IInv
  BY InitIInv, NextIInv, PTL DEF Spec

\* In a debug build no two calls are inside the vDSO function with one state: the
\* assertion of try_fill catches a handler wherever it interrupts.
THEOREM OneInside == Spec => []NoReentrancy
<1>1. IInv => NoReentrancy
  BY DepthAssumption DEF IInv, GuardInv, NoReentrancy, Inside
<1> QED
  BY <1>1, InductiveInvariant, PTL

\* The flag is up exactly while a call is inside, after errors and detected
\* reentrancy too.
THEOREM FlagExact == Spec => []FlagTracksCall
  BY InductiveInvariant, PTL DEF IInv

\* The bytes of a buffer are written once each and in order, whatever is short,
\* retried or interrupted.
THEOREM InOrder == Spec => []FilledInOrder
<1>1. IInv => FilledInOrder
  BY DEF IInv, FrameInv, Filled, FilledInOrder
<1> QED
  BY <1>1, InductiveInvariant, PTL

\* fill returns Ok with the whole buffer only, and no error that it could retry.
THEOREM WholeOrFatal == Spec => []FillIsWhole
<1>1. IInv => FillIsWhole
  BY DEF IInv, FrameInv, Whole, FillIsWhole
<1> QED
  BY <1>1, InductiveInvariant, PTL

=============================================================================
