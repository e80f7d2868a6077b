------------------------------ MODULE VdsoRng ------------------------------
(***************************************************************************)
(* vdso-rng, from Pool::new to the bytes: the lookup of the vDSO function, *)
(* then calls of fill and try_fill on a LocalState of the pool.  Sizing    *)
(* and renting the states in between are modules Config and Pool.          *)
(***************************************************************************)
EXTENDS VdsoLookup, Fill

VARIABLE function  \* Config.function, or None while there is no pool

rngVars == <<lvars, fvars, function>>

Init == LookupInit /\ FillInit /\ function = None

\* Pool::new returns NotSupported, or keeps the function.  What the lookup has
\* used is gone.
PoolNew ==
  /\ at = "done"
  /\ IF found = None
     THEN at' = "refused" /\ UNCHANGED function
     ELSE at' = "open" /\ function' = found[1]
  /\ saved' = <<>> /\ found' = None
  /\ index' = 1 /\ func' = None /\ page_size' = None /\ elf' = None /\ symbol_count' = 0
  /\ i' = 1 /\ v' = 1 /\ vdso_addr' = None /\ vdso_dyn' = None
  /\ table' = [tag \in Tags |-> None]
  /\ UNCHANGED fvars

Looking    == LookupStep /\ UNCHANGED <<fvars, function>>
Filling(A) == at = "open" /\ A /\ UNCHANGED <<lvars, function>>

Next == Looking \/ PoolNew \/ Filling(FillNext)

Spec == Init /\ [][Next]_rngVars

\* Pool::new runs to its end.  A call that is interrupted again and again still
\* runs, and EAGAIN, EINTR and empty reads come to an end: with GRND_NONBLOCK
\* nothing else would end fill.
FairSpec ==
  /\ Spec
  /\ WF_rngVars(Looking \/ PoolNew)
  /\ \A f \in Frame : SF_rngVars(Filling(Step(f))) /\ SF_rngVars(Filling(Progress(f)))

---------------------------------------------------------------------------
\* Every variable has its type; in particular the iterators of the lookup stay in
\* the box, the tables and the lists they run over, and no fill runs past its buffer.
TypeOK == LookupTypeOK /\ FillTypeOK /\ function \in {None} \cup 0..(Space - 1)

============================================================================
