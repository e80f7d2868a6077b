------------------------------- MODULE MCPool -------------------------------
(* Small instances of Pool for TLC. *)
EXTENDS Pool

\* sched_getaffinity fails (one processor is assumed), or finds three.
MCAffinity == {<<-22, 0>>, <<8, 3>>}

===========================================================================
