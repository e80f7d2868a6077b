------------------------------- MODULE Config -------------------------------
(***************************************************************************)
(* vdso-rng: the sizes that Config::new derives from the page size, from   *)
(* what the vDSO says of its opaque states and from a guess at the number  *)
(* of processors; and where Pool::grow puts the states of a block.         *)
(* Division by a zero size panics in the code and has no value here.       *)
(***************************************************************************)
EXTENDS Integers

\* utils::guess_cpu_count: res is what sched_getaffinity returned, bits how many
\* bits are set in the mask.  The result is never zero.
GuessCpuCount(res, bits) == IF res <= 0 \/ bits = 0 THEN 1 ELSE bits

\* A wrong Config::new: the block is rounded down to whole pages.
NewConfigTight(cpus, size, page) ==
  [page_size       |-> page, size |-> size,
   pages_per_block |-> (cpus * size) \div page,
   states_per_page |-> page \div size]

\* Config::new: a block is the guessed bytes and what is missing to the next
\* page boundary, a whole page if they end on one.
NewConfig(cpus, size, page) ==
  LET guessed_bytes == cpus * size
      aligned_bytes == guessed_bytes + (page - (guessed_bytes % page))
  IN  [page_size       |-> page, size |-> size,
       pages_per_block |-> aligned_bytes \div page,
       states_per_page |-> page \div size]

StatesPerBlock(c) == c.pages_per_block * c.states_per_page

\* What grow asks of mmap.
BlockBytes(c) == c.page_size * c.pages_per_block

\* grow's loops: the offset in its block of the i-th state, page by page.
Offset(c, i) == ((i - 1) \div c.states_per_page) * c.page_size
                  + ((i - 1) % c.states_per_page) * c.size

\* A state lies inside its block and does not straddle two pages.
FitsBlock(c, o) ==
  /\ o >= 0 /\ o + c.size <= BlockBytes(c)
  /\ o \div c.page_size = (o + c.size - 1) \div c.page_size

=============================================================================
