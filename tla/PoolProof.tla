----------------------------- MODULE PoolProof -----------------------------
(***************************************************************************)
(* Proofs about Pool, for every number of threads and processors and every *)
(* size of page and state: states in use never share a byte.               *)
(***************************************************************************)
EXTENDS Pool, FiniteSetTheorems, TLAPS

---------------------------------------------------------------------------
(* The layout of a block *)

\* A configuration whose states fit on their pages.
GoodConfig(c) ==
  /\ c.page_size \in Nat \ {0} /\ c.size \in Nat \ {0}
  /\ c.pages_per_block \in Nat \ {0} /\ c.states_per_page \in Nat \ {0}
  /\ c.states_per_page * c.size <= c.page_size

LEMMA Quotient ==
  ASSUME NEW a \in Nat, NEW b \in Nat \ {0}
  PROVE  /\ a \div b \in Nat /\ a % b \in 0..(b - 1)
         /\ a = b * (a \div b) + (a % b)
  OBVIOUS

LEMMA QuotientUnique ==
  ASSUME NEW a \in Nat, NEW b \in Nat \ {0}, NEW q \in Nat, NEW r \in 0..(b - 1),
         a = b * q + r
  PROVE  a \div b = q
  OBVIOUS

\* Config::new makes such a configuration if a state is no larger than a page.
LEMMA NewConfigGood ==
  ASSUME NEW cpus \in Nat \ {0}, NEW size \in Nat \ {0}, NEW page \in Nat, size <= page
  PROVE  /\ GoodConfig(NewConfig(cpus, size, page))
         /\ NewConfig(cpus, size, page).size = size
         /\ NewConfig(cpus, size, page).page_size = page
<1> DEFINE guessed == cpus * size
           aligned == guessed + (page - (guessed % page))
<1>0. page \in Nat \ {0}
  OBVIOUS
<1>1. guessed \in Nat
  OBVIOUS
<1>2. guessed % page \in 0..(page - 1)
  BY <1>0, <1>1, Quotient
<1>3. aligned \in Nat /\ aligned >= page
  BY <1>1, <1>2
<1> HIDE DEF guessed
<1>4. aligned \div page \in Nat /\ aligned \div page >= 1
  <2> HIDE DEF aligned
  <2>1. /\ aligned \div page \in Nat /\ aligned % page \in 0..(page - 1)
        /\ aligned = page * (aligned \div page) + (aligned % page)
    BY <1>0, <1>3, Quotient
  <2> QED
    BY <1>0, <1>3, <2>1
<1>5. /\ page \div size \in Nat /\ page \div size >= 1
      /\ (page \div size) * size <= page
  <2>1. /\ page \div size \in Nat /\ page % size \in 0..(size - 1)
        /\ page = size * (page \div size) + (page % size)
    BY Quotient
  <2> QED
    BY <2>1
<1> QED
  BY <1>4, <1>5 DEF NewConfig, GoodConfig, guessed

LEMMA Monotone ==
  ASSUME NEW a \in Nat, NEW b \in Nat, NEW n \in Nat, a <= b
  PROVE  a * n <= b * n
  OBVIOUS

\* The page and the place on it of the i-th state of a block, and its offset.
LEMMA Place ==
  ASSUME NEW c, GoodConfig(c), NEW i \in 1..StatesPerBlock(c)
  PROVE  \E q \in 0..(c.pages_per_block - 1), r \in 0..(c.states_per_page - 1) :
           /\ i = c.states_per_page * q + r + 1
           /\ Offset(c, i) = q * c.page_size + r * c.size
<1> DEFINE n == c.states_per_page
           q == (i - 1) \div n
           r == (i - 1) % n
<1>1. n \in Nat \ {0} /\ c.pages_per_block \in Nat \ {0}
  BY DEF GoodConfig
<1>2. i - 1 \in Nat /\ i - 1 < c.pages_per_block * n
  BY <1>1 DEF StatesPerBlock
<1>3. q \in Nat /\ r \in 0..(n - 1) /\ i - 1 = n * q + r
  BY <1>1, <1>2, Quotient
<1>4. Offset(c, i) = q * c.page_size + r * c.size
  BY DEF Offset
<1> HIDE DEF n, q, r
<1>5. q <= c.pages_per_block - 1
  <2> SUFFICES ASSUME q >= c.pages_per_block PROVE FALSE
    BY <1>1, <1>3
  <2>1. c.pages_per_block * n <= q * n
    BY <1>1, <1>3, Monotone
  <2> QED
    BY <1>1, <1>2, <1>3, <2>1
<1>6. q \in 0..(c.pages_per_block - 1) /\ r \in 0..(n - 1) /\ i = n * q + r + 1
  BY <1>1, <1>2, <1>3, <1>5
<1> QED
  BY <1>4, <1>6 DEF n

\* A state lies on one page inside its block.
LEMMA Fits ==
  ASSUME NEW c, GoodConfig(c), NEW i \in 1..StatesPerBlock(c)
  PROVE  Offset(c, i) \in Nat /\ FitsBlock(c, Offset(c, i))
<1> DEFINE n == c.states_per_page
           P == c.page_size
           S == c.size
           k == c.pages_per_block
           o == Offset(c, i)
<1>1. /\ n \in Nat \ {0} /\ P \in Nat \ {0} /\ S \in Nat \ {0} /\ k \in Nat \ {0}
      /\ n * S <= P
  BY DEF GoodConfig
<1>2. PICK q \in 0..(k - 1), r \in 0..(n - 1) : o = q * P + r * S
  BY Place
<1>3. FitsBlock(c, o) <=> o >= 0 /\ o + S <= P * k /\ o \div P = (o + S - 1) \div P
  BY DEF FitsBlock, BlockBytes
<1> HIDE DEF n, P, S, k, o
<1>4. q \in Nat /\ r \in Nat /\ q + 1 <= k /\ r + 1 <= n
  BY <1>1, <1>2
<1>5. r * S \in Nat /\ r * S + S <= P
  <2>1. (r + 1) * S <= n * S
    BY <1>1, <1>4, Monotone
  <2>2. (r + 1) * S = r * S + S /\ r * S \in Nat
    BY <1>1, <1>4
  <2> QED
    BY <1>1, <1>4, <2>1, <2>2
<1>6. q * P \in Nat /\ q * P + P <= P * k
  <2>1. (q + 1) * P <= k * P
    BY <1>1, <1>4, Monotone
  <2>2. (q + 1) * P = q * P + P /\ q * P \in Nat /\ k * P = P * k
    BY <1>1, <1>4
  <2> QED
    BY <1>1, <2>1, <2>2
<1>7. o \in Nat /\ o + S <= P * k
  BY <1>1, <1>2, <1>5, <1>6
<1>8. o \div P = q
  <2>1. o = P * q + r * S /\ r * S \in 0..(P - 1)
    BY <1>1, <1>2, <1>4, <1>5
  <2> QED
    BY <1>1, <1>4, <1>7, <2>1, QuotientUnique
<1>9. (o + S - 1) \div P = q
  <2> DEFINE e == r * S + S - 1
  <2>1. e \in 0..(P - 1)
    BY <1>1, <1>5
  <2>2. o + S - 1 = P * q + e /\ o + S - 1 \in Nat
    BY <1>1, <1>2, <1>4, <1>5, <1>7
  <2> HIDE DEF e
  <2> QED
    BY <1>1, <1>4, <2>1, <2>2, QuotientUnique
<1>10. FitsBlock(c, o)
  BY <1>3, <1>7, <1>8, <1>9
<1> QED
  BY <1>7, <1>10 DEF o

\* Two states of a block have no byte in common.
LEMMA Apart ==
  ASSUME NEW c, GoodConfig(c),
         NEW i \in 1..StatesPerBlock(c), NEW j \in 1..StatesPerBlock(c), i # j
  PROVE  \/ Offset(c, i) + c.size <= Offset(c, j)
         \/ Offset(c, j) + c.size <= Offset(c, i)
<1> DEFINE n == c.states_per_page
           P == c.page_size
           S == c.size
<1>1. /\ n \in Nat \ {0} /\ P \in Nat \ {0} /\ S \in Nat \ {0} /\ n * S <= P
      /\ c.pages_per_block \in Nat
  BY DEF GoodConfig
<1>2. PICK qi \in 0..(c.pages_per_block - 1), ri \in 0..(n - 1) :
        i = n * qi + ri + 1 /\ Offset(c, i) = qi * P + ri * S
  BY Place
<1>3. PICK qj \in 0..(c.pages_per_block - 1), rj \in 0..(n - 1) :
        j = n * qj + rj + 1 /\ Offset(c, j) = qj * P + rj * S
  BY Place
<1> HIDE DEF n, P, S
<1>4. ASSUME NEW q \in Nat, NEW r \in 0..(n - 1), NEW qq \in Nat, NEW rr \in 0..(n - 1),
             q < qq
      PROVE  q * P + r * S + S <= qq * P + rr * S
  <2>1. (r + 1) * S <= n * S /\ (r + 1) * S = r * S + S
    BY <1>1, Monotone
  <2>2. (q + 1) * P <= qq * P /\ (q + 1) * P = q * P + P
    BY <1>1, <1>4, Monotone
  <2>3. {n * S, r * S, rr * S, q * P, qq * P} \subseteq Nat
    BY <1>1
  <2> QED
    BY <1>1, <2>1, <2>2, <2>3
<1>5. ASSUME NEW q \in Nat, NEW r \in 0..(n - 1), NEW rr \in 0..(n - 1), r < rr
      PROVE  q * P + r * S + S <= q * P + rr * S
  <2>1. (r + 1) * S <= rr * S /\ (r + 1) * S = r * S + S
    BY <1>1, <1>5, Monotone
  <2>2. {r * S, rr * S, q * P} \subseteq Nat
    BY <1>1
  <2> QED
    BY <1>1, <2>1, <2>2
<1>6. qi < qj \/ qj < qi \/ (qi = qj /\ (ri < rj \/ rj < ri))
  <2>1. qi = qj => ri # rj
    BY <1>2, <1>3
  <2> QED
    BY <1>1, <2>1
<1>7. qi \in Nat /\ qj \in Nat
  BY <1>1
<1> QED
  BY <1>2, <1>3, <1>4, <1>5, <1>6, <1>7 DEF S

---------------------------------------------------------------------------
(* Sequences as sets *)

Injective(s) == \A i, j \in DOMAIN s : s[i] = s[j] => i = j

LEMMA SetOfSeq ==
  ASSUME NEW T, NEW s \in Seq(T)
  PROVE  SetOf(s) \subseteq T /\ (s = <<>> <=> SetOf(s) = {})
<1>1. /\ DOMAIN s = 1..Len(s) /\ Len(s) \in Nat /\ \A i \in 1..Len(s) : s[i] \in T
      /\ s = <<>> <=> Len(s) = 0
  OBVIOUS
<1>2. SetOf(s) \subseteq T
  BY <1>1 DEF SetOf
<1>3. ASSUME s # <<>> PROVE s[1] \in SetOf(s)
  BY <1>1, <1>3 DEF SetOf
<1>4. ASSUME s = <<>> PROVE SetOf(s) = {}
  BY <1>1, <1>4 DEF SetOf
<1> QED
  BY <1>2, <1>3, <1>4

LEMMA SetOfAppend ==
  ASSUME NEW T, NEW s \in Seq(T), NEW x \in T
  PROVE  /\ Append(s, x) \in Seq(T) /\ Append(s, x) # <<>>
         /\ SetOf(Append(s, x)) = SetOf(s) \cup {x}
         /\ Injective(s) /\ x \notin SetOf(s) => Injective(Append(s, x))
<1>1. /\ Append(s, x) \in Seq(T) /\ Len(Append(s, x)) = Len(s) + 1
      /\ \A i \in 1..Len(s) : Append(s, x)[i] = s[i]
      /\ Append(s, x)[Len(s) + 1] = x
      /\ DOMAIN s = 1..Len(s) /\ DOMAIN Append(s, x) = 1..(Len(s) + 1) /\ Len(s) \in Nat
  OBVIOUS
<1>2. SetOf(Append(s, x)) = SetOf(s) \cup {x}
  BY <1>1 DEF SetOf
<1>3. Injective(s) /\ x \notin SetOf(s) => Injective(Append(s, x))
  BY <1>1 DEF SetOf, Injective
<1> QED
  BY <1>1, <1>2, <1>3

LEMMA SetOfTail ==
  ASSUME NEW T, NEW s \in Seq(T), s # <<>>
  PROVE  /\ Head(s) \in SetOf(s) /\ Tail(s) \in Seq(T)
         /\ SetOf(s) = SetOf(Tail(s)) \cup {Head(s)}
         /\ Injective(s) => Injective(Tail(s)) /\ Head(s) \notin SetOf(Tail(s))
         /\ Len(s) = 1 <=> Tail(s) = <<>>
<1>1. /\ Tail(s) \in Seq(T) /\ Len(Tail(s)) = Len(s) - 1 /\ Len(s) \in Nat \ {0}
      /\ \A i \in 1..(Len(s) - 1) : Tail(s)[i] = s[i + 1]
      /\ Head(s) = s[1]
      /\ DOMAIN s = 1..Len(s) /\ DOMAIN Tail(s) = 1..(Len(s) - 1)
  OBVIOUS
<1>2. \A i \in 1..Len(s) : i = 1 \/ (i - 1 \in 1..(Len(s) - 1) /\ s[i] = Tail(s)[i - 1])
  BY <1>1
<1>3. SetOf(s) = SetOf(Tail(s)) \cup {Head(s)}
  <2>1. ASSUME NEW i \in DOMAIN s PROVE s[i] \in SetOf(Tail(s)) \cup {Head(s)}
    BY <1>1, <1>2 DEF SetOf
  <2>2. ASSUME NEW i \in DOMAIN Tail(s) PROVE Tail(s)[i] \in SetOf(s)
    <3>1. i + 1 \in DOMAIN s /\ Tail(s)[i] = s[i + 1]
      BY <1>1
    <3> QED
      BY <3>1 DEF SetOf
  <2>3. Head(s) \in SetOf(s)
    BY <1>1 DEF SetOf
  <2> QED
    BY <2>1, <2>2, <2>3 DEF SetOf
<1>4. Injective(s) => Injective(Tail(s)) /\ Head(s) \notin SetOf(Tail(s))
  BY <1>1 DEF SetOf, Injective
<1>5. \A q \in Seq(T) : q = <<>> <=> Len(q) = 0
  OBVIOUS
<1>6. Len(s) = 1 <=> Tail(s) = <<>>
  BY <1>1, <1>5
<1>7. Head(s) \in SetOf(s)
  BY <1>3
<1> QED
  BY <1>1, <1>3, <1>4, <1>6, <1>7

\* The states of a new block, in the order in which grow pushes them.
LEMMA NewStatesFacts ==
  ASSUME GoodConfig(config), NEW b \in Address
  PROVE  /\ NewStates(b) \in Seq(State) /\ NewStates(b) # <<>>
         /\ SetOf(NewStates(b)) = States(b) /\ States(b) \subseteq State
         /\ Injective(NewStates(b))
<1>1. PerBlock \in Nat \ {0}
  BY DEF GoodConfig, PerBlock, StatesPerBlock
<1>2. \A i \in 1..PerBlock : Offset(config, i) \in Nat
  BY Fits DEF PerBlock
<1>3. NewStates(b) \in Seq(State) /\ DOMAIN NewStates(b) = 1..PerBlock
  BY <1>1, <1>2 DEF NewStates, State
<1>4. NewStates(b) # <<>>
  BY <1>1, <1>3
<1>5. SetOf(NewStates(b)) = States(b) /\ States(b) \subseteq State
  BY <1>2, <1>3 DEF SetOf, NewStates, States, State
<1>6. ASSUME NEW i \in 1..PerBlock, NEW j \in 1..PerBlock, i # j
      PROVE  Offset(config, i) # Offset(config, j)
  <2>1. \/ Offset(config, i) + config.size <= Offset(config, j)
        \/ Offset(config, j) + config.size <= Offset(config, i)
    BY <1>6, Apart DEF PerBlock
  <2>2. config.size \in Nat \ {0}
    BY DEF GoodConfig
  <2> QED
    BY <1>2, <2>1, <2>2
<1>7. Injective(NewStates(b))
  BY <1>3, <1>6 DEF Injective, NewStates
<1> QED
  BY <1>3, <1>4, <1>5, <1>7

\* mmap finds a place that is not in use.
LEMMA FreshFacts ==
  ASSUME mapped \subseteq Nat \ {0}, IsFiniteSet(mapped)
  PROVE  Fresh \in Nat \ {0} /\ Fresh \notin mapped
<1> DEFINE m == Cardinality(mapped)
           I == 1..(m + 1)
<1>1. m \in Nat
  BY FS_CardinalityType
<1>2. IsFiniteSet(I) /\ Cardinality(I) = m + 1
  <2> HIDE DEF m
  <2> QED
    BY <1>1, FS_Interval, m + 1 \in Int, 1 \in Int
<1>3. \E b \in I : b \notin mapped
  <2> SUFFICES ASSUME I \subseteq mapped PROVE FALSE
    OBVIOUS
  <2>1. Cardinality(I) <= m
    <3> HIDE DEF I
    <3> QED
      BY FS_Subset
  <2> QED
    BY <1>1, <1>2, <2>1
<1>4. Fresh \in I /\ Fresh \notin mapped
  BY <1>3 DEF Fresh
<1> HIDE DEF m
<1> QED
  BY <1>1, <1>4

---------------------------------------------------------------------------
(* The inductive invariant, for kernels that report failures as the code     *)
(* expects                                                                   *)

FailuresAreSeen == \A e \in Errno : MmapFailed(-e)

TypeInv ==
  /\ config \in [page_size : PageSizes, size : {StateSize},
                 pages_per_block : Nat \ {0}, states_per_page : Nat \ {0}]
  /\ GoodConfig(config)
  /\ freelist \in Seq(State) /\ mmaps \in Seq(Address)
  /\ rented \in [Thread -> SUBSET State] /\ forgotten \subseteq State
  /\ todo \in [Thread -> Seq(State)]
  /\ pc \in [Thread -> {"idle", "pop", "wait", "retry", "map", "push", "leave"}]
  /\ failed \in [Thread -> BOOLEAN] /\ dropped \in BOOLEAN

\* Until the pool is dropped, the blocks that are recorded are those mapped.
BlockInv ==
  /\ mapped \subseteq Nat \ {0} /\ IsFiniteSet(mapped)
  /\ ~dropped => SetOf(mmaps) = mapped

\* A state is in one place: free once, rented by one thread, leaked, or to be
\* pushed once by one thread.
FreeInv ==
  /\ Injective(freelist)
  /\ forgotten \cap SetOf(freelist) = {}
RentedInv ==
  \A t \in Thread : /\ rented[t] \cap (SetOf(freelist) \cup forgotten) = {}
                    /\ \A u \in Thread \ {t} : rented[t] \cap rented[u] = {}
TodoInv ==
  \A t \in Thread :
    /\ Injective(todo[t])
    /\ SetOf(todo[t]) \cap (SetOf(freelist) \cup forgotten) = {}
    /\ \A u \in Thread : /\ SetOf(todo[t]) \cap rented[u] = {}
                         /\ u # t => SetOf(todo[t]) \cap SetOf(todo[u]) = {}

\* A thread has states to push exactly while it pushes, and a dropped pool is
\* not used any more.
UseInv ==
  /\ \A t \in Thread : pc[t] = "push" <=> todo[t] # <<>>
  /\ dropped => /\ freelist = <<>>
                /\ \A t \in Thread : pc[t] = "idle" /\ rented[t] = {}

IInv == TypeInv /\ BlockInv /\ FreeInv /\ RentedInv /\ TodoInv /\ UseInv /\ Conservation

---------------------------------------------------------------------------
\* What Conservation says of a state is where it is.
Places(free, lost, held, due) ==
  SetOf(free) \cup lost \cup UNION {held[t] \cup SetOf(due[t]) : t \in Thread}

LEMMA InPlaces ==
  ASSUME NEW free, NEW lost, NEW held, NEW due
  PROVE  \A s : s \in Places(free, lost, held, due) <=>
           \/ s \in SetOf(free) \/ s \in lost
           \/ \E t \in Thread : s \in held[t] \/ s \in SetOf(due[t])
  BY DEF Places

\* A step that keeps every state somewhere keeps Conservation.
Somewhere(s) == \/ s \in SetOf(freelist) \/ s \in forgotten
                \/ \E t \in Thread : s \in rented[t] \/ s \in SetOf(todo[t])

LEMMA Conserved ==
  ASSUME Conservation, UNCHANGED <<config, mmaps, dropped>>,
         \A s : Somewhere(s)' <=> Somewhere(s)
  PROVE  Conservation'
<1>1. \A s : s \in Places(freelist', forgotten', rented', todo') <=> Somewhere(s)'
  BY InPlaces DEF Somewhere
<1>2. \A s : s \in Places(freelist, forgotten, rented, todo) <=> Somewhere(s)
  BY InPlaces DEF Somewhere
<1>3. Places(freelist', forgotten', rented', todo') = Places(freelist, forgotten, rented, todo)
  BY <1>1, <1>2
<1> QED
  BY <1>3 DEF Conservation, Places, States, PerBlock

\* Steps that move a state only change pc and what the step lemmas name.
PlaceInv == FreeInv /\ RentedInv /\ TodoInv

\* What is due to be pushed only shrinks, and meets nothing new.
LEMMA TodoKept ==
  ASSUME TodoInv,
         \A t \in Thread : Injective(todo'[t]) /\ SetOf(todo'[t]) \subseteq SetOf(todo[t]),
         \A t \in Thread : \A s \in SetOf(todo'[t]) :
           /\ s \notin SetOf(freelist') /\ s \notin forgotten'
           /\ \A u \in Thread : s \notin rented'[u]
  PROVE  TodoInv'
<1> SUFFICES ASSUME NEW t \in Thread
             PROVE  /\ Injective(todo'[t])
                    /\ SetOf(todo'[t]) \cap (SetOf(freelist') \cup forgotten') = {}
                    /\ \A u \in Thread : /\ SetOf(todo'[t]) \cap rented'[u] = {}
                                         /\ u # t => SetOf(todo'[t]) \cap SetOf(todo'[u]) = {}
  BY DEF TodoInv
<1>1. SetOf(todo'[t]) \cap (SetOf(freelist') \cup forgotten') = {}
  OBVIOUS
<1>2. \A u \in Thread : SetOf(todo'[t]) \cap rented'[u] = {}
  OBVIOUS
<1>3. \A u \in Thread : u # t => SetOf(todo'[t]) \cap SetOf(todo'[u]) = {}
  BY DEF TodoInv
<1> QED
  BY <1>1, <1>2, <1>3

LEMMA TakeStep ==
  ASSUME IInv, NEW t \in Thread, freelist # <<>>, Take(t),
         UNCHANGED <<config, mmaps, mapped, forgotten, todo, dropped>>
  PROVE  /\ freelist' \in Seq(State) /\ rented' \in [Thread -> SUBSET State]
         /\ PlaceInv' /\ Conservation'
<1> DEFINE h == Head(freelist)
<1>1. freelist \in Seq(State) /\ rented \in [Thread -> SUBSET State]
  BY DEF IInv, TypeInv
<1>2. freelist' = Tail(freelist) /\ rented' = [rented EXCEPT ![t] = @ \cup {h}]
  BY DEF Take
<1>3. /\ h \in SetOf(freelist) /\ freelist' \in Seq(State)
      /\ SetOf(freelist) = SetOf(freelist') \cup {h}
      /\ Injective(freelist) => Injective(freelist') /\ h \notin SetOf(freelist')
  BY <1>1, <1>2, SetOfTail
<1>4. h \in State
  BY <1>1, <1>3, SetOfSeq
<1> HIDE DEF h
<1>5. rented' \in [Thread -> SUBSET State]
  BY <1>1, <1>2, <1>4
<1>6. /\ \A u \in Thread \ {t} : rented'[u] = rented[u]
      /\ rented'[t] = rented[t] \cup {h}
  BY <1>1, <1>2
<1>7. Injective(freelist') /\ h \notin SetOf(freelist') /\ h \notin forgotten
  BY <1>3 DEF IInv, FreeInv
<1>8. FreeInv'
  BY <1>3, <1>7 DEF IInv, FreeInv
<1>9. \A u \in Thread : h \notin rented[u] /\ h \notin SetOf(todo[u])
  BY <1>3 DEF IInv, RentedInv, TodoInv
<1>10. RentedInv'
  BY <1>3, <1>6, <1>7, <1>9 DEF IInv, RentedInv
<1>11. TodoInv'
  <2>1. \A u \in Thread : \A x \in SetOf(todo[u]) :
          /\ x \notin SetOf(freelist) /\ x \notin forgotten
          /\ \A v \in Thread : x \notin rented[v]
    BY DEF IInv, TodoInv
  <2>2. \A u \in Thread : \A x \in SetOf(todo'[u]) :
          /\ x \notin SetOf(freelist') /\ x \notin forgotten'
          /\ \A v \in Thread : x \notin rented'[v]
    BY <1>3, <1>6, <1>7, <1>9, <2>1
  <2>3. \A u \in Thread : Injective(todo'[u]) /\ SetOf(todo'[u]) \subseteq SetOf(todo[u])
    BY DEF IInv, TodoInv
  <2> QED
    BY <2>2, <2>3, TodoKept DEF IInv
<1>12. \A s : Somewhere(s)' <=> Somewhere(s)
  BY <1>3, <1>6 DEF Somewhere
<1>13. Conservation'
  BY <1>12, Conserved DEF IInv
<1> QED
  BY <1>3, <1>5, <1>8, <1>10, <1>11, <1>13 DEF PlaceInv

LEMMA RecycleStep ==
  ASSUME IInv, NEW t \in Thread, Recycle(t)
  PROVE  /\ freelist' \in Seq(State) /\ rented' \in [Thread -> SUBSET State]
         /\ PlaceInv' /\ Conservation'
<1>1. freelist \in Seq(State) /\ rented \in [Thread -> SUBSET State]
  BY DEF IInv, TypeInv
<1>2. PICK s \in rented[t] : /\ rented' = [rented EXCEPT ![t] = @ \ {s}]
                            /\ freelist' = Append(freelist, s)
  BY DEF Recycle
<1>3. UNCHANGED <<config, mmaps, mapped, forgotten, todo, dropped>>
  BY DEF Recycle
<1>4. s \in State /\ s \notin SetOf(freelist) /\ s \notin forgotten
  BY <1>1, <1>2 DEF IInv, RentedInv
<1>5. /\ freelist' \in Seq(State) /\ SetOf(freelist') = SetOf(freelist) \cup {s}
      /\ Injective(freelist')
  BY <1>1, <1>2, <1>4, SetOfAppend DEF IInv, FreeInv
<1>6. /\ \A u \in Thread \ {t} : rented'[u] = rented[u] /\ s \notin rented[u]
      /\ rented'[t] = rented[t] \ {s}
  BY <1>1, <1>2 DEF IInv, RentedInv
<1>7. \A u \in Thread : s \notin SetOf(todo[u])
  BY <1>2 DEF IInv, TodoInv
<1>8. rented' \in [Thread -> SUBSET State]
  BY <1>1, <1>2
<1>9. FreeInv'
  BY <1>3, <1>4, <1>5 DEF IInv, FreeInv
<1>10. RentedInv'
  BY <1>3, <1>5, <1>6 DEF IInv, RentedInv
<1>11. TodoInv'
  <2>1. \A u \in Thread : \A x \in SetOf(todo[u]) :
          /\ x \notin SetOf(freelist) /\ x \notin forgotten
          /\ \A v \in Thread : x \notin rented[v]
    BY DEF IInv, TodoInv
  <2>2. \A u \in Thread : \A x \in SetOf(todo'[u]) :
          /\ x \notin SetOf(freelist') /\ x \notin forgotten'
          /\ \A v \in Thread : x \notin rented'[v]
    BY <1>3, <1>5, <1>6, <1>7, <2>1
  <2>3. \A u \in Thread : Injective(todo'[u]) /\ SetOf(todo'[u]) \subseteq SetOf(todo[u])
    BY <1>3 DEF IInv, TodoInv
  <2> QED
    BY <2>2, <2>3, TodoKept DEF IInv
<1>12. \A x : Somewhere(x)' <=> Somewhere(x)
  BY <1>2, <1>3, <1>5, <1>6 DEF Somewhere
<1>13. Conservation'
  BY <1>3, <1>12, Conserved DEF IInv
<1> QED
  BY <1>5, <1>8, <1>9, <1>10, <1>11, <1>13 DEF PlaceInv

LEMMA ForgetStep ==
  ASSUME IInv, NEW t \in Thread, Forget(t)
  PROVE  /\ rented' \in [Thread -> SUBSET State] /\ forgotten' \subseteq State
         /\ PlaceInv' /\ Conservation'
<1>1. rented \in [Thread -> SUBSET State] /\ forgotten \subseteq State
  BY DEF IInv, TypeInv
<1>2. PICK s \in rented[t] : /\ rented' = [rented EXCEPT ![t] = @ \ {s}]
                            /\ forgotten' = forgotten \cup {s}
  BY DEF Forget
<1>3. UNCHANGED <<config, freelist, mmaps, mapped, todo, dropped>>
  BY DEF Forget, poolVars
<1>4. s \in State /\ s \notin SetOf(freelist)
  BY <1>1, <1>2 DEF IInv, RentedInv
<1>5. /\ \A u \in Thread \ {t} : rented'[u] = rented[u] /\ s \notin rented[u]
      /\ rented'[t] = rented[t] \ {s}
  BY <1>1, <1>2 DEF IInv, RentedInv
<1>6. \A u \in Thread : s \notin SetOf(todo[u])
  BY <1>2 DEF IInv, TodoInv
<1>7. rented' \in [Thread -> SUBSET State] /\ forgotten' \subseteq State
  BY <1>1, <1>2, <1>4
<1>8. FreeInv'
  BY <1>2, <1>3, <1>4 DEF IInv, FreeInv
<1>9. RentedInv'
  BY <1>2, <1>3, <1>5 DEF IInv, RentedInv
<1>10. TodoInv'
  <2>1. \A u \in Thread : \A x \in SetOf(todo[u]) :
          /\ x \notin SetOf(freelist) /\ x \notin forgotten
          /\ \A v \in Thread : x \notin rented[v]
    BY DEF IInv, TodoInv
  <2>2. \A u \in Thread : \A x \in SetOf(todo'[u]) :
          /\ x \notin SetOf(freelist') /\ x \notin forgotten'
          /\ \A v \in Thread : x \notin rented'[v]
    BY <1>2, <1>3, <1>5, <1>6, <2>1
  <2>3. \A u \in Thread : Injective(todo'[u]) /\ SetOf(todo'[u]) \subseteq SetOf(todo[u])
    BY <1>3 DEF IInv, TodoInv
  <2> QED
    BY <2>2, <2>3, TodoKept DEF IInv
<1>11. \A x : Somewhere(x)' <=> Somewhere(x)
  BY <1>2, <1>3, <1>5 DEF Somewhere
<1>12. Conservation'
  BY <1>3, <1>11, Conserved DEF IInv
<1> QED
  BY <1>7, <1>8, <1>9, <1>10, <1>12 DEF PlaceInv

LEMMA PushStep ==
  ASSUME IInv, NEW t \in Thread, Push(t)
  PROVE  /\ freelist' \in Seq(State) /\ todo' \in [Thread -> Seq(State)]
         /\ \A u \in Thread : pc'[u] = "push" <=> todo'[u] # <<>>
         /\ PlaceInv' /\ Conservation'
<1> DEFINE h == Head(todo[t])
<1>1. /\ freelist \in Seq(State) /\ todo \in [Thread -> Seq(State)]
      /\ todo[t] \in Seq(State) /\ todo[t] # <<>>
      /\ pc \in [Thread -> {"idle", "pop", "wait", "retry", "map", "push", "leave"}]
  BY DEF IInv, TypeInv, UseInv, Push
<1>2. /\ freelist' = Append(freelist, h) /\ todo' = [todo EXCEPT ![t] = Tail(@)]
      /\ pc' = [pc EXCEPT ![t] = IF Len(todo[t]) = 1 THEN "retry" ELSE "push"]
      /\ UNCHANGED <<config, mmaps, mapped, rented, forgotten, dropped>>
  BY DEF Push, Goto
<1>3. /\ h \in SetOf(todo[t]) /\ Tail(todo[t]) \in Seq(State)
      /\ SetOf(todo[t]) = SetOf(Tail(todo[t])) \cup {h}
      /\ Injective(Tail(todo[t])) /\ h \notin SetOf(Tail(todo[t]))
      /\ Len(todo[t]) = 1 <=> Tail(todo[t]) = <<>>
  BY <1>1, SetOfTail DEF IInv, TodoInv
<1>4. h \in State
  BY <1>1, <1>3, SetOfSeq
<1> HIDE DEF h
<1>5. /\ todo' \in [Thread -> Seq(State)]
      /\ \A u \in Thread \ {t} : todo'[u] = todo[u]
      /\ todo'[t] = Tail(todo[t])
  BY <1>1, <1>2, <1>3
<1>6. \A u \in Thread : pc'[u] = "push" <=> todo'[u] # <<>>
  <2>1. \A u \in Thread : pc[u] = "push" <=> todo[u] # <<>>
    BY DEF IInv, UseInv
  <2> QED
    BY <1>1, <1>2, <1>3, <1>5, <2>1
<1>7. /\ h \notin SetOf(freelist) /\ h \notin forgotten
      /\ \A u \in Thread : h \notin rented[u] /\ (u # t => h \notin SetOf(todo[u]))
  BY <1>3 DEF IInv, TodoInv
<1>8. /\ freelist' \in Seq(State) /\ SetOf(freelist') = SetOf(freelist) \cup {h}
      /\ Injective(freelist')
  BY <1>1, <1>2, <1>4, <1>7, SetOfAppend DEF IInv, FreeInv
<1>9. FreeInv'
  BY <1>2, <1>7, <1>8 DEF IInv, FreeInv
<1>10. RentedInv'
  BY <1>2, <1>7, <1>8 DEF IInv, RentedInv
<1>11. TodoInv'
  <2>1. \A u \in Thread : /\ Injective(todo'[u]) /\ SetOf(todo'[u]) \subseteq SetOf(todo[u])
                          /\ h \notin SetOf(todo'[u])
    BY <1>3, <1>5, <1>7 DEF IInv, TodoInv
  <2>2. \A u \in Thread : \A x \in SetOf(todo[u]) :
          /\ x \notin SetOf(freelist) /\ x \notin forgotten
          /\ \A v \in Thread : x \notin rented[v]
    BY DEF IInv, TodoInv
  <2>3. \A u \in Thread : \A x \in SetOf(todo'[u]) :
          /\ x \notin SetOf(freelist') /\ x \notin forgotten'
          /\ \A v \in Thread : x \notin rented'[v]
    BY <1>2, <1>8, <2>1, <2>2
  <2> QED
    BY <2>1, <2>3, TodoKept DEF IInv
<1>12. \A x : Somewhere(x)' <=> Somewhere(x)
  BY <1>2, <1>3, <1>5, <1>8 DEF Somewhere
<1>13. Conservation'
  BY <1>2, <1>12, Conserved DEF IInv
<1> QED
  BY <1>5, <1>6, <1>8, <1>9, <1>10, <1>11, <1>13 DEF PlaceInv

\* A block that has just been mapped: nothing in use lies in it.
LEMMA GrowStep ==
  ASSUME FailuresAreSeen, IInv, NEW t \in Thread, Grow(t)
  PROVE  IInv'
<1>1. /\ TypeInv /\ BlockInv /\ GoodConfig(config) /\ pc[t] = "map"
      /\ todo \in [Thread -> Seq(State)] /\ mmaps \in Seq(Address)
      /\ pc \in [Thread -> {"idle", "pop", "wait", "retry", "map", "push", "leave"}]
  BY DEF IInv, TypeInv, Grow
<1>2. ~dropped /\ todo[t] = <<>>
  BY <1>1 DEF IInv, UseInv
<1> DEFINE F == Fresh
<1>3. F \in Nat \ {0} /\ F \notin mapped /\ F \in Address
  BY <1>1, FreshFacts DEF BlockInv, Address
<1>4. /\ mapped' = mapped \cup {F} /\ mmaps' = Append(mmaps, F)
      /\ todo' = [todo EXCEPT ![t] = NewStates(F)]
  BY DEF Grow, FailuresAreSeen
<1>5. /\ pc' = [pc EXCEPT ![t] = "push"]
      /\ UNCHANGED <<config, freelist, rented, forgotten, failed, dropped>>
  BY DEF Grow, Goto
<1>6. /\ NewStates(F) \in Seq(State) /\ NewStates(F) # <<>>
      /\ SetOf(NewStates(F)) = States(F) /\ Injective(NewStates(F))
  BY <1>1, <1>3, NewStatesFacts
<1> HIDE DEF F
<1>7. mmaps' \in Seq(Address) /\ SetOf(mmaps') = SetOf(mmaps) \cup {F}
  BY <1>1, <1>3, <1>4, SetOfAppend
<1>8. /\ todo' \in [Thread -> Seq(State)]
      /\ \A u \in Thread \ {t} : todo'[u] = todo[u]
      /\ todo'[t] = NewStates(F)
  BY <1>1, <1>4, <1>6
<1>9. SetOf(todo[t]) = {}
  BY <1>2 DEF SetOf
<1>10. \A s : Somewhere(s) <=> \E b \in SetOf(mmaps) : s \in States(b)
  <2>1. \A s : s \in Places(freelist, forgotten, rented, todo) <=> Somewhere(s)
    BY InPlaces DEF Somewhere
  <2>2. UNION {States(b) : b \in SetOf(mmaps)} = Places(freelist, forgotten, rented, todo)
    BY <1>2 DEF IInv, Conservation, Places
  <2> QED
    BY <2>1, <2>2
<1>11. \A s \in States(F) : ~Somewhere(s)
  <2> SUFFICES ASSUME NEW s \in States(F), Somewhere(s) PROVE FALSE
    OBVIOUS
  <2>1. PICK b \in SetOf(mmaps) : s \in States(b)
    BY <1>10
  <2>2. s[1] = b /\ s[1] = F
    BY <2>1 DEF States
  <2> QED
    BY <1>1, <1>2, <1>3, <2>1, <2>2 DEF BlockInv
<1>12. TypeInv'
  BY <1>1, <1>5, <1>7, <1>8 DEF TypeInv, GoodConfig
<1>13. BlockInv'
  <2>1. IsFiniteSet(mapped \cup {F})
    BY <1>1, FS_AddElement DEF BlockInv
  <2> QED
    BY <1>1, <1>2, <1>3, <1>4, <1>5, <1>7, <2>1 DEF BlockInv
<1>14. FreeInv' /\ RentedInv'
  BY <1>5 DEF IInv, FreeInv, RentedInv
<1>15. TodoInv'
  <2>1. \A s \in States(F) : /\ s \notin SetOf(freelist) /\ s \notin forgotten
                             /\ \A u \in Thread : s \notin rented[u] /\ s \notin SetOf(todo[u])
    BY <1>11 DEF Somewhere
  <2>2. \A u \in Thread : Injective(todo'[u])
    BY <1>6, <1>8 DEF IInv, TodoInv
  <2>3. \A u \in Thread : /\ SetOf(todo'[u]) \cap (SetOf(freelist') \cup forgotten') = {}
                          /\ \A v \in Thread : SetOf(todo'[u]) \cap rented'[v] = {}
    BY <1>5, <1>6, <1>8, <2>1 DEF IInv, TodoInv
  <2>4. \A u, v \in Thread : v # u => SetOf(todo'[u]) \cap SetOf(todo'[v]) = {}
    <3>1. \A u \in Thread \ {t} : /\ States(F) \cap SetOf(todo[u]) = {}
                                 /\ todo'[u] = todo[u]
      BY <1>8, <2>1
    <3>2. \A u, v \in Thread \ {t} : v # u => SetOf(todo[u]) \cap SetOf(todo[v]) = {}
      BY DEF IInv, TodoInv
    <3>3. SetOf(todo'[t]) = States(F)
      BY <1>6, <1>8
    <3> QED
      BY <3>1, <3>2, <3>3
  <2> QED
    BY <2>2, <2>3, <2>4 DEF TodoInv
<1>16. UseInv'
  BY <1>1, <1>2, <1>5, <1>6, <1>8 DEF IInv, UseInv
<1>17. Conservation'
  <2>1. \A s : Somewhere(s)' <=> Somewhere(s) \/ s \in States(F)
    BY <1>5, <1>6, <1>8, <1>9 DEF Somewhere
  <2>2. \A s : s \in Places(freelist', forgotten', rented', todo') <=> Somewhere(s)'
    BY InPlaces DEF Somewhere
  <2>3. \A b : States(b)' = States(b)
    BY <1>5 DEF States, PerBlock
  <2>4. \A s : s \in UNION {States(b)' : b \in SetOf(mmaps')} <=> Somewhere(s)'
    BY <1>7, <1>10, <2>1, <2>3
  <2>5. UNION {States(b)' : b \in SetOf(mmaps')}
          = Places(freelist', forgotten', rented', todo')
    BY <2>2, <2>4
  <2> QED
    BY <2>5 DEF Conservation, Places
<1> QED
  BY <1>12, <1>13, <1>14, <1>15, <1>16, <1>17 DEF IInv

\* The steps that only move pc.
LEMMA QuietStep ==
  ASSUME IInv, NEW t \in Thread, pc[t] # "push", ~dropped,
         UNCHANGED <<poolVars, rented, forgotten, todo, dropped>>,
         NEW l \in {"idle", "pop", "wait", "retry", "map", "leave"},
         pc' = [pc EXCEPT ![t] = l], failed' \in [Thread -> BOOLEAN]
  PROVE  IInv'
<1>1. TypeInv'
  BY DEF IInv, TypeInv, poolVars, GoodConfig
<1>2. BlockInv' /\ FreeInv' /\ RentedInv' /\ TodoInv'
  BY DEF IInv, BlockInv, FreeInv, RentedInv, TodoInv, poolVars
<1>3. UseInv'
  BY DEF IInv, TypeInv, UseInv
<1>4. Conservation'
  BY DEF IInv, Conservation, poolVars, States, PerBlock
<1> QED
  BY <1>1, <1>2, <1>3, <1>4 DEF IInv

LEMMA DropStep ==
  ASSUME IInv, Drop
  PROVE  IInv'
<1>1. /\ freelist' = <<>> /\ mmaps' = <<>> /\ dropped' = TRUE
      /\ mapped' \subseteq mapped
      /\ UNCHANGED <<config, rented, forgotten, pc, todo, failed>>
      /\ \A t \in Thread : pc[t] = "idle" /\ rented[t] = {}
  BY DEF Drop
<1>2. mapped' \subseteq Nat \ {0} /\ IsFiniteSet(mapped')
  BY <1>1, FS_Subset DEF IInv, BlockInv
<1>3. SetOf(freelist') = {} /\ SetOf(mmaps') = {} /\ Injective(freelist')
  BY <1>1 DEF SetOf, Injective
<1>4. TypeInv'
  <2>1. freelist' \in Seq(State) /\ mmaps' \in Seq(Address)
    BY <1>1
  <2> QED
    BY <1>1, <2>1 DEF IInv, TypeInv, GoodConfig
<1>5. BlockInv'
  BY <1>1, <1>2 DEF BlockInv
<1>6. FreeInv' /\ RentedInv'
  BY <1>1, <1>3 DEF IInv, FreeInv, RentedInv
<1>7. TodoInv'
  BY <1>1, <1>3 DEF IInv, TodoInv
<1>8. UseInv'
  BY <1>1 DEF IInv, UseInv
<1>9. Conservation'
  BY <1>1 DEF Conservation
<1> QED
  BY <1>4, <1>5, <1>6, <1>7, <1>8, <1>9 DEF IInv

LEMMA InitIInv == Init => IInv
<1> SUFFICES ASSUME Init PROVE IInv
  OBVIOUS
<1>1. PICK a \in Affinity, page \in PageSizes :
        config = NewConfig(GuessCpuCount(a[1], a[2]), StateSize, page)
  BY DEF Init
<1>2. GuessCpuCount(a[1], a[2]) \in Nat \ {0}
  BY AffinityAssumption DEF GuessCpuCount
<1>3. GoodConfig(config) /\ config.size = StateSize /\ config.page_size = page
  BY <1>1, <1>2, NewConfigGood, SizeAssumption
<1>4. config \in [page_size : PageSizes, size : {StateSize},
                  pages_per_block : Nat \ {0}, states_per_page : Nat \ {0}]
  BY <1>1, <1>3 DEF NewConfig, GoodConfig
<1>5. /\ freelist = <<>> /\ mmaps = <<>> /\ mapped = {} /\ forgotten = {}
      /\ rented = [t \in Thread |-> {}] /\ todo = [t \in Thread |-> <<>>]
      /\ pc = [t \in Thread |-> "idle"] /\ failed = [t \in Thread |-> FALSE]
      /\ dropped = FALSE
  BY DEF Init
<1>6. SetOf(<<>>) = {} /\ Injective(<<>>)
  BY DEF SetOf, Injective
<1>7. TypeInv
  <2>1. <<>> \in Seq(State) /\ <<>> \in Seq(Address)
    OBVIOUS
  <2>2. /\ rented \in [Thread -> SUBSET State] /\ forgotten \subseteq State
        /\ todo \in [Thread -> Seq(State)]
    BY <1>5, <2>1
  <2>3. /\ pc \in [Thread -> {"idle", "pop", "wait", "retry", "map", "push", "leave"}]
        /\ failed \in [Thread -> BOOLEAN] /\ dropped \in BOOLEAN
    BY <1>5
  <2> QED
    BY <1>3, <1>4, <1>5, <2>1, <2>2, <2>3 DEF TypeInv
<1>8. BlockInv
  BY <1>5, <1>6, FS_EmptySet DEF BlockInv
<1>9. FreeInv /\ RentedInv /\ TodoInv
  BY <1>5, <1>6 DEF FreeInv, RentedInv, TodoInv
<1>10. UseInv
  BY <1>5 DEF UseInv
<1>11. Conservation
  BY <1>5, <1>6 DEF Conservation
<1> QED
  BY <1>7, <1>8, <1>9, <1>10, <1>11 DEF IInv

LEMMA NextIInv ==
  ASSUME FailuresAreSeen, IInv, [Next]_vars
  PROVE  IInv'
<1> USE DEF Goto
<1>1. /\ pc \in [Thread -> {"idle", "pop", "wait", "retry", "map", "push", "leave"}]
      /\ failed \in [Thread -> BOOLEAN]
      /\ \A t \in Thread : pc[t] # "idle" => ~dropped
  BY DEF IInv, TypeInv, UseInv
<1>2. ASSUME NEW t \in Thread, New(t) PROVE IInv'
  BY <1>1, <1>2, QuietStep DEF New, poolVars
<1>3. ASSUME NEW t \in Thread, Run(t) PROVE IInv'
  BY <1>1, <1>3, QuietStep DEF Run, poolVars
<1>4. ASSUME NEW t \in Thread, Enter(t) PROVE IInv'
  BY <1>1, <1>4, QuietStep DEF Enter, poolVars
<1>5. ASSUME NEW t \in Thread, GrowFails(t) PROVE IInv'
  BY <1>1, <1>5, QuietStep DEF GrowFails, poolVars
<1>6. ASSUME NEW t \in Thread, Leave(t) PROVE IInv'
  <2>1. pc' = [pc EXCEPT ![t] = "leave"]
    BY <1>1, <1>6 DEF Leave
  <2> QED
    BY <1>1, <1>6, <2>1, QuietStep DEF Leave, poolVars
<1>7. ASSUME NEW t \in Thread, Return(t) PROVE IInv'
  BY <1>1, <1>7, QuietStep DEF Return, poolVars
<1>8. ASSUME NEW t \in Thread, NEW l \in {"idle", "leave"}, freelist # <<>>, Take(t),
             pc[t] \in {"pop", "retry"}, pc' = [pc EXCEPT ![t] = l],
             UNCHANGED <<config, mmaps, mapped, forgotten, todo, failed, dropped>>
      PROVE  IInv'
  <2>1. /\ freelist' \in Seq(State) /\ rented' \in [Thread -> SUBSET State]
        /\ PlaceInv' /\ Conservation'
    BY <1>8, TakeStep
  <2>2. TypeInv'
    BY <1>1, <1>8, <2>1 DEF IInv, TypeInv, GoodConfig
  <2>3. BlockInv'
    BY <1>8 DEF IInv, BlockInv
  <2>4. UseInv'
    BY <1>1, <1>8 DEF IInv, UseInv
  <2> QED
    BY <2>1, <2>2, <2>3, <2>4 DEF IInv, PlaceInv
<1>9. ASSUME NEW t \in Thread, Pop(t) PROVE IInv'
  BY <1>8, <1>9 DEF Pop
<1>10. ASSUME NEW t \in Thread, Retry(t) PROVE IInv'
  <2>1. CASE freelist # <<>>
    BY <1>8, <1>10, <2>1 DEF Retry
  <2>2. CASE freelist = <<>>
    BY <1>1, <1>10, <2>2, QuietStep DEF Retry, poolVars
  <2> QED
    BY <2>1, <2>2
<1>11. ASSUME NEW t \in Thread, Grow(t) PROVE IInv'
  BY <1>11, GrowStep
<1>12. ASSUME NEW t \in Thread, Push(t) PROVE IInv'
  <2>1. /\ freelist' \in Seq(State) /\ todo' \in [Thread -> Seq(State)]
        /\ \A u \in Thread : pc'[u] = "push" <=> todo'[u] # <<>>
        /\ PlaceInv' /\ Conservation'
    BY <1>12, PushStep
  <2>2. /\ pc[t] = "push" /\ UNCHANGED <<config, mmaps, mapped, rented, forgotten, failed, dropped>>
        /\ pc' = [pc EXCEPT ![t] = IF Len(todo[t]) = 1 THEN "retry" ELSE "push"]
    BY <1>12 DEF Push
  <2>3. TypeInv'
    BY <1>1, <2>1, <2>2 DEF IInv, TypeInv, GoodConfig
  <2>4. BlockInv'
    BY <2>2 DEF IInv, BlockInv
  <2>5. UseInv'
    BY <1>1, <2>1, <2>2 DEF UseInv
  <2> QED
    BY <2>1, <2>3, <2>4, <2>5 DEF IInv, PlaceInv
<1>13. ASSUME NEW t \in Thread, Recycle(t) PROVE IInv'
  <2>1. /\ freelist' \in Seq(State) /\ rented' \in [Thread -> SUBSET State]
        /\ PlaceInv' /\ Conservation'
    BY <1>13, RecycleStep
  <2>2. /\ rented[t] # {}
        /\ UNCHANGED <<config, mmaps, mapped, forgotten, pc, todo, failed, dropped>>
    BY <1>13 DEF Recycle
  <2>3. TypeInv'
    BY <2>1, <2>2 DEF IInv, TypeInv, GoodConfig
  <2>4. BlockInv'
    BY <2>2 DEF IInv, BlockInv
  <2>5. UseInv'
    BY <2>2 DEF IInv, UseInv
  <2> QED
    BY <2>1, <2>3, <2>4, <2>5 DEF IInv, PlaceInv
<1>14. ASSUME NEW t \in Thread, Forget(t) PROVE IInv'
  <2>1. /\ rented' \in [Thread -> SUBSET State] /\ forgotten' \subseteq State
        /\ PlaceInv' /\ Conservation'
    BY <1>14, ForgetStep
  <2>2. rented[t] # {} /\ UNCHANGED <<poolVars, pc, todo, failed, dropped>>
    BY <1>14 DEF Forget
  <2>3. TypeInv'
    BY <2>1, <2>2 DEF IInv, TypeInv, GoodConfig, poolVars
  <2>4. BlockInv'
    BY <2>2 DEF IInv, BlockInv, poolVars
  <2>5. UseInv'
    BY <2>2 DEF IInv, UseInv, poolVars
  <2> QED
    BY <2>1, <2>3, <2>4, <2>5 DEF IInv, PlaceInv
<1>15. ASSUME Drop PROVE IInv'
  BY <1>15, DropStep
<1>16. ASSUME UNCHANGED vars PROVE IInv'
  <2>1. TypeInv' /\ BlockInv'
    BY <1>16 DEF vars, poolVars, IInv, TypeInv, BlockInv, GoodConfig
  <2>2. FreeInv' /\ RentedInv' /\ TodoInv' /\ UseInv'
    BY <1>16 DEF vars, poolVars, IInv, FreeInv, RentedInv, TodoInv, UseInv
  <2>3. Conservation'
    BY <1>16 DEF vars, poolVars, IInv, Conservation, States, PerBlock
  <2> QED
    BY <2>1, <2>2, <2>3 DEF IInv
<1>17. CASE Next
  BY <1>2, <1>3, <1>4, <1>5, <1>6, <1>7, <1>9, <1>10, <1>11, <1>12, <1>13, <1>14, <1>15, <1>17
     DEF Next, Step
<1> QED
  BY <1>16, <1>17


---------------------------------------------------------------------------
(* What follows for every pool *)

\* Every reachable state satisfies the invariant, for every set of threads, every
\* affinity mask, page size and size of state, if failures of mmap are recognised.
THEOREM InductiveInvariant == FailuresAreSeen => (Spec => []IInv)
<1> SUFFICES ASSUME FailuresAreSeen PROVE Spec => []IInv
  OBVIOUS
<1> QED
  BY InitIInv, NextIInv, PTL DEF Spec

\* Every variable has its type.
THEOREM TypeCorrect == FailuresAreSeen => (Spec => []TypeOK)
<1> SUFFICES ASSUME FailuresAreSeen PROVE Spec => []TypeOK
  OBVIOUS
<1>1. ASSUME IInv PROVE TypeOK
  <2>1. TypeInv /\ BlockInv
    BY <1>1 DEF IInv
  <2>2. SetOf(freelist) \subseteq State /\ SetOf(mmaps) \subseteq Address
    BY <2>1, SetOfSeq DEF TypeInv
  <2>3. \A t \in Thread : SetOf(todo[t]) \subseteq State
    BY <2>1, SetOfSeq DEF TypeInv
  <2>4. mapped \subseteq Address
    BY <2>1 DEF BlockInv, Address
  <2> QED
    BY <2>1, <2>2, <2>3, <2>4 DEF TypeInv, TypeOK
<1> QED
  BY <1>1, InductiveInvariant, PTL

\* The states of the recorded blocks, and where they are.
LEMMA KnownStates ==
  ASSUME IInv, NEW s, Somewhere(s), ~dropped
  PROVE  \E b \in mapped, i \in 1..PerBlock : s = <<b, Offset(config, i)>>
<1>1. s \in Places(freelist, forgotten, rented, todo)
  BY InPlaces DEF Somewhere
<1>2. s \in UNION {States(b) : b \in SetOf(mmaps)}
  BY <1>1 DEF IInv, Conservation, Places
<1> QED
  BY <1>2 DEF IInv, BlockInv, States

LEMMA NoOverlap ==
  ASSUME IInv, NEW s, NEW u, Somewhere(s), Somewhere(u), s # u, ~dropped
  PROVE  ~Overlap(s, u)
<1>1. PICK b \in mapped, i \in 1..PerBlock : s = <<b, Offset(config, i)>>
  BY KnownStates
<1>2. PICK c \in mapped, j \in 1..PerBlock : u = <<c, Offset(config, j)>>
  BY KnownStates
<1>3. GoodConfig(config) /\ config.size = StateSize /\ StateSize \in Nat \ {0}
  BY SizeAssumption DEF IInv, TypeInv
<1>4. Offset(config, i) \in Nat /\ Offset(config, j) \in Nat
  BY <1>3, Fits DEF PerBlock
<1>5. CASE b = c
  <2>1. i # j
    BY <1>1, <1>2, <1>5
  <2>2. \/ Offset(config, i) + StateSize <= Offset(config, j)
        \/ Offset(config, j) + StateSize <= Offset(config, i)
    BY <1>3, <2>1, Apart DEF PerBlock
  <2> QED
    BY <1>1, <1>2, <1>3, <1>4, <2>2 DEF Overlap
<1>6. CASE b # c
  BY <1>1, <1>2, <1>6 DEF Overlap
<1> QED
  BY <1>5, <1>6

\* The bytes of a rented state are nobody else's, on whatever page of whatever
\* block it lies.
THEOREM NotShared == FailuresAreSeen => (Spec => []NoSharing)
<1> SUFFICES ASSUME FailuresAreSeen PROVE Spec => []NoSharing
  OBVIOUS
<1>1. ASSUME IInv PROVE NoSharing
  <2>1. \A i, j \in DOMAIN freelist : freelist[i] = freelist[j] => i = j
    BY <1>1 DEF IInv, FreeInv, Injective
  <2>2. ASSUME NEW t \in Thread, NEW s \in rented[t]
        PROVE  /\ \A u \in SetOf(freelist) \cup forgotten \cup (rented[t] \ {s}) : ~Overlap(s, u)
               /\ \A v \in Thread \ {t} : \A u \in rented[v] : ~Overlap(s, u)
    <3>1. ~dropped /\ Somewhere(s)
      BY <1>1 DEF IInv, UseInv, Somewhere
    <3>2. \A u \in SetOf(freelist) \cup forgotten \cup (rented[t] \ {s}) :
            u # s /\ Somewhere(u)
      BY <1>1 DEF IInv, RentedInv, Somewhere
    <3>3. \A v \in Thread \ {t} : \A u \in rented[v] : u # s /\ Somewhere(u)
      BY <1>1 DEF IInv, RentedInv, Somewhere
    <3> QED
      BY <1>1, <3>1, <3>2, <3>3, NoOverlap
  <2> QED
    BY <2>1, <2>2 DEF NoSharing
<1> QED
  BY <1>1, InductiveInvariant, PTL

\* No state is lost.
THEOREM NoneLost == FailuresAreSeen => (Spec => []Conservation)
<1> SUFFICES ASSUME FailuresAreSeen PROVE Spec => []Conservation
  OBVIOUS
<1>1. IInv => Conservation
  BY DEF IInv
<1> QED
  BY <1>1, InductiveInvariant, PTL

\* A rented state lies on one page of a block that is mapped.
THEOREM Mapped == FailuresAreSeen => (Spec => []RentedIsMapped)
<1> SUFFICES ASSUME FailuresAreSeen PROVE Spec => []RentedIsMapped
  OBVIOUS
<1>1. ASSUME IInv PROVE RentedIsMapped
  <2> SUFFICES ASSUME NEW t \in Thread, NEW s \in rented[t]
               PROVE  s[1] \in mapped /\ FitsBlock(config, s[2])
    BY DEF RentedIsMapped
  <2>1. ~dropped /\ Somewhere(s)
    BY <1>1 DEF IInv, UseInv, Somewhere
  <2>2. PICK b \in mapped, i \in 1..PerBlock : s = <<b, Offset(config, i)>>
    BY <1>1, <2>1, KnownStates
  <2>3. FitsBlock(config, Offset(config, i))
    BY <1>1, Fits DEF IInv, TypeInv, PerBlock
  <2> QED
    BY <2>2, <2>3
<1> QED
  BY <1>1, InductiveInvariant, PTL

---------------------------------------------------------------------------
(* Counting *)

LEMMA SetOfCardinality ==
  ASSUME NEW T, NEW s \in Seq(T), Injective(s)
  PROVE  IsFiniteSet(SetOf(s)) /\ Cardinality(SetOf(s)) = Len(s)
<1>1. /\ Len(s) \in Nat /\ DOMAIN s = 1..Len(s)
      /\ s \in [1..Len(s) -> SetOf(s)]
  BY DEF SetOf
<1>2. \A x \in SetOf(s) : \E i \in 1..Len(s) : s[i] = x
  BY <1>1 DEF SetOf
<1>3. s \in Bijection(1..Len(s), SetOf(s))
  BY <1>1, <1>2 DEF Injective, Bijection, Injection, Surjection, IsInjective
<1>4. ExistsBijection(1..Len(s), SetOf(s))
  BY <1>3 DEF ExistsBijection
<1> QED
  BY <1>1, <1>4, FS_CountingElements, FS_NatBijection

\* The recorded blocks hold PerBlock states each.
Recorded == UNION {States(b) : b \in SetOf(mmaps)}

CountInv ==
  ~dropped => IsFiniteSet(Recorded) /\ Cardinality(Recorded) = PerBlock * Len(mmaps)

LEMMA GrowCounts ==
  ASSUME FailuresAreSeen, IInv, CountInv, NEW t \in Thread, Grow(t)
  PROVE  CountInv'
<1> DEFINE F == Fresh
<1>1. /\ GoodConfig(config) /\ mmaps \in Seq(Address) /\ BlockInv /\ ~dropped
      /\ PerBlock \in Nat \ {0}
  <2>1. GoodConfig(config) /\ mmaps \in Seq(Address) /\ BlockInv
    BY DEF IInv, TypeInv
  <2>2. ~dropped
    BY DEF IInv, UseInv, Grow
  <2>3. PerBlock \in Nat \ {0}
    <3>1. GoodConfig(config)
      BY <2>1
    <3> QED
      BY <3>1 DEF GoodConfig, PerBlock, StatesPerBlock
  <2> QED
    BY <2>1, <2>2, <2>3
<1>2. F \in Address /\ F \notin mapped
  BY <1>1, FreshFacts DEF BlockInv, Address
<1>3. mmaps' = Append(mmaps, F) /\ UNCHANGED <<config, dropped>>
  BY DEF Grow, FailuresAreSeen
<1> HIDE DEF F
<1>4. SetOf(mmaps') = SetOf(mmaps) \cup {F} /\ Len(mmaps') = Len(mmaps) + 1
  BY <1>1, <1>2, <1>3, SetOfAppend
<1>5. IsFiniteSet(States(F)) /\ Cardinality(States(F)) = PerBlock
  <2>1. /\ NewStates(F) \in Seq(State) /\ Injective(NewStates(F))
        /\ SetOf(NewStates(F)) = States(F)
    BY <1>1, <1>2, NewStatesFacts
  <2>2. Len(NewStates(F)) = PerBlock
    BY <1>1 DEF NewStates
  <2> QED
    BY <2>1, <2>2, SetOfCardinality
<1>6. \A b : States(b)' = States(b)
  BY <1>3 DEF States, PerBlock
<1>7. Recorded' = Recorded \cup States(F)
  BY <1>4, <1>6 DEF Recorded
<1>8. Recorded \cap States(F) = {}
  <2> SUFFICES ASSUME NEW b \in SetOf(mmaps), NEW s \in States(b), s \in States(F)
               PROVE  FALSE
    BY DEF Recorded
  <2>1. s[1] = b /\ s[1] = F
    BY DEF States
  <2> QED
    BY <1>1, <1>2, <2>1 DEF BlockInv
<1>9. IsFiniteSet(Recorded) /\ Cardinality(Recorded) = PerBlock * Len(mmaps)
  BY <1>1 DEF CountInv
<1>10. /\ IsFiniteSet(Recorded \cup States(F))
       /\ Cardinality(Recorded \cup States(F))
            = Cardinality(Recorded) + Cardinality(States(F)) - Cardinality({})
  <2> DEFINE R == Recorded
             N == States(F)
  <2>1. IsFiniteSet(R) /\ IsFiniteSet(N) /\ R \cap N = {}
    BY <1>5, <1>8, <1>9
  <2> SUFFICES /\ IsFiniteSet(R \cup N)
               /\ Cardinality(R \cup N)
                    = Cardinality(R) + Cardinality(N) - Cardinality({})
    OBVIOUS
  <2> HIDE DEF R, N
  <2>2. /\ IsFiniteSet(R \cup N)
        /\ Cardinality(R \cup N)
             = Cardinality(R) + Cardinality(N) - Cardinality(R \cap N)
    BY <2>1, FS_Union
  <2> QED
    BY <2>1, <2>2
<1>11. Cardinality({}) = 0 /\ Len(mmaps) \in Nat
  BY <1>1, FS_EmptySet
<1>12. PerBlock * (Len(mmaps) + 1) = PerBlock * Len(mmaps) + PerBlock
  BY <1>1, <1>11
<1>13. PerBlock' = PerBlock
  BY <1>3 DEF PerBlock
<1>14. /\ IsFiniteSet(Recorded')
       /\ Cardinality(Recorded') = PerBlock' * Len(mmaps')
  <2> DEFINE R == Recorded'
             P == PerBlock
             Q == PerBlock'
             C == Cardinality(Recorded)
             U == Cardinality(Recorded')
             L == Len(mmaps)
             M == Len(mmaps')
  <2>1. IsFiniteSet(R)
    BY <1>7, <1>10
  <2>2. U = C + P
    <3>1. P \in Nat /\ L \in Nat
      BY <1>1, <1>11
    <3>2. C = P * L
      BY <1>9
    <3>3. P * L \in Nat
      BY <3>1
    <3>4. U = C + P - 0
      BY <1>5, <1>7, <1>10, <1>11
    <3> HIDE DEF P, C, U
    <3> QED
      BY <3>1, <3>2, <3>3, <3>4
  <2>3. C = P * L /\ Q = P /\ M = L + 1 /\ P * (L + 1) = P * L + P
    BY <1>4, <1>9, <1>12, <1>13
  <2>4. U = Q * M
    <3> HIDE DEF P, Q, C, U, L, M
    <3> QED
      BY <2>2, <2>3
  <2> QED
    BY <2>1, <2>4
<1> QED
  BY <1>14 DEF CountInv

LEMMA OthersCount ==
  ASSUME CountInv, UNCHANGED <<config, mmaps, dropped>>
  PROVE  CountInv'
  BY DEF CountInv, Recorded, States, PerBlock

LEMMA CountInvariant == FailuresAreSeen => (Spec => []CountInv)
<1> SUFFICES ASSUME FailuresAreSeen PROVE Spec => []CountInv
  OBVIOUS
<1>1. Init => CountInv
  <2> SUFFICES ASSUME Init PROVE CountInv
    OBVIOUS
  <2>1. IInv /\ mmaps = <<>>
    BY InitIInv DEF Init
  <2>2. PerBlock \in Nat
    BY <2>1 DEF IInv, TypeInv, GoodConfig, PerBlock, StatesPerBlock
  <2>3. Recorded = {} /\ Len(mmaps) = 0
    BY <2>1 DEF Recorded, SetOf
  <2> QED
    BY <2>2, <2>3, FS_EmptySet DEF CountInv
<1>2. ASSUME IInv, CountInv, [Next]_vars PROVE CountInv'
  <2>1. ASSUME NEW t \in Thread, Grow(t) PROVE CountInv'
    BY <1>2, <2>1, GrowCounts
  <2>2. ASSUME NEW t \in Thread,
               New(t) \/ Pop(t) \/ Run(t) \/ Retry(t) \/ GrowFails(t) \/ Push(t) \/ Leave(t)
               \/ Return(t) \/ Enter(t) \/ Recycle(t) \/ Forget(t)
        PROVE  UNCHANGED <<config, mmaps, dropped>>
    BY <2>2 DEF New, Pop, Run, Retry, GrowFails, Push, Leave, Return, Enter, Recycle, Forget,
       poolVars
  <2>3. ASSUME Drop PROVE CountInv'
    BY <2>3 DEF Drop, CountInv
  <2>4. CASE UNCHANGED vars
    BY <1>2, <2>4, OthersCount DEF vars, poolVars
  <2> QED
    BY <1>2, <2>1, <2>2, <2>3, <2>4, OthersCount DEF Next, Step
<1> QED
  BY <1>1, <1>2, InductiveInvariant, PTL DEF Spec

\* What drop finds in the list: every state of every block but the leaked ones.
LEMMA DropCount ==
  ASSUME IInv, CountInv, Drop
  PROVE  /\ Len(freelist) + Cardinality(forgotten) = PerBlock * Len(mmaps)
         /\ Len(freelist) \in Nat /\ IsFiniteSet(forgotten)
         /\ forgotten \subseteq Recorded
<1>1. \A t \in Thread : rented[t] = {} /\ todo[t] = <<>>
  BY DEF Drop, IInv, UseInv
<1>2. \A t \in Thread : SetOf(todo[t]) = {}
  BY <1>1 DEF SetOf
<1>3. Recorded = SetOf(freelist) \cup forgotten
  <2>1. UNION {rented[t] \cup SetOf(todo[t]) : t \in Thread} = {}
    BY <1>1, <1>2
  <2>2. Conservation /\ ~dropped
    BY DEF IInv, Drop
  <2> QED
    BY <2>1, <2>2 DEF Conservation, Recorded
<1>4. IsFiniteSet(SetOf(freelist)) /\ Cardinality(SetOf(freelist)) = Len(freelist)
  BY SetOfCardinality DEF IInv, TypeInv, FreeInv
<1>5. IsFiniteSet(Recorded) /\ Cardinality(Recorded) = PerBlock * Len(mmaps)
  BY DEF CountInv, Drop
<1>6. IsFiniteSet(forgotten)
  BY <1>3, <1>5, FS_Subset
<1>7. SetOf(freelist) \cap forgotten = {}
  BY DEF IInv, FreeInv
<1>8. Cardinality(Recorded) = Cardinality(SetOf(freelist)) + Cardinality(forgotten)
                                - Cardinality({})
  BY <1>3, <1>4, <1>6, <1>7, FS_Union
<1>9. Cardinality({}) = 0 /\ Cardinality(forgotten) \in Nat /\ Len(freelist) \in Nat
  BY <1>6, FS_EmptySet, FS_CardinalityType DEF IInv, TypeInv
<1> QED
  BY <1>3, <1>4, <1>5, <1>6, <1>8, <1>9

\* The only step that drops a pool.
LEMMA OnlyDrop ==
  ASSUME [Next]_vars, dropped', ~dropped
  PROVE  Drop
<1>1. ASSUME NEW t \in Thread,
             New(t) \/ Step(t) \/ Enter(t) \/ Return(t) \/ Recycle(t) \/ Forget(t)
      PROVE  UNCHANGED dropped
  BY <1>1 DEF New, Step, Pop, Run, Retry, Grow, GrowFails, Push, Leave, Return, Enter,
     Recycle, Forget
<1> QED
  BY <1>1 DEF Next, vars

\* When a pool is dropped the free list holds every state of every block, but for
\* those whose LocalStates were leaked: the debug assertion of Pool::drop fails for
\* no other reason.
THEOREM AllReturned == FailuresAreSeen => (Spec => DropFindsAll)
<1> SUFFICES ASSUME FailuresAreSeen PROVE Spec => DropFindsAll
  OBVIOUS
<1>1. ASSUME IInv, CountInv, [Next]_vars
      PROVE  [dropped' /\ ~dropped =>
                Len(freelist) + Cardinality(forgotten) = PerBlock * Len(mmaps)]_vars
  BY <1>1, OnlyDrop, DropCount
<1> QED
  BY <1>1, InductiveInvariant, CountInvariant, PTL DEF Spec, DropFindsAll

\* Nothing is leaked or mapped after the drop.
LEMMA AfterDrop ==
  ASSUME IInv, [Next]_vars, dropped
  PROVE  UNCHANGED <<mapped, forgotten, dropped>>
<1>1. \A t \in Thread : pc[t] = "idle" /\ rented[t] = {}
  BY DEF IInv, UseInv
<1>2. ASSUME NEW t \in Thread
      PROVE  ~(New(t) \/ Step(t) \/ Enter(t) \/ Return(t) \/ Recycle(t) \/ Forget(t))
  BY <1>1 DEF New, Step, Pop, Run, Retry, Grow, GrowFails, Push, Leave, Return, Enter,
     Recycle, Forget
<1>3. ~Drop
  BY DEF Drop
<1> QED
  BY <1>2, <1>3 DEF Next, vars, poolVars

\* The drop itself: the assertion of a debug build fails exactly when something
\* was leaked, and then there is a block that it leaves mapped.
LEMMA DropRemains ==
  ASSUME IInv, CountInv, Drop
  PROVE  DropUnmapsUnlessLeaked'
<1>1. /\ Len(freelist) + Cardinality(forgotten) = PerBlock * Len(mmaps)
      /\ Len(freelist) \in Nat /\ IsFiniteSet(forgotten) /\ forgotten \subseteq Recorded
  BY DropCount
<1>2. SetOf(mmaps) = mapped
  BY DEF Drop, IInv, BlockInv
<1>3. Cardinality(forgotten) \in Nat /\ (Cardinality(forgotten) = 0 <=> forgotten = {})
  BY <1>1, FS_CardinalityType, FS_EmptySet
<1>4. Len(freelist) # PerBlock * Len(mmaps) <=> forgotten # {}
  <2>1. Len(freelist) + 0 = Len(freelist)
    BY <1>1
  <2>2. Cardinality(forgotten) # 0 => Len(freelist) + Cardinality(forgotten) # Len(freelist)
    BY <1>1, <1>3
  <2> QED
    BY <1>1, <1>3, <2>1, <2>2
<1>5. mapped' = IF Debug /\ forgotten # {} THEN mapped ELSE {}
  BY <1>2, <1>4 DEF Drop, SetOf
<1>6. forgotten # {} => mapped # {}
  BY <1>1, <1>2 DEF Recorded
<1>7. dropped' /\ forgotten' = forgotten
  BY DEF Drop
<1> QED
  BY <1>5, <1>6, <1>7 DEF DropUnmapsUnlessLeaked

\* Dropping a pool unmaps every block that was ever mapped, in release builds
\* always and in debug builds unless a LocalState was leaked.
THEOREM UnmappedUnlessLeaked ==
  FailuresAreSeen => (Spec => []DropUnmapsUnlessLeaked)
<1> SUFFICES ASSUME FailuresAreSeen PROVE Spec => []DropUnmapsUnlessLeaked
  OBVIOUS
<1>1. Init => DropUnmapsUnlessLeaked
  BY DEF Init, DropUnmapsUnlessLeaked
<1>2. ASSUME IInv, CountInv, DropUnmapsUnlessLeaked, [Next]_vars
      PROVE  DropUnmapsUnlessLeaked'
  <2>1. CASE dropped
    BY <1>2, <2>1, AfterDrop DEF DropUnmapsUnlessLeaked
  <2>2. CASE ~dropped /\ dropped'
    BY <1>2, <2>2, OnlyDrop, DropRemains
  <2>3. CASE ~dropped'
    BY <2>3 DEF DropUnmapsUnlessLeaked
  <2> QED
    BY <2>1, <2>2, <2>3
<1> QED
  BY <1>1, <1>2, InductiveInvariant, CountInvariant, PTL DEF Spec


---------------------------------------------------------------------------
(* The growth of the pool *)

\* Sets of at most M elements for each thread, and fewer for one, have together
\* fewer elements than M for each.
LEMMA UnionBound ==
  ASSUME IsFiniteSet(Thread), NEW M \in Nat \ {0}, NEW r, NEW t \in Thread,
         \A u \in Thread : IsFiniteSet(r[u]) /\ Cardinality(r[u]) <= M,
         Cardinality(r[t]) < M
  PROVE  /\ IsFiniteSet(UNION {r[u] : u \in Thread})
         /\ Cardinality(UNION {r[u] : u \in Thread}) < Cardinality(Thread) * M
<1> DEFINE size(u) == Cardinality(r[u])
           count   == [u \in Thread |-> CHOOSE g : g \in Bijection(1..size(u), r[u])]
           All     == UNION {r[u] : u \in Thread}
           Slots   == Thread \X (1..M)
           last    == <<t, M>>
           Used    == {p \in Slots : p[2] <= size(p[1])}
           f       == [p \in Used |-> count[p[1]][p[2]]]
<1>1. \A u \in Thread : size(u) \in Nat /\ size(u) <= M
  BY FS_CardinalityType
<1>2. \A u \in Thread : count[u] \in Bijection(1..size(u), r[u])
  <2> SUFFICES ASSUME NEW u \in Thread
               PROVE  \E g : g \in Bijection(1..size(u), r[u])
    OBVIOUS
  <2>1. ExistsBijection(1..Cardinality(r[u]), r[u])
    BY FS_NatBijection, FS_CountingElements
  <2> QED
    BY <2>1 DEF ExistsBijection
<1>3. \A u \in Thread : /\ \A i \in 1..size(u) : count[u][i] \in r[u]
                        /\ \A s \in r[u] : \E i \in 1..size(u) : count[u][i] = s
  <2> SUFFICES ASSUME NEW u \in Thread
               PROVE  /\ \A i \in 1..size(u) : count[u][i] \in r[u]
                      /\ \A s \in r[u] : \E i \in 1..size(u) : count[u][i] = s
    OBVIOUS
  <2> DEFINE g == count[u]
             D == 1..size(u)
  <2>1. g \in Bijection(D, r[u])
    BY <1>2
  <2> SUFFICES /\ \A i \in D : g[i] \in r[u]
               /\ \A s \in r[u] : \E i \in D : g[i] = s
    OBVIOUS
  <2> HIDE DEF g, D
  <2> QED
    BY <2>1 DEF Bijection, Injection, Surjection
<1> HIDE DEF count, size
<1>4. \A p \in Used : p[1] \in Thread /\ p[2] \in 1..size(p[1])
  BY <1>1
<1>5. f \in Surjection(Used, All)
  <2>1. \A p \in Used : f[p] \in All
    BY <1>3, <1>4
  <2>2. ASSUME NEW s \in All PROVE \E p \in Used : f[p] = s
    <3>1. PICK u \in Thread : s \in r[u]
      OBVIOUS
    <3>2. PICK i \in 1..size(u) : count[u][i] = s
      BY <1>3, <3>1
    <3>3. <<u, i>> \in Used
      BY <1>1, <3>2
    <3> QED
      BY <3>2, <3>3
  <2> QED
    BY <2>1, <2>2 DEF Surjection
<1>6. IsFiniteSet(Slots) /\ Cardinality(Slots) = Cardinality(Thread) * M
  <2>1. IsFiniteSet(1..M) /\ Cardinality(1..M) = M
    BY FS_Interval
  <2> QED
    BY <2>1, FS_Product
<1>7. last \in Slots /\ last \notin Used
  <2>1. size(t) < M
    BY DEF size
  <2> QED
    BY <1>1, <2>1
<1>8. Used \subseteq Slots \ {last}
  BY <1>7
<1> HIDE DEF All, Slots, Used, f, last
<1>9. IsFiniteSet(Slots \ {last}) /\ Cardinality(Slots \ {last}) = Cardinality(Slots) - 1
  BY <1>6, <1>7, FS_RemoveElement
<1>10. IsFiniteSet(Used) /\ Cardinality(Used) <= Cardinality(Slots \ {last})
  BY <1>8, <1>9, FS_Subset
<1>11. IsFiniteSet(All) /\ Cardinality(All) <= Cardinality(Used)
  BY <1>5, <1>10, FS_Surjection
<1>12. /\ Cardinality(All) \in Nat /\ Cardinality(Used) \in Nat
       /\ Cardinality(Slots) \in Nat
  BY <1>6, <1>10, <1>11, FS_CardinalityType
<1>13. Cardinality(All) < Cardinality(Thread) * M
  BY <1>6, <1>9, <1>10, <1>11, <1>12
<1> QED
  BY <1>11, <1>13 DEF All

\* The lock admits one closure at a time.
LockInv ==
  /\ phase \in [Thread -> {"idle", "pending", "running", "ok"}]
  /\ \A t \in Thread : pc[t] \in {"retry", "map", "push"} => phase[t] = "running"
  /\ \A t, u \in Thread : phase[t] = "running" /\ phase[u] = "running" => t = u

\* A thread inside get has room for one more LocalState until it takes it.
QuotaInv ==
  /\ \A t \in Thread :
       /\ IsFiniteSet(rented[t]) /\ Cardinality(rented[t]) <= MaxRented
       /\ pc[t] \in {"pop", "wait", "retry", "map", "push"} => Cardinality(rented[t]) < MaxRented
  /\ IsFiniteSet(forgotten) /\ Cardinality(forgotten) <= MaxForgets

\* The LocalStates that clients can have at once.
Demand == Cardinality(Thread) * MaxRented + MaxForgets

\* Whoever has found the list empty under the lock has counted fewer states than
\* are wanted, and nobody maps a block until it does so itself.
DemandInv ==
  /\ PerBlock * Len(mmaps) < Demand + PerBlock
  /\ \A t \in Thread : pc[t] = "map" => PerBlock * Len(mmaps) < Demand

GrowthInv == LockInv /\ QuotaInv /\ DemandInv

\* The list is found empty only while the demand exceeds what there is.
LEMMA FoundEmpty ==
  ASSUME IsFiniteSet(Thread), IInv, CountInv, LockInv, QuotaInv,
         NEW t \in Thread, pc[t] = "retry", freelist = <<>>
  PROVE  PerBlock * Len(mmaps) < Demand
<1> DEFINE R == UNION {rented[u] : u \in Thread}
<1>1. ~dropped
  BY DEF IInv, UseInv
<1>2. \A u \in Thread : SetOf(todo[u]) = {}
  <2> SUFFICES ASSUME NEW u \in Thread PROVE pc[u] # "push"
    BY DEF IInv, UseInv, SetOf
  <2> QED
    BY DEF LockInv
<1>3. SetOf(freelist) = {}
  BY DEF SetOf
<1>4. Recorded = forgotten \cup R
  <2>1. UNION {rented[u] \cup SetOf(todo[u]) : u \in Thread} = R
    BY <1>2
  <2> QED
    BY <1>1, <1>3, <2>1 DEF IInv, Conservation, Recorded
<1>5. /\ \A u \in Thread : IsFiniteSet(rented[u]) /\ Cardinality(rented[u]) <= MaxRented
      /\ Cardinality(rented[t]) < MaxRented
      /\ IsFiniteSet(forgotten) /\ Cardinality(forgotten) <= MaxForgets
  BY DEF QuotaInv
<1>6. MaxRented \in Nat \ {0} /\ MaxForgets \in Nat
  BY ClientAssumption
<1>7. IsFiniteSet(R) /\ Cardinality(R) < Cardinality(Thread) * MaxRented
  <2> DEFINE r == rented
  <2>1. \A u \in Thread : IsFiniteSet(r[u]) /\ Cardinality(r[u]) <= MaxRented
    BY <1>5
  <2> SUFFICES /\ IsFiniteSet(UNION {r[u] : u \in Thread})
               /\ Cardinality(UNION {r[u] : u \in Thread}) < Cardinality(Thread) * MaxRented
    OBVIOUS
  <2> HIDE DEF r
  <2> QED
    BY <1>5, <1>6, <2>1, UnionBound DEF r
<1> HIDE DEF R
<1>8. /\ Cardinality(forgotten \cup R) <= Cardinality(forgotten) + Cardinality(R)
  <2>1. /\ IsFiniteSet(forgotten \cap R)
        /\ Cardinality(forgotten \cup R)
             = Cardinality(forgotten) + Cardinality(R) - Cardinality(forgotten \cap R)
    BY <1>5, <1>7, FS_Union, FS_Intersection
  <2>2. /\ Cardinality(forgotten \cap R) \in Nat /\ Cardinality(forgotten) \in Nat
        /\ Cardinality(R) \in Nat
    BY <1>5, <1>7, <2>1, FS_CardinalityType
  <2> QED
    BY <2>1, <2>2
<1>9. PerBlock * Len(mmaps) = Cardinality(forgotten \cup R)
  BY <1>1, <1>4 DEF CountInv
<1>10. /\ Cardinality(forgotten) \in Nat /\ Cardinality(R) \in Nat
       /\ Cardinality(Thread) \in Nat
       /\ IsFiniteSet(forgotten \cup R)
  BY <1>5, <1>7, FS_CardinalityType, FS_Union
<1>11. Cardinality(forgotten \cup R) \in Nat
  BY <1>10, FS_CardinalityType
<1> DEFINE a == Cardinality(forgotten \cup R)
           b == Cardinality(forgotten)
           c == Cardinality(R)
           d == Cardinality(Thread) * MaxRented
<1>12. d \in Nat
  BY <1>6, <1>10
<1>13. a <= b + c /\ b <= MaxForgets /\ c < d /\ a \in Nat /\ b \in Nat /\ c \in Nat
  BY <1>5, <1>7, <1>8, <1>10, <1>11
<1>14. a < d + MaxForgets
  <2> HIDE DEF a, b, c, d
  <2> QED
    BY <1>6, <1>12, <1>13
<1> QED
  BY <1>9, <1>14 DEF Demand

LEMMA LockStep ==
  ASSUME IInv, LockInv, [Next]_vars
  PROVE  LockInv'
<1>1. pc \in [Thread -> {"idle", "pop", "wait", "retry", "map", "push", "leave"}]
  BY DEF IInv, TypeInv
<1>2. phase \in [Thread -> {"idle", "pending", "running", "ok"}]
  BY DEF LockInv
<1>3. ASSUME UNCHANGED phase,
             \A u \in Thread : pc'[u] \in {"retry", "map", "push"}
                                 => pc[u] \in {"retry", "map", "push"}
      PROVE  LockInv'
  BY <1>3 DEF LockInv
<1>4. ASSUME NEW t \in Thread,
             New(t) \/ Pop(t) \/ Retry(t) \/ Grow(t) \/ GrowFails(t) \/ Push(t)
             \/ Recycle(t) \/ Forget(t)
      PROVE  LockInv'
  <2>1. UNCHANGED phase
    BY <1>4 DEF New, Pop, Retry, Grow, GrowFails, Push, Recycle, Forget, lockVars
  <2>2. \A u \in Thread : pc'[u] \in {"retry", "map", "push"}
                            => pc[u] \in {"retry", "map", "push"}
    BY <1>1, <1>4 DEF New, Pop, Retry, Grow, GrowFails, Push, Recycle, Forget, Goto
  <2> QED
    BY <1>3, <2>1, <2>2
<1>5. ASSUME NEW t \in Thread, Run(t) PROVE LockInv'
  <2>1. /\ phase[t] = "idle" /\ phase' = [phase EXCEPT ![t] = "pending"]
        /\ pc[t] = "pop" /\ pc' = [pc EXCEPT ![t] = "wait"]
    BY <1>5 DEF Run, Lock!Submit, Goto
  <2> QED
    BY <1>1, <1>2, <2>1 DEF LockInv
<1>6. ASSUME NEW t \in Thread, Enter(t) PROVE LockInv'
  <2>1. /\ \A u \in Thread : phase[u] # "running"
        /\ phase' = [phase EXCEPT ![t] = "running"]
        /\ pc' = [pc EXCEPT ![t] = "retry"]
    BY <1>6 DEF Enter, Lock!Begin, Goto
  <2> QED
    BY <1>1, <1>2, <2>1 DEF LockInv
<1>7. ASSUME NEW t \in Thread, Leave(t) PROVE LockInv'
  <2>1. /\ pc[t] = "leave" /\ pc' = pc /\ phase' = [phase EXCEPT ![t] = "ok"]
    BY <1>7 DEF Leave, Lock!End
  <2> QED
    BY <1>1, <1>2, <2>1 DEF LockInv
<1>8. ASSUME NEW t \in Thread, Return(t) PROVE LockInv'
  <2>1. /\ pc' = [pc EXCEPT ![t] = "idle"] /\ phase' = [phase EXCEPT ![t] = "idle"]
    BY <1>8 DEF Return, Lock!Reply, Goto
  <2> QED
    BY <1>1, <1>2, <2>1 DEF LockInv
<1>9. CASE Drop \/ UNCHANGED vars
  BY <1>3, <1>9 DEF Drop, vars, lockVars
<1> QED
  BY <1>4, <1>5, <1>6, <1>7, <1>8, <1>9 DEF Next, Step

\* Where a thread is that has not yet taken a state.
Wanting == {"pop", "wait", "retry", "map", "push"}

LEMMA TakeQuota ==
  ASSUME IInv, QuotaInv, NEW t \in Thread, pc[t] \in Wanting, Take(t),
         UNCHANGED forgotten,
         pc'[t] \notin Wanting, \A u \in Thread \ {t} : pc'[u] = pc[u]
  PROVE  QuotaInv'
<1>1. MaxRented \in Nat
  BY ClientAssumption
<1>2. /\ \A u \in Thread \ {t} : rented'[u] = rented[u]
      /\ rented'[t] = rented[t] \cup {Head(freelist)}
  BY DEF IInv, TypeInv, Take
<1>3. IsFiniteSet(rented[t]) /\ Cardinality(rented[t]) < MaxRented
  BY DEF QuotaInv, Wanting
<1>4. Cardinality(rented[t]) \in Nat
  BY <1>3, FS_CardinalityType
<1>5. IsFiniteSet(rented'[t]) /\ Cardinality(rented'[t]) <= MaxRented
  <2> DEFINE S == rented[t]
             x == Head(freelist)
  <2> SUFFICES IsFiniteSet(S \cup {x}) /\ Cardinality(S \cup {x}) <= MaxRented
    BY <1>2
  <2>1. IsFiniteSet(S) /\ Cardinality(S) < MaxRented /\ Cardinality(S) \in Nat
    BY <1>3, <1>4
  <2> HIDE DEF S, x
  <2>2. /\ IsFiniteSet(S \cup {x})
        /\ Cardinality(S \cup {x}) = IF x \in S THEN Cardinality(S) ELSE Cardinality(S) + 1
    BY <2>1, FS_AddElement
  <2> QED
    BY <1>1, <2>1, <2>2
<1>6. \A u \in Thread \ {t} :
        /\ IsFiniteSet(rented'[u]) /\ Cardinality(rented'[u]) <= MaxRented
        /\ pc'[u] \in Wanting => Cardinality(rented'[u]) < MaxRented
  BY <1>2 DEF QuotaInv, Wanting
<1>7. IsFiniteSet(forgotten') /\ Cardinality(forgotten') <= MaxForgets
  BY DEF QuotaInv
<1> QED
  BY <1>5, <1>6, <1>7 DEF QuotaInv, Wanting

LEMMA GiveQuota ==
  ASSUME IInv, QuotaInv, NEW t \in Thread, pc[t] = "idle", UNCHANGED pc,
         NEW s \in rented[t], rented' = [rented EXCEPT ![t] = @ \ {s}],
         IsFiniteSet(forgotten') /\ Cardinality(forgotten') <= MaxForgets
  PROVE  QuotaInv'
<1>1. MaxRented \in Nat
  BY ClientAssumption
<1>2. /\ \A u \in Thread \ {t} : rented'[u] = rented[u]
      /\ rented'[t] = rented[t] \ {s}
  BY DEF IInv, TypeInv
<1>3. IsFiniteSet(rented[t]) /\ Cardinality(rented[t]) <= MaxRented
  BY DEF QuotaInv
<1>4. Cardinality(rented[t]) \in Nat
  BY <1>3, FS_CardinalityType
<1>5. IsFiniteSet(rented'[t]) /\ Cardinality(rented'[t]) <= MaxRented
  <2>1. /\ IsFiniteSet(rented[t] \ {s})
        /\ Cardinality(rented[t] \ {s}) = Cardinality(rented[t]) - 1
    BY <1>3, FS_RemoveElement
  <2> QED
    BY <1>1, <1>2, <1>3, <1>4, <2>1
<1>6. \A u \in Thread \ {t} :
        /\ IsFiniteSet(rented'[u]) /\ Cardinality(rented'[u]) <= MaxRented
        /\ pc'[u] \in Wanting => Cardinality(rented'[u]) < MaxRented
  BY <1>2 DEF QuotaInv, Wanting
<1> QED
  BY <1>5, <1>6 DEF QuotaInv, Wanting

LEMMA QuotaStep ==
  ASSUME IInv, QuotaInv, [Next]_vars
  PROVE  QuotaInv'
<1>1. pc \in [Thread -> {"idle", "pop", "wait", "retry", "map", "push", "leave"}]
  BY DEF IInv, TypeInv
<1>2. ASSUME UNCHANGED <<rented, forgotten>>,
             \A u \in Thread : pc'[u] \in Wanting
                                 => pc[u] \in Wanting \/ Cardinality(rented[u]) < MaxRented
      PROVE  QuotaInv'
  BY <1>2 DEF QuotaInv, Wanting
<1>3. ASSUME NEW t \in Thread,
             New(t) \/ Run(t) \/ Enter(t) \/ Grow(t) \/ GrowFails(t) \/ Push(t)
             \/ Leave(t) \/ Return(t) \/ (Retry(t) /\ freelist = <<>>)
      PROVE  QuotaInv'
  <2>1. UNCHANGED <<rented, forgotten>>
    BY <1>3 DEF New, Run, Enter, Grow, GrowFails, Push, Leave, Return, Retry
  <2>2. \A u \in Thread : pc'[u] \in Wanting
                            => pc[u] \in Wanting \/ Cardinality(rented[u]) < MaxRented
    BY <1>1, <1>3 DEF New, Run, Enter, Grow, GrowFails, Push, Leave, Return, Retry, Goto, Wanting
  <2> QED
    BY <1>2, <2>1, <2>2
<1>4. ASSUME NEW t \in Thread, Pop(t) \/ (Retry(t) /\ freelist # <<>>)
      PROVE  QuotaInv'
  <2>1. Take(t) /\ UNCHANGED forgotten /\ pc[t] \in Wanting
    BY <1>4 DEF Pop, Retry, Wanting
  <2>2. pc'[t] \notin Wanting /\ \A u \in Thread \ {t} : pc'[u] = pc[u]
    BY <1>1, <1>4 DEF Pop, Retry, Goto, Wanting
  <2> QED
    BY <2>1, <2>2, TakeQuota
<1>5. ASSUME NEW t \in Thread, Recycle(t) PROVE QuotaInv'
  <2>1. /\ pc[t] = "idle" /\ UNCHANGED <<pc, forgotten>>
        /\ \E s \in rented[t] : rented' = [rented EXCEPT ![t] = @ \ {s}]
    BY <1>5 DEF Recycle
  <2>2. IsFiniteSet(forgotten') /\ Cardinality(forgotten') <= MaxForgets
    BY <2>1 DEF QuotaInv
  <2> QED
    BY <2>1, <2>2, GiveQuota
<1>6. ASSUME NEW t \in Thread, Forget(t) PROVE QuotaInv'
  <2>1. pc[t] = "idle" /\ UNCHANGED pc /\ Cardinality(forgotten) < MaxForgets
    BY <1>6 DEF Forget
  <2>2. PICK s \in rented[t] : /\ rented' = [rented EXCEPT ![t] = @ \ {s}]
                               /\ forgotten' = forgotten \cup {s}
    BY <1>6 DEF Forget
  <2>3. IsFiniteSet(forgotten) /\ Cardinality(forgotten) \in Nat
    BY FS_CardinalityType DEF QuotaInv
  <2>4. /\ IsFiniteSet(forgotten \cup {s})
        /\ Cardinality(forgotten \cup {s})
             = IF s \in forgotten THEN Cardinality(forgotten) ELSE Cardinality(forgotten) + 1
    BY <2>3, FS_AddElement
  <2>5. IsFiniteSet(forgotten') /\ Cardinality(forgotten') <= MaxForgets
    BY <2>1, <2>2, <2>3, <2>4, ClientAssumption
  <2> QED
    BY <2>1, <2>2, <2>5, GiveQuota
<1>7. CASE Drop \/ UNCHANGED vars
  BY <1>2, <1>7 DEF Drop, vars
<1> QED
  BY <1>3, <1>4, <1>5, <1>6, <1>7 DEF Next, Step

LEMMA DemandStep ==
  ASSUME FailuresAreSeen, IsFiniteSet(Thread), IInv, CountInv, GrowthInv, [Next]_vars
  PROVE  DemandInv'
<1>1. pc \in [Thread -> {"idle", "pop", "wait", "retry", "map", "push", "leave"}]
  BY DEF IInv, TypeInv
<1>2. PerBlock \in Nat \ {0} /\ Len(mmaps) \in Nat
  <2>1. GoodConfig(config) /\ mmaps \in Seq(Address)
    BY DEF IInv, TypeInv
  <2>2. PerBlock \in Nat \ {0}
    BY <2>1 DEF GoodConfig, PerBlock, StatesPerBlock
  <2> QED
    BY <2>1, <2>2
<1>3. Demand \in Nat
  <2>1. Cardinality(Thread) \in Nat /\ MaxRented \in Nat /\ MaxForgets \in Nat
    BY FS_CardinalityType, ClientAssumption
  <2> QED
    BY <2>1 DEF Demand
<1>4. ASSUME UNCHANGED <<config, mmaps>>,
             \A u \in Thread : pc'[u] = "map" => pc[u] = "map"
      PROVE  DemandInv'
  BY <1>4 DEF GrowthInv, DemandInv, PerBlock, Demand
<1>5. ASSUME NEW t \in Thread,
             New(t) \/ Pop(t) \/ Run(t) \/ Enter(t) \/ GrowFails(t) \/ Push(t) \/ Leave(t)
             \/ Return(t) \/ Recycle(t) \/ Forget(t) \/ (Retry(t) /\ freelist # <<>>)
      PROVE  DemandInv'
  <2>1. UNCHANGED <<config, mmaps>>
    BY <1>5 DEF New, Pop, Run, Enter, GrowFails, Push, Leave, Return, Recycle, Forget, Retry,
       poolVars
  <2>2. \A u \in Thread : pc'[u] = "map" => pc[u] = "map"
    BY <1>1, <1>5 DEF New, Pop, Run, Enter, GrowFails, Push, Leave, Return, Recycle, Forget,
       Retry, Goto
  <2> QED
    BY <1>4, <2>1, <2>2
<1>6. ASSUME NEW t \in Thread, Retry(t), freelist = <<>> PROVE DemandInv'
  <2>1. pc[t] = "retry" /\ UNCHANGED <<config, mmaps>>
    BY <1>6 DEF Retry
  <2>2. PerBlock * Len(mmaps) < Demand
    BY <1>6, <2>1, FoundEmpty DEF GrowthInv
  <2>3. PerBlock' = PerBlock /\ mmaps' = mmaps /\ Demand' = Demand
    BY <2>1 DEF PerBlock, Demand
  <2> QED
    BY <2>2, <2>3 DEF GrowthInv, DemandInv
<1>7. ASSUME NEW t \in Thread, Grow(t) PROVE DemandInv'
  <2>1. /\ pc[t] = "map" /\ pc' = [pc EXCEPT ![t] = "push"]
        /\ mmaps' = Append(mmaps, Fresh) /\ UNCHANGED config
    BY <1>7 DEF Grow, Goto, FailuresAreSeen
  <2>2. Len(mmaps') = Len(mmaps) + 1
    BY <2>1 DEF IInv, TypeInv
  <2>3. PerBlock * Len(mmaps) < Demand
    BY <2>1 DEF GrowthInv, DemandInv
  <2>4. \A u \in Thread : pc'[u] # "map"
    <3>1. \A u \in Thread : pc[u] = "map" => u = t
      BY <2>1 DEF GrowthInv, LockInv
    <3> QED
      BY <1>1, <2>1, <3>1
  <2>5. PerBlock' = PerBlock /\ Demand' = Demand
    BY <2>1 DEF PerBlock, Demand
  <2>6. PerBlock * (Len(mmaps) + 1) < Demand + PerBlock
    BY <1>2, <1>3, <2>3
  <2> QED
    BY <2>2, <2>4, <2>5, <2>6 DEF DemandInv
<1>8. CASE Drop
  <2>1. mmaps' = <<>> /\ UNCHANGED <<config, pc>> /\ \A t \in Thread : pc[t] = "idle"
    BY <1>8 DEF Drop
  <2>2. PerBlock' = PerBlock /\ Demand' = Demand /\ Len(mmaps') = 0
    BY <2>1 DEF PerBlock, Demand
  <2>3. PerBlock * 0 < Demand + PerBlock
    BY <1>2, <1>3
  <2> QED
    BY <2>1, <2>2, <2>3 DEF DemandInv
<1>9. CASE UNCHANGED vars
  BY <1>4, <1>9 DEF vars, poolVars
<1> QED
  BY <1>5, <1>6, <1>7, <1>8, <1>9 DEF Next, Step

LEMMA InitGrowthInv ==
  ASSUME IsFiniteSet(Thread), Init
  PROVE  GrowthInv
<1>1. LockInv
  BY DEF Init, LockInv, Lock!Init
<1>2. QuotaInv
  <2>1. MaxRented \in Nat \ {0} /\ MaxForgets \in Nat
    BY ClientAssumption
  <2>2. IsFiniteSet({}) /\ Cardinality({}) = 0
    BY FS_EmptySet
  <2> QED
    BY <2>1, <2>2 DEF Init, QuotaInv
<1>3. DemandInv
  <2>1. GoodConfig(config)
    BY InitIInv DEF IInv, TypeInv
  <2>2. PerBlock \in Nat \ {0}
    BY <2>1 DEF GoodConfig, PerBlock, StatesPerBlock
  <2>3. Cardinality(Thread) \in Nat /\ MaxRented \in Nat /\ MaxForgets \in Nat
    BY FS_CardinalityType, ClientAssumption
  <2>4. Demand \in Nat
    BY <2>3 DEF Demand
  <2>5. Len(mmaps) = 0 /\ \A t \in Thread : pc[t] = "idle"
    BY DEF Init
  <2>6. PerBlock * 0 < Demand + PerBlock
    BY <2>2, <2>4
  <2> QED
    BY <2>5, <2>6 DEF DemandInv
<1> QED
  BY <1>1, <1>2, <1>3 DEF GrowthInv

\* With finitely many clients the pool maps no more blocks than they can use at
\* once, whatever they pop and push while a block is being mapped.
THEOREM Bounded ==
  FailuresAreSeen /\ IsFiniteSet(Thread) => (Spec => []GrowsWithDemand)
<1> SUFFICES ASSUME FailuresAreSeen, IsFiniteSet(Thread) PROVE Spec => []GrowsWithDemand
  OBVIOUS
<1>1. Init => GrowthInv
  BY InitGrowthInv
<1>2. ASSUME IInv, CountInv, GrowthInv, [Next]_vars PROVE GrowthInv'
  BY <1>2, LockStep, QuotaStep, DemandStep DEF GrowthInv
<1>3. GrowthInv => GrowsWithDemand
  BY DEF GrowthInv, DemandInv, GrowsWithDemand, Demand
<1>4. Spec => []GrowthInv
  BY <1>1, <1>2, InductiveInvariant, CountInvariant, PTL DEF Spec
<1> QED
  BY <1>3, <1>4, PTL

=============
