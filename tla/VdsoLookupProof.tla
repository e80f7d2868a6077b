--------------------------- MODULE VdsoLookupProof ---------------------------
(***************************************************************************)
(* Proofs about the symbol lookup of VdsoRng: for any auxiliary vectors,   *)
(* any images, any size of the box and of the address space, and any       *)
(* target, the loops find what the declarative Lookup says.  Every loop    *)
(* has an invariant that says what it has read; a loop inside another one  *)
(* keeps the invariants of those around it.                                *)
(***************************************************************************)
EXTENDS VdsoRngProof, WellFoundedInduction

\* What find_symbol returns for an image that can be read.
FirstProvided(im) == CHOOSE s \in Provided(im) : \A r \in Provided(im) : s <= r
Function(im) ==
  IF Target = None \/ Provided(im) = {} THEN None
  ELSE (Base(im) + Table(im, "SYMTAB")[FirstProvided(im)].value) % Space

Before(S, n) == {p \in S : p < n}

\* The loop over the auxiliary vector.
AuxvInv ==
  /\ \A n \in 1..(index - 1) : Entry(n).key # "NULL"
  /\ page_size = IF Before(Entries("PAGESZ"), index) = {} THEN None
                 ELSE Entry(Last(Before(Entries("PAGESZ"), index))).value
  /\ \A n \in Before(Entries("SYSINFO_EHDR"), index) :
       Entry(n).value # 0 /\ WellFormed(Elf[Entry(n).value])
  /\ func = IF Before(Entries("SYSINFO_EHDR"), index) = {} THEN None
            ELSE Function(Elf[Entry(Last(Before(Entries("SYSINFO_EHDR"), index))).value])

\* The image that is followed is the one of the current entry.
EhdrInv ==
  /\ HasEntry /\ Entry(index).key = "SYSINFO_EHDR"
  /\ Entry(index).value = elf /\ elf # 0 /\ elf \in DOMAIN Elf

\* The loop over the section headers, and its result.
ShdrInv ==
  /\ i \in 1..(Len(Image.shdrs) + 1)
  /\ \A n \in 1..(i - 1) : Image.shdrs[n].type # "DYNSYM"
CountInv == symbol_count \in Nat /\ Symbols(Image) = 1..symbol_count

\* The loop over the program headers, and its result.
PhdrInv ==
  /\ i \in 1..(Len(Image.phdrs) + 1)
  /\ vdso_dyn = IF Before(Dynamics(Image), i) = {} THEN None
                ELSE Image.phdrs[Last(Before(Dynamics(Image), i))].dyn
  /\ vdso_addr = IF Before(Code(Image), i) = {} THEN None
                 ELSE LET ph == Image.phdrs[Last(Before(Code(Image), i))]
                      IN  (Image.ehdr + ph.offset - ph.vaddr) % Space
LoadedInv ==
  /\ Code(Image) # {} /\ Dynamics(Image) # {}
  /\ vdso_addr = Base(Image) /\ vdso_dyn = Image.phdrs[Last(Dynamics(Image))].dyn

\* The loop over the dynamic section, and its result.
DynInv ==
  /\ i \in DOMAIN DynamicSection(Image)
  /\ \A q \in 1..(i - 1) : DynamicSection(Image)[q].tag # "NULL"
  /\ table \in [Tags -> {None} \cup 0..(Space - 1)]
  /\ \A tag \in Tags :
       /\ \A p \in Before(Tagged(Image, tag), i) : Address(Image, p) # 0
       /\ table[tag] = IF Before(Tagged(Image, tag), i) = {} THEN None
                       ELSE Address(Image, Last(Before(Tagged(Image, tag), i)))
TableInv ==
  /\ WellFormed(Image)
  /\ table = [tag \in Tags |-> Address(Image, Last(Tagged(Image, tag)))]

\* The loop over the symbols.
SymInv ==
  /\ i \in 1..(symbol_count + 1)
  /\ Target = None => i = 1
  /\ \A s \in Before(Named(Image), i) : Versions(Image, s) \notin {{}, {Target[2]}}

\* The definition d is one for symbol s.
DefinedBy(im, s, d) ==
  /\ ~Table(im, "VERDEF")[d].base
  /\ Ndx(Table(im, "VERDEF")[d].ndx) = Ndx(Table(im, "VERSYM")[s])

\* The loop over the version definitions.
VerInv ==
  /\ Target # None /\ i \in Named(Image)
  /\ v \in DOMAIN Table(Image, "VERDEF")
  /\ \A c \in 1..(v - 1) : ~DefinedBy(Image, i, c) /\ Table(Image, "VERDEF")[c].more

\* Which loops a call is in.
Place == {"auxv_new", "auxv", "shdr", "phdr", "dyn", "sym", "ver", "done", "open", "refused"}
InImage == {"shdr", "phdr", "dyn", "sym", "ver"}

LoopInv ==
  /\ at = "auxv_new" => index = 1
  /\ at \in InImage \cup {"auxv_new", "auxv"} => AuxvInv
  /\ at \in InImage => EhdrInv
  /\ at = "shdr" => ShdrInv
  /\ at \in InImage \ {"shdr"} => CountInv
  /\ at = "phdr" => PhdrInv
  /\ at \in {"dyn", "sym", "ver"} => LoadedInv
  /\ at = "dyn" => DynInv
  /\ at \in {"sym", "ver"} => TableInv /\ SymInv
  /\ at = "ver" => VerInv

FoundInv == at = "done" => found = None \/ found[1] \in 0..(Space - 1)

VectorInv ==
  /\ saved \in Seq([key : STRING, value : Nat])
  /\ \A n \in DOMAIN saved :
       saved[n].key = "SYSINFO_EHDR" => saved[n].value \in {0} \cup DOMAIN Elf

TypesInv ==
  /\ at \in Place /\ index \in 1..(MaxEntries + 1)
  /\ elf # None => elf \in DOMAIN Elf
  /\ func \in {None} \cup 0..(Space - 1)
  /\ vdso_addr \in {None} \cup 0..(Space - 1)
  /\ table \in [Tags -> {None} \cup 0..(Space - 1)]
  /\ function \in {None} \cup 0..(Space - 1)

LookupIInv == TypesInv /\ VectorInv /\ LoopInv /\ FoundInv /\ LookupCorrect

---------------------------------------------------------------------------
(* The positions before an index, and the last one of them *)

LEMMA LastIs ==
  ASSUME NEW S, S \subseteq Int, NEW n \in S, \A m \in S : m <= n
  PROVE  Last(S) = n
<1>1. \A m \in S : (\A k \in S : k <= m) => m = n
  OBVIOUS
<1> QED
  BY <1>1 DEF Last

\* A set of numbers has a least one, and a last one if it is bounded.
LEMMA LeastNumber ==
  ASSUME NEW V \in SUBSET Nat, V # {}
  PROVE  \E n \in V : \A m \in V : n <= m
<1> DEFINE R == OpToRel(<, Nat)
<1>1. IsWellFoundedOn(R, Nat)
  BY NatLessThanWellFounded
<1>2. \A x, y \in Nat : x < y => <<x, y>> \in R
  BY DEF OpToRel
<1> HIDE DEF R
<1>3. PICK n \in V : \A m \in V : <<m, n>> \notin R
  BY <1>1, WFMin
<1>4. \A m \in V : n <= m
  <2> SUFFICES ASSUME NEW m \in V PROVE ~(m < n)
    OBVIOUS
  <2> QED
    BY <1>2, <1>3
<1> QED
  BY <1>4

LEMMA LastExists ==
  ASSUME NEW k \in Nat, NEW V \in SUBSET (0..k), V # {}
  PROVE  Last(V) \in V /\ \A m \in V : m <= Last(V)
<1> DEFINE D == {k - m : m \in V}
<1>1. D \in SUBSET Nat /\ D # {}
  <2>1. \A m \in V : m \in 0..k
    OBVIOUS
  <2>2. \A m \in V : k - m \in Nat
    BY <2>1
  <2> QED
    BY <2>2
<1>2. PICK d \in D : \A e \in D : d <= e
  BY <1>1, LeastNumber
<1>3. PICK n \in V : d = k - n
  OBVIOUS
<1>4. \A m \in V : m <= n
  <2> SUFFICES ASSUME NEW m \in V PROVE m <= n
    OBVIOUS
  <2>1. d <= k - m
    BY <1>2
  <2> QED
    BY <1>3, <2>1
<1> QED
  BY <1>4 DEF Last

\* Nothing lies before the first position, everything before one behind the end.
LEMMA BeforeFirst ==
  ASSUME NEW S, S \subseteq Nat \ {0}
  PROVE  Before(S, 1) = {}
<1> SUFFICES ASSUME NEW p \in S, p < 1 PROVE FALSE
  BY DEF Before
<1> QED
  OBVIOUS

LEMMA BeforeEnd ==
  ASSUME NEW S, NEW n, \A p \in S : p < n
  PROVE  Before(S, n) = S
  BY DEF Before

\* One more position is the last one if it is in the set; otherwise nothing changes.
LEMMA BeforeNext ==
  ASSUME NEW S, S \subseteq Nat, NEW n \in Nat
  PROVE  /\ n \in S => /\ Before(S, n + 1) = Before(S, n) \cup {n}
                       /\ Before(S, n + 1) # {}
                       /\ Last(Before(S, n + 1)) = n
         /\ n \notin S => Before(S, n + 1) = Before(S, n)
<1>1. \A p \in S : p < n + 1 <=> p < n \/ p = n
  OBVIOUS
<1>2. \A p \in S : p \in Int /\ (p < n + 1 => p <= n)
  OBVIOUS
<1>3. ASSUME n \in S
      PROVE  Before(S, n + 1) = Before(S, n) \cup {n} /\ Last(Before(S, n + 1)) = n
  <2>1. n < n + 1
    OBVIOUS
  <2>2. Before(S, n + 1) = Before(S, n) \cup {n}
    BY <1>1, <1>3, <2>1, Zenon DEF Before
  <2>3. Before(S, n + 1) \subseteq Int /\ n \in Before(S, n + 1)
    BY <1>2, <1>3, <2>1 DEF Before
  <2>4. \A m \in Before(S, n + 1) : m <= n
    BY <1>2 DEF Before
  <2> QED
    BY <2>2, <2>3, <2>4, LastIs
<1>4. ASSUME n \notin S PROVE Before(S, n + 1) = Before(S, n)
  BY <1>1, <1>4, Zenon DEF Before
<1>5. n \in S => Before(S, n + 1) # {}
  BY <1>3
<1> QED
  BY <1>3, <1>4, <1>5

---------------------------------------------------------------------------
(* The loop over the auxiliary vector *)

LEMMA ElementOf ==
  ASSUME NEW R, NEW s \in Seq(R), NEW n \in DOMAIN s
  PROVE  s[n] \in R
  OBVIOUS

LEMMA EntryType ==
  ASSUME VectorInv, NEW n \in Nat \ {0}
  PROVE  /\ Entry(n).value \in Nat
         /\ Entry(n).key = "SYSINFO_EHDR" => Entry(n).value \in {0} \cup DOMAIN Elf
<1>1. CASE n <= Len(saved)
  <2>1. n \in DOMAIN saved
    BY <1>1 DEF VectorInv
  <2>2. saved[n] \in [key : STRING, value : Nat]
    BY <2>1, ElementOf, Zenon DEF VectorInv
  <2> QED
    BY <1>1, <2>1, <2>2 DEF VectorInv, Entry
<1>2. CASE ~(n <= Len(saved))
  BY <1>2 DEF Entry
<1> QED
  BY <1>1, <1>2

LEMMA EntriesPositive == \A key : Entries(key) \subseteq Nat \ {0}
  BY EntriesAssumption DEF Entries

\* What the vector says does not change.
LEMMA SameVector ==
  ASSUME saved' = saved
  PROVE  /\ \A n : Entry(n)' = Entry(n)
         /\ \A key : Entries(key)' = Entries(key)
         /\ Lookup' = Lookup
<1>1. \A n : Entry(n)' = Entry(n)
  BY DEF Entry
<1>2. \A key : Entries(key)' = Entries(key)
  BY <1>1 DEF Entries
<1>3. Lookup' = Lookup
  BY DEF Lookup, Entries, Entry
<1> QED
  BY <1>1, <1>2, <1>3

\* The current entry is one of its key's.
LEMMA CurrentEntry ==
  ASSUME AuxvInv, index \in 1..(MaxEntries + 1), HasEntry, NEW key
  PROVE  index \in Entries(key) <=> Entry(index).key = key
<1>1. index \in 1..MaxEntries
  BY EntriesAssumption DEF HasEntry
<1>2. \A m \in 1..index : m = index \/ m \in 1..(index - 1)
  BY <1>1
<1>3. \A m \in 1..index : Entry(m).key # "NULL"
  BY <1>2 DEF AuxvInv, HasEntry
<1> QED
  BY <1>1, <1>3 DEF Entries

LEMMA AuxvKeep ==
  ASSUME AuxvInv, UNCHANGED <<saved, index, func, page_size>>
  PROVE  AuxvInv'
  BY DEF AuxvInv, Before, Entries, Entry

\* One entry more: a page size and an image that has been followed to the end replace
\* what was found before.
LEMMA AuxvNext ==
  ASSUME VectorInv, AuxvInv, index \in 1..(MaxEntries + 1), HasEntry,
         saved' = saved, index' = index + 1,
         page_size' = IF Entry(index).key = "PAGESZ" THEN Entry(index).value ELSE page_size,
         IF Entry(index).key = "SYSINFO_EHDR"
         THEN /\ Entry(index).value # 0 /\ WellFormed(Elf[Entry(index).value])
              /\ func' = Function(Elf[Entry(index).value])
         ELSE func' = func
  PROVE  AuxvInv'
<1> DEFINE P == Entries("PAGESZ")
           E == Entries("SYSINFO_EHDR")
<1>1. index \in Nat /\ P \subseteq Nat /\ E \subseteq Nat
  BY EntriesPositive
<1>2. /\ index \in P => /\ Before(P, index + 1) = Before(P, index) \cup {index}
                        /\ Last(Before(P, index + 1)) = index
      /\ index \notin P => Before(P, index + 1) = Before(P, index)
  BY <1>1, BeforeNext
<1>3. /\ index \in E => /\ Before(E, index + 1) = Before(E, index) \cup {index}
                        /\ Last(Before(E, index + 1)) = index
      /\ index \notin E => Before(E, index + 1) = Before(E, index)
  BY <1>1, BeforeNext
<1>4. index \in P <=> Entry(index).key = "PAGESZ"
  BY CurrentEntry
<1>5. index \in E <=> Entry(index).key = "SYSINFO_EHDR"
  BY CurrentEntry
<1>6. \A n \in 1..((index + 1) - 1) : Entry(n).key # "NULL"
  <2>1. \A n \in 1..((index + 1) - 1) : n \in 1..(index - 1) \/ n = index
    BY <1>1
  <2> QED
    BY <2>1 DEF AuxvInv, HasEntry
<1>7. page_size' = IF Before(P, index + 1) = {} THEN None
                   ELSE Entry(Last(Before(P, index + 1))).value
  <2>1. CASE index \in P
    BY <1>2, <1>4, <2>1
  <2>2. CASE index \notin P
    BY <1>2, <1>4, <2>2 DEF AuxvInv
  <2> QED
    BY <2>1, <2>2
<1>8. \A n \in Before(E, index + 1) : Entry(n).value # 0 /\ WellFormed(Elf[Entry(n).value])
  <2>1. \A n \in Before(E, index) : Entry(n).value # 0 /\ WellFormed(Elf[Entry(n).value])
    BY DEF AuxvInv
  <2> HIDE DEF E
  <2>2. CASE index \in E
    BY <1>3, <1>5, <2>1, <2>2
  <2>3. CASE index \notin E
    BY <1>3, <2>1, <2>3
  <2> QED
    BY <2>2, <2>3
<1>9. func' = IF Before(E, index + 1) = {} THEN None
              ELSE Function(Elf[Entry(Last(Before(E, index + 1))).value])
  <2>1. CASE index \in E
    BY <1>3, <1>5, <2>1
  <2>2. CASE index \notin E
    BY <1>3, <1>5, <2>2 DEF AuxvInv
  <2> QED
    BY <2>1, <2>2
<1>10. (\A n \in 1..(index - 1) : Entry(n).key # "NULL")'
  BY <1>6 DEF Entry
<1>11. (page_size = IF Before(Entries("PAGESZ"), index) = {} THEN None
                   ELSE Entry(Last(Before(Entries("PAGESZ"), index))).value)'
  BY <1>7 DEF Before, Entries, Entry
<1>12. (\A n \in Before(Entries("SYSINFO_EHDR"), index) :
          Entry(n).value # 0 /\ WellFormed(Elf[Entry(n).value]))'
  BY <1>8 DEF Before, Entries, Entry
<1>13. (func = IF Before(Entries("SYSINFO_EHDR"), index) = {} THEN None
              ELSE Function(Elf[Entry(Last(Before(Entries("SYSINFO_EHDR"), index))).value]))'
  BY <1>9 DEF Before, Entries, Entry
<1> QED
  BY <1>10, <1>11, <1>12, <1>13 DEF AuxvInv

---------------------------------------------------------------------------
(* Images *)

\* The least number of a set, where a loop stops.
LEMMA FirstIs ==
  ASSUME NEW S, S \subseteq Int, NEW n \in S, \A m \in S : n <= m
  PROVE  (CHOOSE p \in S : \A q \in S : p <= q) = n
<1>1. \A m \in S : (\A k \in S : m <= k) => m = n
  OBVIOUS
<1> QED
  BY <1>1

\* Where an image has its entries and what they hold.
LEMMA ImageTypes ==
  ASSUME NEW im, IsImage(im)
  PROVE  /\ im.ehdr \in Nat
         /\ Len(im.shdrs) \in Nat /\ DOMAIN im.shdrs = 1..Len(im.shdrs)
         /\ Len(im.phdrs) \in Nat /\ DOMAIN im.phdrs = 1..Len(im.phdrs)
         /\ \A n \in DOMAIN im.shdrs :
              /\ im.shdrs[n].size \in Nat
              /\ im.shdrs[n].type = "DYNSYM" => im.shdrs[n].entsize \in Nat \ {0}
         /\ \A n \in DOMAIN im.phdrs :
              /\ im.phdrs[n].exec \in BOOLEAN /\ im.phdrs[n].dyn \in Nat
              /\ im.phdrs[n].offset \in Nat /\ im.phdrs[n].vaddr \in Nat
<1> DEFINE S == [type : STRING, size : Nat, entsize : Nat]
           P == [type : STRING, exec : BOOLEAN, offset : Nat, vaddr : Nat, dyn : Nat]
<1>1. im.ehdr \in Nat /\ im.shdrs \in Seq(S) /\ im.phdrs \in Seq(P)
  BY DEF IsImage
<1>2. \A n \in DOMAIN im.shdrs : im.shdrs[n].type = "DYNSYM" => im.shdrs[n].entsize # 0
  BY DEF IsImage
<1>3. \A n \in DOMAIN im.shdrs : im.shdrs[n] \in S
  BY <1>1, ElementOf, Zenon
<1>4. \A n \in DOMAIN im.phdrs : im.phdrs[n] \in P
  BY <1>1, ElementOf, Zenon
<1>5. /\ Len(im.shdrs) \in Nat /\ DOMAIN im.shdrs = 1..Len(im.shdrs)
      /\ Len(im.phdrs) \in Nat /\ DOMAIN im.phdrs = 1..Len(im.phdrs)
  <2> HIDE DEF S, P
  <2> QED
    BY <1>1
<1>6. \A n \in DOMAIN im.shdrs : im.shdrs[n].size \in Nat /\ im.shdrs[n].entsize \in Nat
  BY <1>3
<1>7. \A n \in DOMAIN im.phdrs :
        /\ im.phdrs[n].exec \in BOOLEAN /\ im.phdrs[n].dyn \in Nat
        /\ im.phdrs[n].offset \in Nat /\ im.phdrs[n].vaddr \in Nat
  BY <1>4
<1> QED
  BY <1>1, <1>2, <1>5, <1>6, <1>7

\* The number of symbols of the first DYNSYM section, wherever it is.
LEMMA SymbolsFound ==
  ASSUME NEW im, IsImage(im), NEW n \in DOMAIN im.shdrs, im.shdrs[n].type = "DYNSYM",
         \A m \in 1..(n - 1) : im.shdrs[m].type # "DYNSYM"
  PROVE  /\ im.shdrs[n].size \div im.shdrs[n].entsize \in Nat
         /\ Symbols(im) = 1..(im.shdrs[n].size \div im.shdrs[n].entsize)
<1> DEFINE D == {p \in DOMAIN im.shdrs : im.shdrs[p].type = "DYNSYM"}
<1>1. D \subseteq Int /\ n \in D /\ D # {}
  BY ImageTypes
<1>2. \A m \in D : n <= m
  <2> SUFFICES ASSUME NEW m \in D, ~(n <= m) PROVE FALSE
    OBVIOUS
  <2>1. m \in 1..(n - 1)
    BY <1>1, ImageTypes
  <2> QED
    BY <2>1
<1>3. (CHOOSE p \in D : \A q \in D : p <= q) = n
  <2> HIDE DEF D
  <2> QED
    BY <1>1, <1>2, FirstIs
<1>4. Symbols(im) = 1..(im.shdrs[n].size \div im.shdrs[n].entsize)
  BY <1>1, <1>3 DEF Symbols
<1>5. im.shdrs[n].size \in Nat /\ im.shdrs[n].entsize \in Nat \ {0}
  BY ImageTypes
<1> QED
  BY <1>4, <1>5

LEMMA NoSymbols ==
  ASSUME NEW im, \A m \in DOMAIN im.shdrs : im.shdrs[m].type # "DYNSYM"
  PROVE  Symbols(im) = 1..0
<1>1. {p \in DOMAIN im.shdrs : im.shdrs[p].type = "DYNSYM"} = {}
  OBVIOUS
<1> QED
  BY <1>1, Zenon DEF Symbols

LEMMA SymbolsPositive ==
  ASSUME NEW im
  PROVE  Symbols(im) \subseteq Nat \ {0}
  BY DEF Symbols

\* Where an image lies: the remainder is an address whatever is added up.
LEMMA Modulo ==
  ASSUME NEW a \in Int
  PROVE  a % Space \in 0..(Space - 1)
  BY EntriesAssumption

LEMMA BaseType ==
  ASSUME NEW im, IsImage(im), Code(im) # {}
  PROVE  Base(im) \in 0..(Space - 1)
<1>1. Code(im) \subseteq 1..Len(im.phdrs) /\ Len(im.phdrs) \in Nat
  BY ImageTypes, Zenon DEF Code
<1>2. Code(im) \in SUBSET (0..Len(im.phdrs))
  BY <1>1
<1>3. Last(Code(im)) \in Code(im)
  BY <1>1, <1>2, LastExists, Zenon
<1>4. Last(Code(im)) \in DOMAIN im.phdrs
  BY <1>3 DEF Code
<1>5. /\ im.ehdr \in Nat
      /\ im.phdrs[Last(Code(im))].offset \in Nat /\ im.phdrs[Last(Code(im))].vaddr \in Nat
  BY <1>4, ImageTypes, Zenon
<1>6. im.ehdr + im.phdrs[Last(Code(im))].offset - im.phdrs[Last(Code(im))].vaddr \in Int
  BY <1>5
<1> QED
  BY <1>6, Modulo DEF Base

\* The function is an address exactly if some symbol is provided.
LEMMA FunctionType ==
  ASSUME NEW im, IsImage(im), WellFormed(im)
  PROVE  /\ Function(im) \in {None} \cup 0..(Space - 1)
         /\ Function(im) = None <=> (Target = None \/ Provided(im) = {})
<1>1. CASE Target = None \/ Provided(im) = {}
  BY <1>1 DEF Function
<1>2. CASE Target # None /\ Provided(im) # {}
  <2>1. Provided(im) \subseteq Symbols(im)
    BY DEF Provided, Named
  <2>2. Provided(im) \in SUBSET Nat
    BY <2>1, SymbolsPositive
  <2>3. FirstProvided(im) \in Provided(im)
    <3>1. \E s \in Provided(im) : \A r \in Provided(im) : s <= r
      BY <1>2, <2>2, LeastNumber, Zenon
    <3> QED
      BY <3>1, Zenon DEF FirstProvided
  <2>4. Table(im, "SYMTAB")[FirstProvided(im)].value \in Nat
    BY <2>1, <2>3, Zenon DEF IsImage
  <2>5. Base(im) \in 0..(Space - 1)
    BY BaseType, Zenon DEF WellFormed
  <2>6. Base(im) + Table(im, "SYMTAB")[FirstProvided(im)].value \in Int
    BY <2>4, <2>5, EntriesAssumption
  <2>7. (Base(im) + Table(im, "SYMTAB")[FirstProvided(im)].value) % Space \in 0..(Space - 1)
    BY <2>6, Modulo, Zenon
  <2>8. Function(im) \in 0..(Space - 1)
    BY <1>2, <2>7, Zenon DEF Function
  <2>9. None \notin 0..(Space - 1)
    BY NoneAssumption, EntriesAssumption
  <2> QED
    BY <1>2, <2>8, <2>9, Zenon
<1> QED
  BY <1>1, <1>2

---------------------------------------------------------------------------
(* What the end of the loops means for Lookup *)

LEMMA AllRead ==
  ASSUME index \in 1..(MaxEntries + 1), ~HasEntry, NEW key
  PROVE  Before(Entries(key), index) = Entries(key)
<1> SUFFICES ASSUME NEW n \in Entries(key) PROVE n < index
  BY BeforeEnd, Zenon
<1>1. n \in 1..MaxEntries /\ \A m \in 1..n : Entry(m).key # "NULL"
  BY DEF Entries
<1>2. CASE index > MaxEntries
  BY <1>1, <1>2, EntriesAssumption
<1>3. CASE index <= MaxEntries
  <2>1. Entry(index).key = "NULL"
    BY <1>3 DEF HasEntry
  <2>2. ~(index <= n)
    BY <1>1, <2>1
  <2> QED
    BY <1>1, <2>2
<1> QED
  BY <1>2, <1>3, EntriesAssumption

LEMMA LastEntry ==
  ASSUME NEW key, Entries(key) # {}
  PROVE  Last(Entries(key)) \in Entries(key) /\ Last(Entries(key)) \in Nat \ {0}
<1>1. Entries(key) \in SUBSET (0..MaxEntries) /\ MaxEntries \in Nat
  BY EntriesAssumption DEF Entries
<1>2. Last(Entries(key)) \in Entries(key)
  BY <1>1, LastExists, Zenon
<1> QED
  BY <1>2, EntriesPositive

\* The call has read the whole vector and has not failed before.
LEMMA EndOfVector ==
  ASSUME VectorInv, AuxvInv, index \in 1..(MaxEntries + 1), ~HasEntry
  PROVE  Lookup = IF None \in {func, page_size} THEN None ELSE <<func, page_size>>
<1> DEFINE P == Entries("PAGESZ")
           E == Entries("SYSINFO_EHDR")
           last == Elf[Entry(Last(E)).value]
<1>1. Before(P, index) = P /\ Before(E, index) = E
  BY AllRead, Zenon
<1>2. page_size = IF P = {} THEN None ELSE Entry(Last(P)).value
  BY <1>1 DEF AuxvInv
<1>3. func = IF E = {} THEN None ELSE Function(last)
  BY <1>1 DEF AuxvInv
<1>4. \A n \in E : Entry(n).value # 0 /\ WellFormed(Elf[Entry(n).value])
  BY <1>1 DEF AuxvInv
<1>5. page_size = None <=> P = {}
  <2>1. ASSUME P # {} PROVE Entry(Last(P)).value \in Nat
    BY <2>1, LastEntry, EntryType, Zenon
  <2> QED
    BY <1>2, <2>1, NoneAssumption, Zenon
<1>6. E # {} => (func = None <=> (Target = None \/ Provided(last) = {}))
  <2> SUFFICES ASSUME E # {} PROVE func = None <=> (Target = None \/ Provided(last) = {})
    OBVIOUS
  <2>1. Last(E) \in E /\ Last(E) \in Nat \ {0}
    BY LastEntry, Zenon
  <2>2. Entry(Last(E)).key = "SYSINFO_EHDR"
    BY <2>1, Zenon DEF Entries
  <2>3. Entry(Last(E)).value # 0 /\ WellFormed(last)
    BY <1>4, <2>1, Zenon
  <2>4. Entry(Last(E)).value \in DOMAIN Elf
    BY <2>1, <2>2, <2>3, EntryType, Zenon
  <2>5. IsImage(last)
    BY <2>4, ElfAssumption, Zenon
  <2> QED
    BY <1>3, <2>3, <2>5, FunctionType, Zenon
<1> DEFINE Nothing == \/ Target = None \/ E = {} \/ P = {}
                      \/ \E n \in E : Entry(n).value = 0
                      \/ \E n \in E : ~WellFormed(Elf[Entry(n).value])
                      \/ Provided(last) = {}
<1>7. Lookup = IF Nothing THEN None
               ELSE <<(Base(last) + Table(last, "SYMTAB")[FirstProvided(last)].value) % Space,
                      Entry(Last(P)).value>>
  BY Zenon DEF Lookup, FirstProvided
<1>8. CASE Nothing
  <2>1. None \in {func, page_size}
    BY <1>3, <1>4, <1>5, <1>6, <1>8, Zenon
  <2> QED
    BY <1>7, <1>8, <2>1, Zenon
<1>9. CASE ~Nothing
  <2>1. func # None /\ page_size # None
    BY <1>5, <1>6, <1>9, Zenon
  <2>2. func = (Base(last) + Table(last, "SYMTAB")[FirstProvided(last)].value) % Space
    BY <1>3, <1>9, Zenon DEF Function
  <2>3. page_size = Entry(Last(P)).value
    BY <1>2, <1>9, Zenon
  <2> QED
    BY <1>7, <1>9, <2>1, <2>2, <2>3, Zenon
<1> QED
  BY <1>8, <1>9, Zenon

\* An image that cannot be read leaves the call empty-handed, as it should.
LEMMA FailedRead ==
  ASSUME AuxvInv, index \in 1..(MaxEntries + 1), HasEntry, Entry(index).key = "SYSINFO_EHDR",
         Entry(index).value = 0 \/ ~WellFormed(Elf[Entry(index).value])
  PROVE  Lookup = None
<1>1. index \in Entries("SYSINFO_EHDR")
  BY CurrentEntry
<1> QED
  BY <1>1, Zenon DEF Lookup

---------------------------------------------------------------------------
(* The steps: what those that end a loop have in common *)

\* The call ends empty-handed.
LEMMA FailStep ==
  ASSUME TypesInv, VectorInv, Fail, index = 1 \/ Lookup = None, function' = function
  PROVE  LookupIInv'
<1>1. /\ at' = "done" /\ found' = None /\ saved' = saved
      /\ UNCHANGED <<index, func, page_size, elf, vdso_addr, table>>
  BY DEF Fail, Return, locals, auxv, phdr
<1>2. TypesInv'
  BY <1>1 DEF TypesInv, Place
<1>3. VectorInv'
  BY <1>1 DEF VectorInv
<1>4. LoopInv'
  BY <1>1 DEF LoopInv, InImage
<1>5. FoundInv'
  BY <1>1 DEF FoundInv
<1>6. Lookup' = Lookup
  BY <1>1, SameVector
<1>7. LookupCorrect'
  BY <1>1, <1>6 DEF LookupCorrect, TypesInv
<1> QED
  BY <1>2, <1>3, <1>4, <1>5, <1>7 DEF LookupIInv

\* The image has been followed to the end, and the scan of the vector goes on.
LEMMA FoundStep ==
  ASSUME TypesInv, VectorInv, AuxvInv, EhdrInv, WellFormed(Image), NEW f, Found(f),
         f = Function(Image), function' = function
  PROVE  LookupIInv'
<1>1. /\ at' = "auxv" /\ func' = f /\ index' = index + 1
      /\ UNCHANGED <<saved, page_size, elf, vdso_addr, table>>
  BY DEF Found, phdr
<1>2. IsImage(Image)
  BY ElfAssumption DEF EhdrInv, Image
<1>3. f \in {None} \cup 0..(Space - 1)
  BY <1>2, FunctionType
<1>4. index \in 1..MaxEntries
  BY EntriesAssumption DEF TypesInv, EhdrInv, HasEntry
<1>5. TypesInv'
  BY <1>1, <1>3, <1>4, EntriesAssumption DEF TypesInv, Place
<1>6. VectorInv'
  BY <1>1 DEF VectorInv
<1>7. AuxvInv'
  <2>1. HasEntry /\ Entry(index).key = "SYSINFO_EHDR" /\ Entry(index).value # 0
    BY DEF EhdrInv
  <2>2. Image = Elf[Entry(index).value]
    BY DEF EhdrInv, Image
  <2>3. page_size' = IF Entry(index).key = "PAGESZ" THEN Entry(index).value ELSE page_size
    BY <1>1, <2>1
  <2>4. /\ WellFormed(Elf[Entry(index).value])
        /\ func' = Function(Elf[Entry(index).value])
    BY <1>1, <2>2
  <2> QED
    BY <1>1, <1>4, <2>1, <2>3, <2>4, AuxvNext, EntriesAssumption DEF TypesInv
<1>8. LoopInv'
  BY <1>1, <1>7 DEF LoopInv, InImage
<1>9. FoundInv' /\ LookupCorrect'
  BY <1>1 DEF FoundInv, LookupCorrect
<1> QED
  BY <1>5, <1>6, <1>8, <1>9 DEF LookupIInv

\* A step from one loop over the image to another, or of one of them.
LEMMA ImageStep ==
  ASSUME TypesInv, VectorInv, AuxvInv, EhdrInv, at' \in InImage,
         UNCHANGED <<saved, auxv, elf, function>>,
         vdso_addr' \in {None} \cup 0..(Space - 1),
         table' \in [Tags -> {None} \cup 0..(Space - 1)]
  PROVE  /\ TypesInv' /\ VectorInv' /\ AuxvInv' /\ EhdrInv' /\ FoundInv' /\ LookupCorrect'
         /\ Image' = Image
<1>1. UNCHANGED <<saved, index, func, page_size, elf, function>>
  BY DEF auxv
<1>2. TypesInv'
  BY <1>1 DEF TypesInv, Place, InImage
<1>3. VectorInv' /\ EhdrInv' /\ Image' = Image
  BY <1>1 DEF VectorInv, EhdrInv, HasEntry, Entry, Image
<1>4. AuxvInv'
  BY <1>1, AuxvKeep
<1>5. FoundInv' /\ LookupCorrect'
  BY DEF FoundInv, LookupCorrect, InImage
<1> QED
  BY <1>2, <1>3, <1>4, <1>5

\* What the loops before have found stays as it is.
LEMMA CountKeep ==
  ASSUME CountInv, Image' = Image, symbol_count' = symbol_count
  PROVE  CountInv'
  BY DEF CountInv

LEMMA LoadedKeep ==
  ASSUME LoadedInv, Image' = Image, phdr' = phdr
  PROVE  LoadedInv'
  BY DEF LoadedInv, phdr

LEMMA TableKeep ==
  ASSUME TableInv, Image' = Image, table' = table
  PROVE  TableInv'
  BY DEF TableInv

---------------------------------------------------------------------------
(* The steps of the loop over the vector *)

LEMMA AuxvNewStep ==
  ASSUME LookupIInv, AuxvNew, function' = function
  PROVE  LookupIInv'
<1>1. TypesInv /\ VectorInv /\ index = 1 /\ AuxvInv
  BY DEF LookupIInv, LoopInv, AuxvNew, InImage
<1>2. CASE Fail
  BY <1>1, <1>2, FailStep
<1>3. CASE at' = "auxv" /\ UNCHANGED <<saved, locals, found>>
  <2>1. /\ at' = "auxv"
        /\ UNCHANGED <<saved, index, func, page_size, elf, vdso_addr, table, function>>
    BY <1>3 DEF locals, auxv, phdr
  <2>2. AuxvInv'
    BY <1>1, <2>1, AuxvKeep
  <2>3. TypesInv' /\ VectorInv'
    BY <1>1, <2>1 DEF TypesInv, VectorInv, Place
  <2>4. LoopInv'
    BY <2>1, <2>2 DEF LoopInv, InImage
  <2>5. FoundInv' /\ LookupCorrect'
    BY <2>1 DEF FoundInv, LookupCorrect
  <2> QED
    BY <2>3, <2>4, <2>5 DEF LookupIInv
<1> QED
  BY <1>2, <1>3 DEF AuxvNew

LEMMA NextEntryStep ==
  ASSUME LookupIInv, NextEntry, function' = function
  PROVE  LookupIInv'
<1>1. TypesInv /\ VectorInv /\ AuxvInv /\ HasEntry
  BY DEF LookupIInv, LoopInv, NextEntry, InImage
<1>2. /\ at' = "auxv" /\ index' = index + 1 /\ Entry(index).key # "SYSINFO_EHDR"
      /\ page_size' = IF Entry(index).key = "PAGESZ" THEN Entry(index).value ELSE page_size
      /\ UNCHANGED <<saved, func, elf, vdso_addr, table>>
  BY DEF NextEntry, phdr
<1>3. index \in 1..MaxEntries
  BY <1>1, EntriesAssumption DEF TypesInv, HasEntry
<1>4. AuxvInv'
  BY <1>1, <1>2, AuxvNext DEF TypesInv
<1>5. TypesInv'
  BY <1>1, <1>2, <1>3, EntriesAssumption DEF TypesInv, Place
<1>6. VectorInv' /\ FoundInv' /\ LookupCorrect'
  BY <1>1, <1>2 DEF VectorInv, FoundInv, LookupCorrect
<1>7. LoopInv'
  BY <1>2, <1>4 DEF LoopInv, InImage
<1> QED
  BY <1>5, <1>6, <1>7 DEF LookupIInv

LEMMA NextEhdrStep ==
  ASSUME LookupIInv, NextEhdr, function' = function
  PROVE  LookupIInv'
<1>1. /\ TypesInv /\ VectorInv /\ AuxvInv /\ HasEntry
      /\ Entry(index).key = "SYSINFO_EHDR"
  BY DEF LookupIInv, LoopInv, NextEhdr, InImage
<1>2. CASE Entry(index).value = 0 /\ Fail
  <2>1. Lookup = None
    BY <1>1, <1>2, FailedRead DEF TypesInv
  <2> QED
    BY <1>1, <1>2, <2>1, FailStep
<1>3. CASE Entry(index).value # 0
  <2>1. /\ at' = "shdr" /\ i' = 1 /\ elf' = Entry(index).value
        /\ UNCHANGED <<saved, index, func, page_size, vdso_addr, table>>
    BY <1>3 DEF NextEhdr, auxv, phdr
  <2>2. Entry(index).value \in DOMAIN Elf
    BY <1>1, <1>3, EntryType, EntriesAssumption DEF TypesInv
  <2>3. AuxvInv'
    BY <1>1, <2>1, AuxvKeep
  <2>4. EhdrInv'
    BY <1>1, <1>3, <2>1, <2>2 DEF EhdrInv, HasEntry, Entry
  <2>5. Len(Elf[Entry(index).value].shdrs) \in Nat
    BY <2>2, ElfAssumption, ImageTypes
  <2>6. ShdrInv'
    BY <2>1, <2>5 DEF ShdrInv, Image
  <2>7. TypesInv' /\ VectorInv'
    BY <1>1, <2>1, <2>2 DEF TypesInv, VectorInv, Place
  <2>8. LoopInv'
    BY <2>1, <2>3, <2>4, <2>6 DEF LoopInv, InImage
  <2>9. FoundInv' /\ LookupCorrect'
    BY <2>1 DEF FoundInv, LookupCorrect
  <2> QED
    BY <2>7, <2>8, <2>9 DEF LookupIInv
<1> QED
  BY <1>2, <1>3 DEF NextEhdr

LEMMA EndAuxvStep ==
  ASSUME LookupIInv, EndAuxv, function' = function
  PROVE  LookupIInv'
<1>1. TypesInv /\ VectorInv /\ AuxvInv /\ ~HasEntry
  BY DEF LookupIInv, LoopInv, EndAuxv, InImage
<1>2. /\ at' = "done" /\ saved' = saved
      /\ found' = IF None \in {func, page_size} THEN None ELSE <<func, page_size>>
      /\ UNCHANGED <<index, func, page_size, elf, vdso_addr, table>>
  BY DEF EndAuxv, Return, locals, auxv, phdr
<1>3. found' = Lookup
  BY <1>1, <1>2, EndOfVector DEF TypesInv
<1>4. Lookup' = Lookup
  BY <1>2, SameVector
<1>5. FoundInv'
  BY <1>1, <1>2 DEF FoundInv, TypesInv
<1>6. TypesInv' /\ VectorInv'
  BY <1>1, <1>2 DEF TypesInv, VectorInv, Place
<1>7. LoopInv'
  BY <1>2 DEF LoopInv, InImage
<1>8. LookupCorrect'
  BY <1>3, <1>4 DEF LookupCorrect
<1> QED
  BY <1>5, <1>6, <1>7, <1>8 DEF LookupIInv

---------------------------------------------------------------------------
(* The steps of the loops over the sections and the headers *)

\* What every step inside an image may rely on.
LEMMA InsideImage ==
  ASSUME LookupIInv, at \in InImage
  PROVE  /\ TypesInv /\ VectorInv /\ AuxvInv /\ EhdrInv /\ IsImage(Image)
         /\ at # "shdr" => CountInv
         /\ at \in {"dyn", "sym", "ver"} => LoadedInv
<1>1. TypesInv /\ VectorInv /\ AuxvInv /\ EhdrInv
  BY DEF LookupIInv, LoopInv
<1>2. IsImage(Image)
  BY <1>1, ElfAssumption DEF EhdrInv, Image
<1> QED
  BY <1>1, <1>2 DEF LookupIInv, LoopInv

\* The current image cannot be read.
LEMMA UnreadStep ==
  ASSUME LookupIInv, at \in InImage, ~WellFormed(Image), Fail, function' = function
  PROVE  LookupIInv'
<1>1. TypesInv /\ VectorInv /\ AuxvInv /\ EhdrInv
  BY InsideImage
<1>2. Lookup = None
  BY <1>1, FailedRead DEF TypesInv, EhdrInv, Image
<1> QED
  BY <1>1, <1>2, FailStep

LEMMA NextShdrStep ==
  ASSUME LookupIInv, NextShdr, function' = function
  PROVE  LookupIInv'
<1>1. at = "shdr" /\ at \in InImage /\ ShdrInv
  BY DEF LookupIInv, LoopInv, NextShdr, InImage
<1>2. TypesInv /\ VectorInv /\ AuxvInv /\ EhdrInv /\ IsImage(Image)
  BY <1>1, InsideImage
<1>3. /\ at' = "shdr" /\ i' = i + 1 /\ i <= Len(Image.shdrs) /\ Image.shdrs[i].type # "DYNSYM"
      /\ UNCHANGED <<saved, auxv, elf, vdso_addr, table>>
  BY <1>1 DEF NextShdr, phdr
<1>4. /\ TypesInv' /\ VectorInv' /\ AuxvInv' /\ EhdrInv' /\ FoundInv' /\ LookupCorrect'
      /\ Image' = Image
  BY <1>1, <1>2, <1>3, ImageStep DEF TypesInv
<1>5. Len(Image.shdrs) \in Nat
  BY <1>2, ImageTypes
<1>6. i + 1 \in 1..(Len(Image.shdrs) + 1)
  BY <1>1, <1>3, <1>5 DEF ShdrInv
<1>7. \A n \in 1..((i + 1) - 1) : Image.shdrs[n].type # "DYNSYM"
  <2>1. \A n \in 1..((i + 1) - 1) : n \in 1..(i - 1) \/ n = i
    BY <1>1, <1>5 DEF ShdrInv
  <2> QED
    BY <1>1, <1>3, <2>1 DEF ShdrInv
<1>8. ShdrInv'
  BY <1>3, <1>4, <1>6, <1>7 DEF ShdrInv
<1>9. LoopInv'
  BY <1>3, <1>4, <1>8 DEF LoopInv, InImage
<1> QED
  BY <1>4, <1>9 DEF LookupIInv

\* Headers are counted from 1.
LEMMA HeadersPositive ==
  ASSUME NEW im, IsImage(im)
  PROVE  /\ Code(im) \subseteq 1..Len(im.phdrs) /\ Dynamics(im) \subseteq 1..Len(im.phdrs)
         /\ Len(im.phdrs) \in Nat
  BY ImageTypes, Zenon DEF Code, Dynamics

LEMMA EndShdrStep ==
  ASSUME LookupIInv, EndShdr, function' = function
  PROVE  LookupIInv'
<1>1. at = "shdr" /\ at \in InImage /\ ShdrInv
  BY DEF LookupIInv, LoopInv, EndShdr, InImage
<1>2. TypesInv /\ VectorInv /\ AuxvInv /\ EhdrInv /\ IsImage(Image)
  BY <1>1, InsideImage
<1>3. /\ at' = "phdr" /\ i' = 1 /\ vdso_addr' = None /\ vdso_dyn' = None
      /\ UNCHANGED <<saved, auxv, elf, table>>
  BY DEF EndShdr
<1>4. /\ TypesInv' /\ VectorInv' /\ AuxvInv' /\ EhdrInv' /\ FoundInv' /\ LookupCorrect'
      /\ Image' = Image
  BY <1>2, <1>3, ImageStep DEF TypesInv, InImage
<1>5. Len(Image.shdrs) \in Nat /\ DOMAIN Image.shdrs = 1..Len(Image.shdrs)
  BY <1>2, ImageTypes
<1>6. symbol_count' \in Nat /\ Symbols(Image) = 1..symbol_count'
  <2>1. CASE i > Len(Image.shdrs)
    <3>1. \A m \in DOMAIN Image.shdrs : m \in 1..(i - 1)
      BY <1>1, <1>5, <2>1 DEF ShdrInv
    <3>2. Symbols(Image) = 1..0
      BY <1>1, <3>1, NoSymbols DEF ShdrInv
    <3>3. symbol_count' = 0
      BY <2>1, <1>1, <1>5 DEF EndShdr, ShdrInv
    <3> QED
      BY <3>2, <3>3
  <2>2. CASE ~(i > Len(Image.shdrs))
    <3>1. i \in DOMAIN Image.shdrs
      BY <1>1, <1>5, <2>2 DEF ShdrInv
    <3>2. /\ Image.shdrs[i].type = "DYNSYM"
          /\ symbol_count' = Image.shdrs[i].size \div Image.shdrs[i].entsize
      BY <2>2 DEF EndShdr
    <3>3. \A m \in 1..(i - 1) : Image.shdrs[m].type # "DYNSYM"
      BY <1>1 DEF ShdrInv
    <3> QED
      BY <1>2, <3>1, <3>2, <3>3, SymbolsFound
  <2> QED
    BY <2>1, <2>2
<1>7. CountInv'
  BY <1>4, <1>6 DEF CountInv
<1>8. Before(Dynamics(Image), 1) = {} /\ Before(Code(Image), 1) = {}
  <2>1. Dynamics(Image) \subseteq Nat \ {0} /\ Code(Image) \subseteq Nat \ {0}
    BY <1>2, HeadersPositive
  <2> QED
    BY <2>1, BeforeFirst
<1>9. PhdrInv'
  <2>1. 1 \in 1..(Len(Image.phdrs) + 1)
    BY <1>2, ImageTypes
  <2> QED
    BY <1>3, <1>4, <1>8, <2>1 DEF PhdrInv
<1>10. LoopInv'
  BY <1>3, <1>4, <1>7, <1>9 DEF LoopInv, InImage
<1> QED
  BY <1>4, <1>10 DEF LookupIInv

LEMMA NextPhdrStep ==
  ASSUME LookupIInv, NextPhdr, function' = function
  PROVE  LookupIInv'
<1> DEFINE D  == Dynamics(Image)
           C  == Code(Image)
           ph == Image.phdrs[i]
           A(p) == (Image.ehdr + Image.phdrs[p].offset - Image.phdrs[p].vaddr) % Space
<1>1. at = "phdr" /\ at \in InImage /\ PhdrInv
  BY DEF LookupIInv, LoopInv, NextPhdr, InImage
<1>2. TypesInv /\ VectorInv /\ AuxvInv /\ EhdrInv /\ IsImage(Image) /\ CountInv
  BY <1>1, InsideImage
<1>3. /\ at' = "phdr" /\ i' = i + 1 /\ i <= Len(Image.phdrs)
      /\ vdso_dyn' = IF ph.type = "DYNAMIC" THEN ph.dyn ELSE vdso_dyn
      /\ vdso_addr' = IF ph.type = "LOAD" /\ ph.exec THEN A(i) ELSE vdso_addr
      /\ UNCHANGED <<saved, auxv, elf, symbol_count, table>>
  BY DEF NextPhdr
<1>4. Len(Image.phdrs) \in Nat /\ DOMAIN Image.phdrs = 1..Len(Image.phdrs) /\ i \in DOMAIN Image.phdrs
  BY <1>1, <1>2, <1>3, ImageTypes DEF PhdrInv
<1>5. A(i) \in 0..(Space - 1)
  <2>1. Image.ehdr \in Nat /\ ph.offset \in Nat /\ ph.vaddr \in Nat
    BY <1>2, <1>4, ImageTypes
  <2>2. Image.ehdr + ph.offset - ph.vaddr \in Int
    BY <2>1
  <2> QED
    BY <2>2, Modulo
<1>6. /\ TypesInv' /\ VectorInv' /\ AuxvInv' /\ EhdrInv' /\ FoundInv' /\ LookupCorrect'
      /\ Image' = Image
  <2>1. vdso_addr' \in {None} \cup 0..(Space - 1)
    BY <1>2, <1>3, <1>5 DEF TypesInv
  <2>2. table' \in [Tags -> {None} \cup 0..(Space - 1)]
    BY <1>2, <1>3 DEF TypesInv
  <2>3. at' \in InImage
    BY <1>3 DEF InImage
  <2> QED
    BY <1>2, <1>3, <2>1, <2>2, <2>3, ImageStep
<1>7. i \in D <=> ph.type = "DYNAMIC"
  BY <1>4 DEF Dynamics
<1>8. i \in C <=> (ph.type = "LOAD" /\ ph.exec)
  BY <1>4 DEF Code
<1>9. D \subseteq Nat /\ C \subseteq Nat /\ i \in Nat
  BY <1>2, <1>4, HeadersPositive
<1>10. vdso_dyn' = IF Before(D, i + 1) = {} THEN None
                   ELSE Image.phdrs[Last(Before(D, i + 1))].dyn
  <2>1. CASE i \in D
    <3>1. Before(D, i + 1) # {} /\ Last(Before(D, i + 1)) = i
      BY <1>9, <2>1, BeforeNext
    <3> QED
      BY <1>3, <1>7, <2>1, <3>1
  <2>2. CASE i \notin D
    <3>1. Before(D, i + 1) = Before(D, i)
      BY <1>9, <2>2, BeforeNext
    <3> QED
      BY <1>1, <1>3, <1>7, <2>2, <3>1 DEF PhdrInv
  <2> QED
    BY <2>1, <2>2
<1>11. vdso_addr' = IF Before(C, i + 1) = {} THEN None ELSE A(Last(Before(C, i + 1)))
  <2>1. CASE i \in C
    <3>1. Before(C, i + 1) # {} /\ Last(Before(C, i + 1)) = i
      BY <1>9, <2>1, BeforeNext
    <3> QED
      BY <1>3, <1>8, <2>1, <3>1
  <2>2. CASE i \notin C
    <3>1. Before(C, i + 1) = Before(C, i)
      BY <1>9, <2>2, BeforeNext
    <3> QED
      BY <1>1, <1>3, <1>8, <2>2, <3>1 DEF PhdrInv
  <2> QED
    BY <2>1, <2>2
<1>12. i + 1 \in 1..(Len(Image.phdrs) + 1)
  BY <1>4
<1>13. PhdrInv'
  BY <1>3, <1>6, <1>10, <1>11, <1>12 DEF PhdrInv
<1>14. CountInv'
  BY <1>2, <1>3, <1>6, CountKeep
<1>15. LoopInv'
  BY <1>3, <1>6, <1>13, <1>14 DEF LoopInv, InImage
<1> QED
  BY <1>6, <1>15 DEF LookupIInv

\* The last dynamic section of an image.
LEMMA DynamicTypes ==
  ASSUME NEW im, IsImage(im), Dynamics(im) # {}
  PROVE  /\ Last(Dynamics(im)) \in Dynamics(im)
         /\ im.phdrs[Last(Dynamics(im))].dyn \in Nat
         /\ DynamicSection(im) = im.dyns[im.phdrs[Last(Dynamics(im))].dyn]
         /\ Len(DynamicSection(im)) \in Nat
         /\ DOMAIN DynamicSection(im) = 1..Len(DynamicSection(im))
         /\ \A p \in DOMAIN DynamicSection(im) : DynamicSection(im)[p].val \in Nat
         /\ \E q \in DOMAIN DynamicSection(im) : DynamicSection(im)[q].tag = "NULL"
<1> DEFINE R == [tag : STRING, val : Nat]
<1>1. Dynamics(im) \subseteq 1..Len(im.phdrs) /\ Len(im.phdrs) \in Nat
  BY HeadersPositive
<1>2. Dynamics(im) \in SUBSET (0..Len(im.phdrs))
  BY <1>1
<1>3. Last(Dynamics(im)) \in Dynamics(im)
  BY <1>1, <1>2, LastExists, Zenon
<1>4. Last(Dynamics(im)) \in DOMAIN im.phdrs
  BY <1>3 DEF Dynamics
<1>5. im.phdrs[Last(Dynamics(im))].dyn \in Nat
  BY <1>4, ImageTypes, Zenon
<1>6. DynamicSection(im) = im.dyns[im.phdrs[Last(Dynamics(im))].dyn]
  BY DEF DynamicSection
<1>7. /\ DynamicSection(im) \in Seq(R)
      /\ \E q \in DOMAIN DynamicSection(im) : DynamicSection(im)[q].tag = "NULL"
  BY <1>3, <1>6, Zenon DEF IsImage
<1>8. \A p \in DOMAIN DynamicSection(im) : DynamicSection(im)[p] \in R
  BY <1>7, ElementOf, Zenon
<1>9. \A p \in DOMAIN DynamicSection(im) : DynamicSection(im)[p].val \in Nat
  BY <1>8
<1>10. Len(DynamicSection(im)) \in Nat /\ DOMAIN DynamicSection(im) = 1..Len(DynamicSection(im))
  <2> HIDE DEF R
  <2> QED
    BY <1>7
<1> QED
  BY <1>3, <1>5, <1>6, <1>7, <1>9, <1>10

LEMMA TaggedPositive ==
  ASSUME NEW im, IsImage(im), Dynamics(im) # {}, NEW tag
  PROVE  Tagged(im, tag) \subseteq Nat \ {0}
<1>1. Tagged(im, tag) \subseteq DOMAIN DynamicSection(im)
  BY DEF Tagged
<1>2. /\ DOMAIN DynamicSection(im) = 1..Len(DynamicSection(im))
      /\ Len(DynamicSection(im)) \in Nat
  BY DynamicTypes
<1> QED
  BY <1>1, <1>2

LEMMA EndPhdrStep ==
  ASSUME LookupIInv, EndPhdr, function' = function
  PROVE  LookupIInv'
<1> DEFINE D == Dynamics(Image)
           C == Code(Image)
<1>1. at = "phdr" /\ at \in InImage /\ PhdrInv /\ i > Len(Image.phdrs)
  BY DEF LookupIInv, LoopInv, EndPhdr, InImage
<1>2. TypesInv /\ VectorInv /\ AuxvInv /\ EhdrInv /\ IsImage(Image) /\ CountInv
  BY <1>1, InsideImage
<1>3. Before(D, i) = D /\ Before(C, i) = C
  <2>1. /\ D \subseteq 1..Len(Image.phdrs) /\ C \subseteq 1..Len(Image.phdrs)
        /\ Len(Image.phdrs) \in Nat /\ i \in Nat
    BY <1>1, <1>2, HeadersPositive DEF PhdrInv
  <2>2. (\A p \in D : p < i) /\ (\A p \in C : p < i)
    BY <1>1, <2>1
  <2> QED
    BY <2>2, BeforeEnd
<1>4. vdso_dyn = IF D = {} THEN None ELSE Image.phdrs[Last(D)].dyn
  BY <1>1, <1>3 DEF PhdrInv
<1>5. vdso_addr = IF C = {} THEN None ELSE Base(Image)
  BY <1>1, <1>3 DEF PhdrInv, Base
<1>6. (vdso_dyn = None <=> D = {}) /\ (vdso_addr = None <=> C = {})
  <2>1. D # {} => Image.phdrs[Last(D)].dyn \in Nat
    BY <1>2, DynamicTypes
  <2>2. C # {} => Base(Image) \in Nat
    BY <1>2, BaseType, EntriesAssumption
  <2> QED
    BY <1>4, <1>5, <2>1, <2>2, NoneAssumption, Zenon
<1>7. CASE None \in {vdso_addr, vdso_dyn}
  <2>1. ~WellFormed(Image)
    BY <1>6, <1>7 DEF WellFormed
  <2>2. Fail
    BY <1>7 DEF EndPhdr
  <2> QED
    BY <1>1, <2>1, <2>2, UnreadStep
<1>8. CASE None \notin {vdso_addr, vdso_dyn}
  <2>1. /\ at' = "dyn" /\ i' = 1 /\ table' = [tag \in Tags |-> None]
        /\ UNCHANGED <<saved, auxv, elf, symbol_count, phdr>>
    BY <1>8 DEF EndPhdr
  <2>2. D # {} /\ C # {}
    BY <1>6, <1>8
  <2>3. /\ TypesInv' /\ VectorInv' /\ AuxvInv' /\ EhdrInv' /\ FoundInv' /\ LookupCorrect'
        /\ Image' = Image
    <3>1. at' \in InImage /\ table' \in [Tags -> {None} \cup 0..(Space - 1)]
      BY <2>1 DEF InImage
    <3>2. vdso_addr' \in {None} \cup 0..(Space - 1)
      BY <1>2, <2>1 DEF phdr, TypesInv
    <3> QED
      BY <1>2, <2>1, <3>1, <3>2, ImageStep
  <2>4. CountInv'
    BY <1>2, <2>1, <2>3, CountKeep
  <2>5. LoadedInv
    BY <1>4, <1>5, <2>2 DEF LoadedInv
  <2>6. LoadedInv'
    BY <2>1, <2>3, <2>5, LoadedKeep
  <2>7. 1 \in DOMAIN DynamicSection(Image)
    <3>1. /\ DOMAIN DynamicSection(Image) = 1..Len(DynamicSection(Image))
          /\ Len(DynamicSection(Image)) \in Nat
          /\ \E q \in DOMAIN DynamicSection(Image) : DynamicSection(Image)[q].tag = "NULL"
      BY <1>2, <2>2, DynamicTypes
    <3> QED
      BY <3>1
  <2>8. \A tag \in Tags : Before(Tagged(Image, tag), 1) = {}
    BY <1>2, <2>2, TaggedPositive, BeforeFirst
  <2>9. DynInv'
    <3>1. \A tag \in Tags : table'[tag] = None
      BY <2>1
    <3>2. table' \in [Tags -> {None} \cup 0..(Space - 1)]
      BY <2>1
    <3>3. \A q \in 1..(1 - 1) : DynamicSection(Image)[q].tag # "NULL"
      OBVIOUS
    <3> QED
      BY <2>1, <2>3, <2>7, <2>8, <3>1, <3>2, <3>3, SMT DEF DynInv
  <2>10. LoopInv'
    BY <2>1, <2>3, <2>4, <2>6, <2>9 DEF LoopInv, InImage
  <2> QED
    BY <2>3, <2>10 DEF LookupIInv
<1> QED
  BY <1>7, <1>8

---------------------------------------------------------------------------
(* The steps of the loop over the dynamic section *)

LEMMA AddressType ==
  ASSUME NEW im, IsImage(im), Code(im) # {}, Dynamics(im) # {},
         NEW p \in DOMAIN DynamicSection(im)
  PROVE  Address(im, p) \in 0..(Space - 1)
<1>1. DynamicSection(im)[p].val \in Nat
  BY DynamicTypes
<1>2. Base(im) \in 0..(Space - 1)
  BY BaseType
<1>3. Base(im) + DynamicSection(im)[p].val \in Int
  BY <1>1, <1>2, EntriesAssumption
<1> QED
  BY <1>3, Modulo DEF Address

\* What the loop reads at its position.
LEMMA CurrentDyn ==
  ASSUME LookupIInv, at = "dyn"
  PROVE  /\ TypesInv /\ VectorInv /\ AuxvInv /\ EhdrInv /\ IsImage(Image) /\ CountInv
         /\ LoadedInv /\ DynInv
         /\ Image.dyns[vdso_dyn] = DynamicSection(Image)
         /\ DOMAIN DynamicSection(Image) = 1..Len(DynamicSection(Image))
         /\ Len(DynamicSection(Image)) \in Nat
         /\ i \in Nat \ {0} /\ i \in DOMAIN DynamicSection(Image)
<1>1. at \in InImage
  BY DEF InImage
<1>2. /\ TypesInv /\ VectorInv /\ AuxvInv /\ EhdrInv /\ IsImage(Image) /\ CountInv
      /\ LoadedInv
  BY <1>1, InsideImage
<1>3. DynInv
  BY DEF LookupIInv, LoopInv
<1>4. /\ Image.dyns[vdso_dyn] = DynamicSection(Image)
      /\ DOMAIN DynamicSection(Image) = 1..Len(DynamicSection(Image))
      /\ Len(DynamicSection(Image)) \in Nat
  BY <1>2, DynamicTypes DEF LoadedInv
<1> QED
  BY <1>2, <1>3, <1>4 DEF DynInv

LEMMA NextDynStep ==
  ASSUME LookupIInv, NextDyn, function' = function
  PROVE  LookupIInv'
<1> DEFINE S == DynamicSection(Image)
           T(tag) == Tagged(Image, tag)
<1>1. at = "dyn" /\ at \in InImage
  BY DEF NextDyn, InImage
<1>2. /\ TypesInv /\ VectorInv /\ AuxvInv /\ EhdrInv /\ IsImage(Image) /\ CountInv
      /\ LoadedInv /\ DynInv
      /\ Image.dyns[vdso_dyn] = S /\ DOMAIN S = 1..Len(S) /\ Len(S) \in Nat
      /\ i \in Nat \ {0} /\ i \in DOMAIN S
  BY <1>1, CurrentDyn
<1>3. S[i].tag # "NULL"
  BY <1>2 DEF NextDyn
<1>4. (vdso_addr + S[i].val) % Space = Address(Image, i)
  BY <1>2 DEF LoadedInv, Address
<1>5. \A q \in 1..i : S[q].tag # "NULL"
  <2>1. \A q \in 1..i : q \in 1..(i - 1) \/ q = i
    BY <1>2
  <2> QED
    BY <1>2, <1>3, <2>1 DEF DynInv
<1>6. \A tag : i \in T(tag) <=> S[i].tag = tag
  BY <1>2, <1>5 DEF Tagged
<1>7. Address(Image, i) \in 0..(Space - 1)
  BY <1>2, AddressType DEF LoadedInv
<1>8. CASE S[i].tag \in Tags /\ Address(Image, i) = 0
  <2>1. ~WellFormed(Image)
    BY <1>6, <1>8 DEF WellFormed
  <2>2. Fail
    BY <1>2, <1>4, <1>8 DEF NextDyn
  <2> QED
    BY <1>1, <2>1, <2>2, UnreadStep
<1>9. CASE ~(S[i].tag \in Tags /\ Address(Image, i) = 0)
  <2>1. /\ at' = "dyn" /\ i' = i + 1
        /\ table' = IF S[i].tag \in Tags THEN [table EXCEPT ![S[i].tag] = Address(Image, i)]
                                         ELSE table
        /\ UNCHANGED <<saved, auxv, elf, symbol_count, phdr>>
    BY <1>1, <1>2, <1>4, <1>9 DEF NextDyn
  <2>2. table \in [Tags -> {None} \cup 0..(Space - 1)]
    BY <1>2 DEF DynInv
  <2>3. table' \in [Tags -> {None} \cup 0..(Space - 1)]
    BY <1>7, <2>1, <2>2
  <2>4. \A tag \in Tags : table'[tag] = IF S[i].tag = tag THEN Address(Image, i) ELSE table[tag]
    BY <2>1, <2>2
  <2>5. /\ TypesInv' /\ VectorInv' /\ AuxvInv' /\ EhdrInv' /\ FoundInv' /\ LookupCorrect'
        /\ Image' = Image
    <3>1. at' \in InImage
      BY <2>1 DEF InImage
    <3>2. vdso_addr' \in {None} \cup 0..(Space - 1)
      BY <1>2, <2>1 DEF phdr, TypesInv
    <3> QED
      BY <1>2, <2>1, <2>3, <3>1, <3>2, ImageStep
  <2>6. CountInv' /\ LoadedInv'
    BY <1>2, <2>1, <2>5, CountKeep, LoadedKeep
  <2>7. i + 1 \in DOMAIN S
    <3>1. PICK q \in DOMAIN S : S[q].tag = "NULL"
      BY <1>2, DynamicTypes DEF LoadedInv
    <3>2. q \in Nat /\ q <= Len(S) /\ q \notin 1..i
      BY <1>2, <1>5, <3>1
    <3> QED
      BY <1>2, <3>2
  <2>8. \A tag \in Tags :
          /\ \A p \in Before(T(tag), i + 1) : Address(Image, p) # 0
          /\ table'[tag] = IF Before(T(tag), i + 1) = {} THEN None
                           ELSE Address(Image, Last(Before(T(tag), i + 1)))
    <3> SUFFICES ASSUME NEW tag \in Tags
                 PROVE  /\ \A p \in Before(T(tag), i + 1) : Address(Image, p) # 0
                        /\ table'[tag] = IF Before(T(tag), i + 1) = {} THEN None
                                         ELSE Address(Image, Last(Before(T(tag), i + 1)))
      OBVIOUS
    <3>1. T(tag) \subseteq Nat
      BY <1>2, TaggedPositive DEF LoadedInv
    <3>2. /\ \A p \in Before(T(tag), i) : Address(Image, p) # 0
          /\ table[tag] = IF Before(T(tag), i) = {} THEN None
                          ELSE Address(Image, Last(Before(T(tag), i)))
      BY <1>2 DEF DynInv
    <3>3. CASE S[i].tag = tag
      <4>1. /\ Before(T(tag), i + 1) = Before(T(tag), i) \cup {i}
            /\ Before(T(tag), i + 1) # {} /\ Last(Before(T(tag), i + 1)) = i
        BY <1>2, <1>6, <3>1, <3>3, BeforeNext
      <4>2. Address(Image, i) # 0
        BY <1>9, <3>3
      <4> QED
        BY <2>4, <3>2, <3>3, <4>1, <4>2, Zenon
    <3>4. CASE S[i].tag # tag
      <4>1. Before(T(tag), i + 1) = Before(T(tag), i)
        BY <1>2, <1>6, <3>1, <3>4, BeforeNext
      <4> QED
        BY <2>4, <3>2, <3>4, <4>1, Zenon
    <3> QED
      BY <3>3, <3>4
  <2>9. \A q \in 1..((i + 1) - 1) : S[q].tag # "NULL"
    BY <1>2, <1>5
  <2>10. DynInv'
    BY <2>1, <2>3, <2>5, <2>7, <2>8, <2>9 DEF DynInv
  <2>11. LoopInv'
    BY <2>1, <2>5, <2>6, <2>10 DEF LoopInv, InImage
  <2> QED
    BY <2>5, <2>11 DEF LookupIInv
<1> QED
  BY <1>8, <1>9

LEMMA EndDynStep ==
  ASSUME LookupIInv, EndDyn, function' = function
  PROVE  LookupIInv'
<1> DEFINE S == DynamicSection(Image)
           T(tag) == Tagged(Image, tag)
<1>1. at = "dyn" /\ at \in InImage
  BY DEF EndDyn, InImage
<1>2. /\ TypesInv /\ VectorInv /\ AuxvInv /\ EhdrInv /\ IsImage(Image) /\ CountInv
      /\ LoadedInv /\ DynInv
      /\ Image.dyns[vdso_dyn] = S /\ DOMAIN S = 1..Len(S) /\ Len(S) \in Nat
      /\ i \in Nat \ {0} /\ i \in DOMAIN S
  BY <1>1, CurrentDyn
<1>3. S[i].tag = "NULL"
  BY <1>2 DEF EndDyn
<1>4. \A tag : \A p \in T(tag) : p \in DOMAIN S /\ p < i
  <2> SUFFICES ASSUME NEW tag, NEW p \in T(tag) PROVE p \in DOMAIN S /\ p < i
    OBVIOUS
  <2>1. p \in DOMAIN S /\ \A q \in 1..p : S[q].tag # "NULL"
    BY DEF Tagged
  <2>2. p \in Nat /\ i \notin 1..p
    BY <1>2, <1>3, <2>1
  <2> QED
    BY <1>2, <2>1, <2>2
<1>5. \A tag : Before(T(tag), i) = T(tag)
  BY <1>4, BeforeEnd
<1>6. \A tag \in Tags : table[tag] = IF T(tag) = {} THEN None ELSE Address(Image, Last(T(tag)))
  BY <1>2, <1>5 DEF DynInv
<1>7. \A tag \in Tags : \A p \in T(tag) : Address(Image, p) # 0
  BY <1>2, <1>5 DEF DynInv
<1>8. \A tag \in Tags : table[tag] = None <=> T(tag) = {}
  <2> SUFFICES ASSUME NEW tag \in Tags, T(tag) # {}
               PROVE  Address(Image, Last(T(tag))) # None
    BY <1>6
  <2>1. T(tag) \in SUBSET (0..Len(S))
    BY <1>2, <1>4
  <2>2. Last(T(tag)) \in T(tag)
    BY <1>2, <2>1, LastExists
  <2>3. Address(Image, Last(T(tag))) \in 0..(Space - 1)
    BY <1>2, <1>4, <2>2, AddressType DEF LoadedInv
  <2> QED
    BY <2>3, NoneAssumption, EntriesAssumption
<1>9. CASE \E tag \in Tags : table[tag] = None
  <2>1. ~WellFormed(Image)
    BY <1>8, <1>9 DEF WellFormed
  <2>2. Fail
    BY <1>9 DEF EndDyn
  <2> QED
    BY <1>1, <2>1, <2>2, UnreadStep
<1>10. CASE \A tag \in Tags : table[tag] # None
  <2>1. at' = "sym" /\ i' = 1 /\ UNCHANGED <<saved, auxv, elf, symbol_count, phdr, table>>
    BY <1>10 DEF EndDyn
  <2>2. /\ TypesInv' /\ VectorInv' /\ AuxvInv' /\ EhdrInv' /\ FoundInv' /\ LookupCorrect'
        /\ Image' = Image
    <3>1. at' \in InImage
      BY <2>1 DEF InImage
    <3>2. /\ vdso_addr' \in {None} \cup 0..(Space - 1)
          /\ table' \in [Tags -> {None} \cup 0..(Space - 1)]
      BY <1>2, <2>1 DEF phdr, TypesInv
    <3> QED
      BY <1>2, <2>1, <3>1, <3>2, ImageStep
  <2>3. CountInv' /\ LoadedInv'
    BY <1>2, <2>1, <2>2, CountKeep, LoadedKeep
  <2>4. \A tag \in Tags : T(tag) # {} /\ table[tag] = Address(Image, Last(T(tag)))
    BY <1>6, <1>8, <1>10
  <2>5. WellFormed(Image)
    BY <1>2, <1>7, <2>4 DEF WellFormed, LoadedInv
  <2>6. table = [tag \in Tags |-> Address(Image, Last(T(tag)))]
    BY <1>2, <2>4 DEF TypesInv
  <2>7. TableInv'
    BY <2>1, <2>2, <2>5, <2>6, TableKeep DEF TableInv
  <2>8. SymInv'
    <3>1. Before(Named(Image), 1) = {}
      <4>1. Named(Image) \subseteq Nat \ {0}
        BY SymbolsPositive DEF Named
      <4> QED
        BY <4>1, BeforeFirst
    <3>2. 1 \in 1..(symbol_count + 1)
      BY <1>2 DEF CountInv
    <3> QED
      BY <2>1, <2>2, <3>1, <3>2 DEF SymInv
  <2>9. LoopInv'
    BY <2>1, <2>2, <2>3, <2>7, <2>8 DEF LoopInv, InImage
  <2> QED
    BY <2>2, <2>9 DEF LookupIInv
<1> QED
  BY <1>9, <1>10

---------------------------------------------------------------------------
(* Versions: the first definition that matches decides *)

\* What the image has for the tags is what the code reads.
LEMMA TablesRead ==
  ASSUME TableInv, NEW tag \in Tags
  PROVE  Data(tag) = Table(Image, tag)
  BY DEF TableInv, Data, Table

\* The version definitions of a symbol, up to the one that decides.
LEMMA VersionsOf ==
  ASSUME NEW im, NEW s, NEW R, Table(im, "VERDEF") \in Seq(R),
         NEW e \in DOMAIN Table(im, "VERDEF"),
         \A c \in 1..(e - 1) : ~DefinedBy(im, s, c) /\ Table(im, "VERDEF")[c].more
  PROVE  /\ DefinedBy(im, s, e) /\ Table(im, "VERDEF")[e].aux # 0
              => Versions(im, s) = {Table(im, "STRTAB")[Table(im, "VERDEF")[e].aux]}
         /\ DefinedBy(im, s, e) /\ Table(im, "VERDEF")[e].aux = 0 => Versions(im, s) = {}
         /\ ~DefinedBy(im, s, e) /\ ~Table(im, "VERDEF")[e].more => Versions(im, s) = {}
<1> DEFINE defs == Table(im, "VERDEF")
           IsFor(d) == DefinedBy(im, s, d)
           W == {d \in DOMAIN defs : /\ IsFor(d) /\ defs[d].aux # 0
                                     /\ \A c \in 1..d : IsFor(c) => c = d
                                     /\ \A c \in 1..(d - 1) : defs[c].more}
<1>1. Versions(im, s) = {Table(im, "STRTAB")[defs[d].aux] : d \in W}
  BY Zenon DEF Versions, DefinedBy
<1>2. DOMAIN defs \subseteq Nat \ {0} /\ e \in Nat \ {0}
  BY DOMAIN defs = 1..Len(defs), Len(defs) \in Nat
<1>3. \A d \in W : d <= e => d = e
  <2> SUFFICES ASSUME NEW d \in W, d <= e, d # e PROVE FALSE
    OBVIOUS
  <2>1. d \in 1..(e - 1)
    BY <1>2
  <2> QED
    BY <2>1
<1>4. \A d \in W : e <= d \/ d <= e
  BY <1>2
<1>5. ASSUME IsFor(e) PROVE W \subseteq {e}
  <2> SUFFICES ASSUME NEW d \in W PROVE d = e
    OBVIOUS
  <2>1. e <= d => e \in 1..d
    BY <1>2
  <2> QED
    BY <1>3, <1>4, <1>5, <2>1
<1>6. ASSUME IsFor(e), defs[e].aux # 0 PROVE e \in W
  <2>1. \A c \in 1..e : c = e \/ c \in 1..(e - 1)
    BY <1>2
  <2> QED
    BY <1>6, <2>1
<1>7. ASSUME ~IsFor(e), ~defs[e].more PROVE W = {}
  <2> SUFFICES ASSUME NEW d \in W PROVE FALSE
    OBVIOUS
  <2>1. d # e
    BY <1>7
  <2>2. e <= d
    BY <1>3, <1>4, <2>1
  <2>3. e \in 1..(d - 1)
    BY <1>2, <2>1, <2>2
  <2> QED
    BY <1>7, <2>3
<1>8. ASSUME IsFor(e), defs[e].aux = 0 PROVE W = {}
  BY <1>5, <1>8
<1> HIDE DEF W
<1>9. IsFor(e) /\ defs[e].aux # 0 => Versions(im, s) = {Table(im, "STRTAB")[defs[e].aux]}
  <2> SUFFICES ASSUME IsFor(e), defs[e].aux # 0
               PROVE  Versions(im, s) = {Table(im, "STRTAB")[defs[e].aux]}
    OBVIOUS
  <2>1. W = {e}
    BY <1>5, <1>6
  <2> QED
    BY <1>1, <2>1
<1>10. W = {} => Versions(im, s) = {}
  BY <1>1
<1> QED
  BY <1>7, <1>8, <1>9, <1>10

---------------------------------------------------------------------------
(* The steps of the loops over the symbols and the version definitions *)

LEMMA CurrentSymbol ==
  ASSUME LookupIInv, at \in {"sym", "ver"}
  PROVE  /\ TypesInv /\ VectorInv /\ AuxvInv /\ EhdrInv /\ IsImage(Image) /\ CountInv
         /\ LoadedInv /\ TableInv /\ SymInv
         /\ \A tag \in Tags : Data(tag) = Table(Image, tag)
         /\ Named(Image) \subseteq 1..symbol_count /\ i \in Nat \ {0} /\ symbol_count \in Nat
<1>1. at \in InImage
  BY DEF InImage
<1>2. /\ TypesInv /\ VectorInv /\ AuxvInv /\ EhdrInv /\ IsImage(Image) /\ CountInv
      /\ LoadedInv
  BY <1>1, InsideImage
<1>3. TableInv /\ SymInv
  BY DEF LookupIInv, LoopInv
<1>4. Named(Image) \subseteq Symbols(Image)
  BY DEF Named
<1>5. \A tag \in Tags : Data(tag) = Table(Image, tag)
  BY <1>3, TablesRead
<1>6. i \in Nat \ {0} /\ symbol_count \in Nat
  BY <1>2, <1>3 DEF CountInv, SymInv
<1> QED
  BY <1>2, <1>3, <1>4, <1>5, <1>6 DEF CountInv

\* On to the next symbol, or into the version definitions of this one.
LEMMA SymbolStep ==
  ASSUME LookupIInv, at \in {"sym", "ver"}, at' \in {"sym", "ver"}, function' = function,
         UNCHANGED <<saved, auxv, elf, symbol_count, phdr, table>>,
         SymInv', at' = "ver" => VerInv'
  PROVE  LookupIInv'
<1>1. /\ TypesInv /\ VectorInv /\ AuxvInv /\ EhdrInv /\ CountInv /\ LoadedInv /\ TableInv
  BY CurrentSymbol
<1>2. at' \in InImage
  BY DEF InImage
<1>3. /\ vdso_addr' \in {None} \cup 0..(Space - 1)
      /\ table' \in [Tags -> {None} \cup 0..(Space - 1)]
  BY <1>1 DEF phdr, TypesInv
<1>4. /\ TypesInv' /\ VectorInv' /\ AuxvInv' /\ EhdrInv' /\ FoundInv' /\ LookupCorrect'
      /\ Image' = Image
  BY <1>1, <1>2, <1>3, ImageStep
<1>5. CountInv' /\ LoadedInv' /\ TableInv'
  BY <1>1, <1>4, CountKeep, LoadedKeep, TableKeep
<1>6. LoopInv'
  BY <1>4, <1>5 DEF LoopInv, InImage
<1> QED
  BY <1>4, <1>6 DEF LookupIInv

\* The search ends without a symbol: none is provided.
LEMMA NotFoundStep ==
  ASSUME LookupIInv, at \in {"sym", "ver"}, Found(None), function' = function,
         Target = None \/ Provided(Image) = {}
  PROVE  LookupIInv'
<1>1. TypesInv /\ VectorInv /\ AuxvInv /\ EhdrInv /\ WellFormed(Image)
  BY CurrentSymbol DEF TableInv
<1>2. Function(Image) = None
  BY DEF Function
<1> QED
  BY <1>1, <1>2, FoundStep

\* The symbols before the current one are not provided.
LEMMA NotProvidedBefore ==
  ASSUME SymInv, NEW s \in Provided(Image)
  PROVE  ~(s < i)
<1>1. s \in Named(Image) /\ Versions(Image, s) = {Target[2]}
  BY DEF Provided
<1> QED
  BY <1>1 DEF SymInv, Before

LEMMA NextSymbolStep ==
  ASSUME LookupIInv, NextSymbol, function' = function
  PROVE  LookupIInv'
<1>1. at = "sym" /\ Target # None /\ i <= symbol_count
  BY DEF NextSymbol
<1>2. /\ IsImage(Image) /\ CountInv /\ TableInv /\ SymInv
      /\ \A tag \in Tags : Data(tag) = Table(Image, tag)
      /\ Named(Image) \subseteq 1..symbol_count /\ i \in Nat \ {0} /\ symbol_count \in Nat
  BY <1>1, CurrentSymbol
<1>3. i \in Symbols(Image)
  BY <1>1, <1>2 DEF CountInv
<1>4. UNCHANGED <<saved, auxv, elf, symbol_count, phdr, table>> /\ Image' = Image
  BY DEF NextSymbol, Image
<1>5. Data("STRTAB") = Table(Image, "STRTAB") /\ Data("SYMTAB") = Table(Image, "SYMTAB")
  BY <1>2 DEF Tags
<1>6. CASE Data("STRTAB")[Data("SYMTAB")[i].name] = Target[1]
  <2>1. at' = "ver" /\ v' = 1 /\ i' = i
    BY <1>6 DEF NextSymbol
  <2>2. i \in Named(Image)
    BY <1>3, <1>5, <1>6 DEF Named
  <2>3. 1 \in DOMAIN Table(Image, "VERDEF")
    <3> DEFINE R == [base : BOOLEAN, ndx : Nat, aux : Nat, more : BOOLEAN]
    <3>1. /\ Table(Image, "VERDEF") \in Seq(R)
          /\ \E d \in DOMAIN Table(Image, "VERDEF") : ~Table(Image, "VERDEF")[d].more
      BY <1>2 DEF TableInv, IsImage
    <3> HIDE DEF R
    <3> QED
      BY <3>1
  <2>4. SymInv'
    BY <1>2, <1>4, <2>1 DEF SymInv
  <2>5. \A c \in 1..(1 - 1) : ~DefinedBy(Image, i, c) /\ Table(Image, "VERDEF")[c].more
    OBVIOUS
  <2>6. VerInv'
    BY <1>1, <1>4, <2>1, <2>2, <2>3, <2>5 DEF VerInv
  <2> QED
    BY <1>1, <1>4, <2>1, <2>4, <2>6, SymbolStep
<1>7. CASE Data("STRTAB")[Data("SYMTAB")[i].name] # Target[1]
  <2>1. at' = "sym" /\ i' = i + 1
    BY <1>1, <1>7 DEF NextSymbol
  <2>2. i \notin Named(Image)
    BY <1>5, <1>7 DEF Named
  <2>3. Before(Named(Image), i + 1) = Before(Named(Image), i)
    <3>1. Named(Image) \subseteq Nat /\ i \in Nat
      BY <1>2
    <3> QED
      BY <2>2, <3>1, BeforeNext
  <2>4. i + 1 \in 1..(symbol_count + 1)
    BY <1>1, <1>2
  <2>5. SymInv'
    BY <1>1, <1>2, <1>4, <2>1, <2>3, <2>4 DEF SymInv
  <2> QED
    BY <1>1, <1>4, <2>1, <2>5, SymbolStep
<1> QED
  BY <1>6, <1>7

LEMMA NoSymbolStep ==
  ASSUME LookupIInv, NoSymbol, function' = function
  PROVE  LookupIInv'
<1>1. at = "sym" /\ (Target = None \/ i > symbol_count) /\ Found(None)
  BY DEF NoSymbol
<1>2. /\ SymInv /\ Named(Image) \subseteq 1..symbol_count
      /\ i \in Nat \ {0} /\ symbol_count \in Nat
  BY <1>1, CurrentSymbol
<1>3. ASSUME i > symbol_count PROVE Provided(Image) = {}
  <2> SUFFICES ASSUME NEW s \in Provided(Image) PROVE FALSE
    OBVIOUS
  <2>1. s \in 1..symbol_count
    BY <1>2 DEF Provided
  <2>2. s < i
    BY <1>2, <1>3, <2>1
  <2> QED
    BY <1>2, <2>2, NotProvidedBefore
<1> QED
  BY <1>1, <1>3, NotFoundStep

\* What the definition at the current position says of the symbol.
LEMMA CurrentVerdef ==
  ASSUME LookupIInv, at = "ver"
  PROVE  LET d == Data("VERDEF")[v]
         IN  /\ VerInv /\ d = Table(Image, "VERDEF")[v]
             /\ Matches(d) <=> DefinedBy(Image, i, v)
             /\ Matches(d) /\ d.aux # 0 => Versions(Image, i) = {Data("STRTAB")[d.aux]}
             /\ Matches(d) /\ d.aux = 0 => Versions(Image, i) = {}
             /\ ~Matches(d) /\ ~d.more => Versions(Image, i) = {}
<1> DEFINE R == [base : BOOLEAN, ndx : Nat, aux : Nat, more : BOOLEAN]
<1>1. IsImage(Image) /\ TableInv /\ \A tag \in Tags : Data(tag) = Table(Image, tag)
  BY CurrentSymbol
<1>2. VerInv
  BY DEF LookupIInv, LoopInv
<1>3. /\ Data("VERDEF") = Table(Image, "VERDEF") /\ Data("VERSYM") = Table(Image, "VERSYM")
      /\ Data("STRTAB") = Table(Image, "STRTAB")
  BY <1>1 DEF Tags
<1>4. Matches(Data("VERDEF")[v]) <=> DefinedBy(Image, i, v)
  BY <1>3, Zenon DEF Matches, DefinedBy
<1>5. Table(Image, "VERDEF") \in Seq(R)
  BY <1>1 DEF TableInv, IsImage
<1>6. /\ v \in DOMAIN Table(Image, "VERDEF")
      /\ \A c \in 1..(v - 1) : ~DefinedBy(Image, i, c) /\ Table(Image, "VERDEF")[c].more
  BY <1>2 DEF VerInv
<1> HIDE DEF R
<1>7. /\ DefinedBy(Image, i, v) /\ Table(Image, "VERDEF")[v].aux # 0
           => Versions(Image, i) = {Table(Image, "STRTAB")[Table(Image, "VERDEF")[v].aux]}
      /\ DefinedBy(Image, i, v) /\ Table(Image, "VERDEF")[v].aux = 0 => Versions(Image, i) = {}
      /\ ~DefinedBy(Image, i, v) /\ ~Table(Image, "VERDEF")[v].more => Versions(Image, i) = {}
  BY <1>5, <1>6, VersionsOf
<1> QED
  BY <1>2, <1>3, <1>4, <1>7, Zenon

LEMMA NextVerdefStep ==
  ASSUME LookupIInv, NextVerdef, function' = function
  PROVE  LookupIInv'
<1> DEFINE R == [base : BOOLEAN, ndx : Nat, aux : Nat, more : BOOLEAN]
           defs == Table(Image, "VERDEF")
<1>1. at = "ver" /\ ~Matches(Data("VERDEF")[v]) /\ Data("VERDEF")[v].more
  BY DEF NextVerdef
<1>2. /\ at' = "ver" /\ v' = v + 1 /\ i' = i
      /\ UNCHANGED <<saved, auxv, elf, symbol_count, phdr, table>>
  BY <1>1 DEF NextVerdef
<1>3. Image' = Image
  BY <1>2 DEF Image
<1>4. SymInv /\ TableInv /\ IsImage(Image)
  BY <1>1, CurrentSymbol
<1>5. VerInv /\ ~DefinedBy(Image, i, v) /\ defs[v].more
  BY <1>1, CurrentVerdef
<1>6. defs \in Seq(R) /\ \E d \in DOMAIN defs : ~defs[d].more
  BY <1>4 DEF TableInv, IsImage
<1> HIDE DEF R, defs
<1>7. DOMAIN defs = 1..Len(defs) /\ Len(defs) \in Nat
  BY <1>6
<1>8. /\ v \in DOMAIN defs
      /\ \A c \in 1..(v - 1) : ~DefinedBy(Image, i, c) /\ defs[c].more
  BY <1>5 DEF VerInv, defs
<1>9. \A c \in 1..((v + 1) - 1) : ~DefinedBy(Image, i, c) /\ defs[c].more
  <2>1. \A c \in 1..((v + 1) - 1) : c \in 1..(v - 1) \/ c = v
    BY <1>7, <1>8
  <2> QED
    BY <1>5, <1>8, <2>1
<1>10. v + 1 \in DOMAIN defs
  <2>1. PICK d \in DOMAIN defs : ~defs[d].more
    BY <1>6
  <2>2. d \notin 1..((v + 1) - 1)
    BY <1>9, <2>1
  <2> QED
    BY <1>7, <1>8, <2>2
<1>11. SymInv'
  BY <1>2, <1>3, <1>4 DEF SymInv
<1>12. VerInv'
  BY <1>2, <1>3, <1>5, <1>9, <1>10 DEF VerInv, defs
<1> QED
  BY <1>1, <1>2, <1>11, <1>12, SymbolStep

LEMMA NoVersionStep ==
  ASSUME LookupIInv, NoVersion, function' = function
  PROVE  LookupIInv'
<1>1. at = "ver" /\ Found(None)
  BY DEF NoVersion
<1>2. Versions(Image, i) = {}
  BY <1>1, CurrentVerdef DEF NoVersion
<1>3. /\ SymInv /\ Named(Image) \subseteq 1..symbol_count /\ symbol_count \in Nat
      /\ i \in Nat \ {0}
  BY <1>1, CurrentSymbol
<1>4. i \in Named(Image)
  BY <1>1, CurrentVerdef DEF VerInv
<1>5. Provided(Image) = {}
  <2> SUFFICES ASSUME NEW s \in Provided(Image) PROVE FALSE
    OBVIOUS
  <2>1. /\ s \in Named(Image) /\ Versions(Image, s) = {Target[2]}
        /\ \A r \in Named(Image) : r < s => Versions(Image, r) # {}
    BY DEF Provided
  <2>2. s # i
    BY <1>2, <2>1
  <2>3. i < s
    BY <1>3, <2>1, <2>2, NotProvidedBefore
  <2> QED
    BY <1>2, <1>4, <2>1, <2>3
<1> QED
  BY <1>1, <1>5, NotFoundStep

LEMMA VersionStep ==
  ASSUME LookupIInv, Version, function' = function
  PROVE  LookupIInv'
<1> DEFINE d == Data("VERDEF")[v]
<1>1. at = "ver" /\ Matches(d) /\ d.aux # 0
  BY DEF Version
<1>2. Versions(Image, i) = {Data("STRTAB")[d.aux]}
  BY <1>1, CurrentVerdef
<1>3. /\ TypesInv /\ VectorInv /\ AuxvInv /\ EhdrInv /\ LoadedInv /\ TableInv
      /\ SymInv /\ Named(Image) \subseteq 1..symbol_count /\ symbol_count \in Nat
      /\ i \in Nat \ {0} /\ \A tag \in Tags : Data(tag) = Table(Image, tag)
  BY <1>1, CurrentSymbol
<1>4. i \in Named(Image) /\ Target # None
  BY <1>1, CurrentVerdef DEF VerInv
<1>5. CASE Data("STRTAB")[d.aux] = Target[2]
  <2>1. Found((vdso_addr + Data("SYMTAB")[i].value) % Space)
    BY <1>5 DEF Version
  <2>2. \A r \in Provided(Image) : i <= r
    <3>1. \A r \in Provided(Image) : r \in Nat
      BY <1>3 DEF Provided
    <3> QED
      BY <1>3, <3>1, NotProvidedBefore
  <2>3. i \in Provided(Image)
    <3>1. Versions(Image, i) = {Target[2]}
      BY <1>2, <1>5
    <3>2. \A r \in Named(Image) : r < i => Versions(Image, r) # {}
      BY <1>3 DEF SymInv, Before
    <3> QED
      BY <1>4, <3>1, <3>2 DEF Provided
  <2>4. FirstProvided(Image) = i
    <3>1. Provided(Image) \subseteq Int
      BY <1>3 DEF Provided
    <3> QED
      BY <2>2, <2>3, <3>1, FirstIs DEF FirstProvided
  <2>5. (vdso_addr + Data("SYMTAB")[i].value) % Space = Function(Image)
    <3>1. vdso_addr = Base(Image) /\ Data("SYMTAB") = Table(Image, "SYMTAB")
      BY <1>3 DEF LoadedInv, Tags
    <3> QED
      BY <1>4, <2>3, <2>4, <3>1 DEF Function
  <2>6. WellFormed(Image)
    BY <1>3 DEF TableInv
  <2> QED
    BY <1>3, <2>1, <2>5, <2>6, FoundStep
<1>6. CASE Data("STRTAB")[d.aux] # Target[2]
  <2>1. /\ at' = "sym" /\ i' = i + 1
        /\ UNCHANGED <<saved, auxv, elf, symbol_count, phdr, table>>
    BY <1>6 DEF Version
  <2>2. Image' = Image
    BY <2>1 DEF Image
  <2>3. Before(Named(Image), i + 1) = Before(Named(Image), i) \cup {i}
    <3>1. Named(Image) \subseteq Nat /\ i \in Nat
      BY <1>3
    <3> QED
      BY <1>4, <3>1, BeforeNext
  <2>4. Versions(Image, i) \notin {{}, {Target[2]}}
    BY <1>2, <1>6
  <2>5. i + 1 \in 1..(symbol_count + 1)
    BY <1>3, <1>4
  <2>6. SymInv'
    BY <1>3, <1>4, <2>1, <2>2, <2>3, <2>4, <2>5 DEF SymInv
  <2> QED
    BY <1>1, <2>1, <2>6, SymbolStep
<1> QED
  BY <1>5, <1>6

---------------------------------------------------------------------------
(* The inductive invariant and the theorems *)

LEMMA InitLookup == Init => LookupIInv
<1> SUFFICES ASSUME Init PROVE LookupIInv
  OBVIOUS
<1>1. /\ saved \in Vectors /\ at = "auxv_new" /\ index = 1 /\ elf = None
      /\ func = None /\ page_size = None /\ vdso_addr = None
      /\ table = [tag \in Tags |-> None] /\ function = None
  BY DEF Init, LookupInit
<1>2. TypesInv
  BY <1>1, EntriesAssumption DEF TypesInv, Place
<1>3. VectorInv
  BY <1>1, VectorsAssumption DEF VectorInv
<1>4. AuxvInv
  <2>1. Before(Entries("PAGESZ"), 1) = {} /\ Before(Entries("SYSINFO_EHDR"), 1) = {}
    BY EntriesPositive, BeforeFirst
  <2> QED
    BY <1>1, <2>1 DEF AuxvInv
<1>5. LoopInv /\ FoundInv /\ LookupCorrect
  BY <1>1, <1>4 DEF LoopInv, FoundInv, LookupCorrect, InImage
<1> QED
  BY <1>2, <1>3, <1>5 DEF LookupIInv

LEMMA PoolNewStep ==
  ASSUME LookupIInv, PoolNew
  PROVE  LookupIInv'
<1>1. /\ at' \in {"open", "refused"} /\ saved' = <<>> /\ index' = 1 /\ elf' = None
      /\ func' = None /\ vdso_addr' = None /\ table' = [tag \in Tags |-> None]
  BY DEF PoolNew
<1>2. function' \in {None} \cup 0..(Space - 1)
  BY DEF PoolNew, LookupIInv, FoundInv, TypesInv
<1>3. TypesInv'
  BY <1>1, <1>2, EntriesAssumption DEF TypesInv, Place
<1>4. VectorInv'
  BY <1>1 DEF VectorInv
<1>5. LoopInv' /\ FoundInv' /\ LookupCorrect'
  BY <1>1 DEF LoopInv, FoundInv, LookupCorrect, InImage
<1> QED
  BY <1>3, <1>4, <1>5 DEF LookupIInv

\* A fill and a stuttering step leave the lookup alone.
LEMMA LookupUntouched ==
  ASSUME LookupIInv, UNCHANGED <<lvars, function>>
  PROVE  LookupIInv'
<1>1. UNCHANGED <<saved, at, index, func, page_size, elf, symbol_count, i, v, vdso_addr, vdso_dyn,
                  table, found, function>>
  BY DEF lvars, locals, auxv, phdr
<1>2. Image' = Image /\ Lookup' = Lookup /\ TypesInv' /\ VectorInv'
  BY <1>1, SameVector DEF LookupIInv, Image, TypesInv, VectorInv
<1>3. (AuxvInv => AuxvInv') /\ (EhdrInv => EhdrInv')
  BY <1>1, AuxvKeep DEF EhdrInv, HasEntry, Entry
<1>4. /\ ShdrInv => ShdrInv'
      /\ CountInv => CountInv'
      /\ PhdrInv => PhdrInv'
      /\ LoadedInv => LoadedInv'
      /\ DynInv => DynInv'
      /\ TableInv => TableInv'
      /\ SymInv => SymInv'
      /\ VerInv => VerInv'
  BY <1>1, <1>2 DEF ShdrInv, CountInv, PhdrInv, LoadedInv, DynInv, TableInv, SymInv, VerInv
<1>5. LoopInv'
  BY <1>1, <1>3, <1>4 DEF LookupIInv, LoopInv
<1>6. FoundInv' /\ LookupCorrect'
  BY <1>1, <1>2 DEF LookupIInv, FoundInv, LookupCorrect
<1> QED
  BY <1>2, <1>5, <1>6 DEF LookupIInv

LEMMA NextLookup == LookupIInv /\ [Next]_rngVars => LookupIInv'
<1> SUFFICES ASSUME LookupIInv, [Next]_rngVars PROVE LookupIInv'
  OBVIOUS
<1>1. CASE Looking
  <2>1. function' = function
    BY <1>1 DEF Looking
  <2>2. CASE AuxvNew
    BY <2>1, <2>2, AuxvNewStep
  <2>3. CASE NextEntry
    BY <2>1, <2>3, NextEntryStep
  <2>4. CASE NextEhdr
    BY <2>1, <2>4, NextEhdrStep
  <2>5. CASE EndAuxv
    BY <2>1, <2>5, EndAuxvStep
  <2>6. CASE NextShdr
    BY <2>1, <2>6, NextShdrStep
  <2>7. CASE EndShdr
    BY <2>1, <2>7, EndShdrStep
  <2>8. CASE NextPhdr
    BY <2>1, <2>8, NextPhdrStep
  <2>9. CASE EndPhdr
    BY <2>1, <2>9, EndPhdrStep
  <2>10. CASE NextDyn
    BY <2>1, <2>10, NextDynStep
  <2>11. CASE EndDyn
    BY <2>1, <2>11, EndDynStep
  <2>12. CASE NextSymbol
    BY <2>1, <2>12, NextSymbolStep
  <2>13. CASE NoSymbol
    BY <2>1, <2>13, NoSymbolStep
  <2>14. CASE NextVerdef
    BY <2>1, <2>14, NextVerdefStep
  <2>15. CASE NoVersion
    BY <2>1, <2>15, NoVersionStep
  <2>16. CASE Version
    BY <2>1, <2>16, VersionStep
  <2> QED
    BY <1>1, <2>2, <2>3, <2>4, <2>5, <2>6, <2>7, <2>8, <2>9, <2>10, <2>11, <2>12, <2>13,
       <2>14, <2>15, <2>16 DEF Looking, LookupStep
<1>2. CASE PoolNew
  BY <1>2, PoolNewStep
<1>3. CASE Filling(FillNext)
  BY <1>3, LookupUntouched DEF Filling
<1>4. CASE UNCHANGED rngVars
  BY <1>4, LookupUntouched DEF rngVars
<1> QED
  BY <1>1, <1>2, <1>3, <1>4 DEF Next

\* At every step the loops of get_function_and_page_size have found what the
\* entries, sections, headers, symbols and definitions that they have read provide.
THEOREM LookupInvariant == Spec => []LookupIInv
<1>1. Init => LookupIInv
  BY InitLookup
<1>2. LookupIInv /\ [Next]_rngVars => LookupIInv'
  BY NextLookup
<1> QED
  BY <1>1, <1>2, PTL DEF Spec

\* get_function_and_page_size returns what the kernel provides and nothing else,
\* for all vectors and images.
THEOREM FoundIsProvided == Spec => []LookupCorrect
<1>1. LookupIInv => LookupCorrect
  BY DEF LookupIInv
<1> QED
  BY <1>1, LookupInvariant, PTL

LEMMA LookupTypes == LookupIInv => LookupTypeOK
<1> SUFFICES ASSUME LookupIInv PROVE LookupTypeOK
  OBVIOUS
<1>1. /\ at \in Place /\ index \in 1..(MaxEntries + 1)
      /\ at # "auxv_new" /\ elf # None => elf \in DOMAIN Elf
  BY DEF LookupIInv, TypesInv
<1>2. at = "shdr" => i \in 1..(Len(Image.shdrs) + 1)
  BY DEF LookupIInv, LoopInv, ShdrInv
<1>3. at = "phdr" => i \in 1..(Len(Image.phdrs) + 1)
  BY DEF LookupIInv, LoopInv, PhdrInv
<1>4. at = "dyn" => i \in DOMAIN Image.dyns[vdso_dyn]
  BY CurrentDyn
<1>5. at = "sym" => i \in 1..(symbol_count + 1)
  BY DEF LookupIInv, LoopInv, SymInv
<1>6. at = "ver" => i \in 1..symbol_count /\ v \in DOMAIN Data("VERDEF")
  <2> SUFFICES ASSUME at = "ver" PROVE i \in 1..symbol_count /\ v \in DOMAIN Data("VERDEF")
    OBVIOUS
  <2>1. VerInv
    BY CurrentVerdef
  <2>2. Named(Image) \subseteq 1..symbol_count /\ Data("VERDEF") = Table(Image, "VERDEF")
    BY CurrentSymbol DEF Tags
  <2> QED
    BY <2>1, <2>2 DEF VerInv
<1>7. \A a \in {func, vdso_addr} \cup {table[tag] : tag \in Tags} :
        a = None \/ a \in 0..(Space - 1)
  BY DEF LookupIInv, TypesInv
<1> QED
  BY <1>1, <1>2, <1>3, <1>4, <1>5, <1>6, <1>7 DEF LookupTypeOK, Place

\* The iterators of the lookup stay in the box, the tables and the lists that they
\* run over, and every variable of the lookup and of the fill loop has its type.
THEOREM TypesHold == Spec => []TypeOK
<1>1. LookupIInv /\ IInv => TypeOK
  <2> SUFFICES ASSUME LookupIInv, IInv PROVE TypeOK
    OBVIOUS
  <2>1. LookupTypeOK
    BY LookupTypes
  <2>2. FillTypeOK
    BY DEF IInv, TypeInv, FillTypeOK, Label
  <2>3. function \in {None} \cup 0..(Space - 1)
    BY DEF LookupIInv, TypesInv
  <2> QED
    BY <2>1, <2>2, <2>3 DEF TypeOK
<1> QED
  BY <1>1, LookupInvariant, InductiveInvariant, PTL

=============================================================================
