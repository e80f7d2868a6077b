----------------------------- MODULE VdsoLookup -----------------------------
(***************************************************************************)
(* vdso-rng: get_function_and_page_size.  The auxiliary vector is copied   *)
(* into a box of MaxEntries entries and scanned; each AT_SYSINFO_EHDR      *)
(* leads through the program headers, the dynamic section and the symbol   *)
(* and version tables of an ELF image.  One step is one turn of a loop.    *)
(* A pointer into an image is modelled by what the image has there.        *)
(***************************************************************************)
EXTENDS Sequences, Integers

CONSTANTS
  MaxEntries,  \* MAX_AUXV_ENTRIES
  Space,       \* the size of the address space: addresses wrap around
  Elf,         \* the images that may be mapped, a sequence
  Vectors,     \* the auxiliary vectors that the kernel may have saved
  Target,      \* get_name_and_version: <<name, version>>, or None
  None         \* None

ASSUME EntriesAssumption == MaxEntries \in Nat /\ Space \in Nat \ {0}

Tags == {"STRTAB", "SYMTAB", "VERSYM", "VERDEF"}

VARIABLES
  saved,     \* the kernel's auxiliary vector
  at,        \* which loop the call is in; "open" or "refused" after Pool::new
  index,     \* AuxvIter.index, from 1
  func, page_size,
  elf,       \* the image of the AT_SYSINFO_EHDR entry being followed
  symbol_count,
  i,         \* the position in the sections, headers, dynamic section or symbols
  v,         \* the position in the version definitions
  vdso_addr, vdso_dyn,  \* PhdrInfo
  table,     \* strtab, symtab, versym and verdef of SymbolTable::load
  found      \* what the call returned: <<func, page_size>> or None

auxv   == <<index, func, page_size>>
phdr   == <<vdso_addr, vdso_dyn>>
locals == <<auxv, elf, symbol_count, i, v, phdr, table>>
lvars  == <<saved, at, locals, found>>

Image == Elf[elf]

LookupInit ==
  /\ saved \in Vectors
  /\ at = "auxv_new" /\ index = 1 /\ func = None /\ page_size = None
  /\ elf = None /\ symbol_count = 0 /\ i = 1 /\ v = 1
  /\ vdso_addr = None /\ vdso_dyn = None
  /\ table = [tag \in Tags |-> None]
  /\ found = None

Return(r) == at' = "done" /\ found' = r
Fail      == Return(None) /\ UNCHANGED <<saved, locals>>

\* The box of Auxv::new after prctl: what fits of the vector, then AT_NULL.
Entry(n) == IF n <= Len(saved) THEN saved[n] ELSE [key |-> "NULL", value |-> 0]

\* Auxv::new: PR_GET_AUXV, which older kernels do not know.
AuxvNew ==
  /\ at = "auxv_new"
  /\ \/ Fail
     \/ at' = "auxv" /\ UNCHANGED <<saved, locals, found>>

\* A wrong AuxvIter: it reads on until it meets an AT_NULL.
HasEntryBeyond == Entry(index).key # "NULL"
\* AuxvIter::next
HasEntry == index <= MaxEntries /\ Entry(index).key # "NULL"

\* The entries that are neither wanted key are passed over.
NextEntry ==
  /\ at = "auxv" /\ HasEntry /\ Entry(index).key # "SYSINFO_EHDR"
  /\ index' = index + 1
  /\ page_size' = IF Entry(index).key = "PAGESZ" THEN Entry(index).value ELSE page_size
  /\ UNCHANGED <<saved, at, func, elf, symbol_count, i, v, phdr, table, found>>

\* AT_SYSINFO_EHDR: a null pointer ends the call, else the image is loaded.
NextEhdr ==
  /\ at = "auxv" /\ HasEntry /\ Entry(index).key = "SYSINFO_EHDR"
  /\ \/ Entry(index).value = 0 /\ Fail
     \/ /\ Entry(index).value # 0
        /\ elf' = Entry(index).value /\ i' = 1 /\ at' = "shdr"
        /\ UNCHANGED <<saved, auxv, symbol_count, v, phdr, table, found>>

\* Some((func?, page_size?))
EndAuxv ==
  /\ at = "auxv" /\ ~HasEntry
  /\ Return(IF None \in {func, page_size} THEN None ELSE <<func, page_size>>)
  /\ UNCHANGED <<saved, locals>>

\* ElfShdrArray::symbol_count: of the first SHT_DYNSYM section, 0 if there is none.
NextShdr ==
  /\ at = "shdr" /\ i <= Len(Image.shdrs) /\ Image.shdrs[i].type # "DYNSYM"
  /\ i' = i + 1
  /\ UNCHANGED <<saved, at, auxv, elf, symbol_count, v, phdr, table, found>>

EndShdr ==
  /\ at = "shdr"
  /\ \/ i > Len(Image.shdrs) /\ symbol_count' = 0
     \/ /\ i <= Len(Image.shdrs) /\ Image.shdrs[i].type = "DYNSYM"
        /\ symbol_count' = Image.shdrs[i].size \div Image.shdrs[i].entsize
  /\ at' = "phdr" /\ i' = 1 /\ vdso_addr' = None /\ vdso_dyn' = None
  /\ UNCHANGED <<saved, auxv, elf, v, table, found>>

\* PhdrInfo::load: the last PT_DYNAMIC and the last executable PT_LOAD count.
NextPhdr ==
  /\ at = "phdr" /\ i <= Len(Image.phdrs)
  /\ LET ph == Image.phdrs[i]
     IN  /\ vdso_dyn'  = IF ph.type = "DYNAMIC" THEN ph.dyn ELSE vdso_dyn
         /\ vdso_addr' = IF ph.type = "LOAD" /\ ph.exec
                         THEN (Image.ehdr + ph.offset - ph.vaddr) % Space ELSE vdso_addr
  /\ i' = i + 1
  /\ UNCHANGED <<saved, at, auxv, elf, symbol_count, v, table, found>>

EndPhdr ==
  /\ at = "phdr" /\ i > Len(Image.phdrs)
  /\ \/ None \in {vdso_addr, vdso_dyn} /\ Fail
     \/ /\ None \notin {vdso_addr, vdso_dyn}
        /\ at' = "dyn" /\ i' = 1 /\ table' = [tag \in Tags |-> None]
        /\ UNCHANGED <<saved, auxv, elf, symbol_count, v, phdr, found>>

\* DynIter and SymbolTable::load: the last entry of each tag counts; an address
\* that wraps to zero ends the call.
NextDyn ==
  /\ at = "dyn" /\ Image.dyns[vdso_dyn][i].tag # "NULL"
  /\ LET dy   == Image.dyns[vdso_dyn][i]
         addr == (vdso_addr + dy.val) % Space
     IN  \/ dy.tag \in Tags /\ addr = 0 /\ Fail
         \/ /\ ~(dy.tag \in Tags /\ addr = 0)
            /\ table' = IF dy.tag \in Tags THEN [table EXCEPT ![dy.tag] = addr] ELSE table
            /\ i' = i + 1
            /\ UNCHANGED <<saved, at, auxv, elf, symbol_count, v, phdr, found>>

EndDyn ==
  /\ at = "dyn" /\ Image.dyns[vdso_dyn][i].tag = "NULL"
  /\ \/ (\E tag \in Tags : table[tag] = None) /\ Fail
     \/ /\ \A tag \in Tags : table[tag] # None
        /\ at' = "sym" /\ i' = 1
        /\ UNCHANGED <<saved, auxv, elf, symbol_count, v, phdr, table, found>>

\* What the image has at the address that was read for a tag.
Data(tag) == Image.mem[table[tag]]

\* find_symbol returned f; the scan of the auxiliary vector goes on.
Found(f) ==
  /\ func' = f /\ index' = index + 1 /\ at' = "auxv"
  /\ UNCHANGED <<saved, page_size, elf, symbol_count, i, v, phdr, table, found>>

\* find_symbol: the names before the target's are passed over.
NextSymbol ==
  /\ at = "sym" /\ Target # None /\ i <= symbol_count
  /\ IF Data("STRTAB")[Data("SYMTAB")[i].name] = Target[1]
     THEN at' = "ver" /\ v' = 1 /\ UNCHANGED i
     ELSE i' = i + 1 /\ UNCHANGED <<at, v>>
  /\ UNCHANGED <<saved, auxv, elf, symbol_count, phdr, table, found>>

NoSymbol == at = "sym" /\ (Target = None \/ i > symbol_count) /\ Found(None)

\* Fifteen bits of a version index are compared; the last one hides a symbol.
Ndx(n) == n % 2^15

\* A wrong find_version: the definition of the file itself is not passed over.
MatchesBase(d) == Ndx(d.ndx) = Ndx(Data("VERSYM")[i])

\* find_version: VER_FLG_BASE is passed over, then the index decides.
Matches(d) == ~d.base /\ Ndx(d.ndx) = Ndx(Data("VERSYM")[i])

\* A wrong VerdefIter: it stays where it is.
NextVerdefInPlace ==
  /\ at = "ver"
  /\ ~Matches(Data("VERDEF")[v])
  /\ UNCHANGED lvars

NextVerdef ==
  /\ at = "ver"
  /\ LET d == Data("VERDEF")[v]
     IN  ~Matches(d) /\ d.more
  /\ v' = v + 1
  /\ UNCHANGED <<saved, at, auxv, elf, symbol_count, i, phdr, table, found>>

\* find_version returned None, and so does find_symbol.
NoVersion ==
  /\ at = "ver"
  /\ LET d == Data("VERDEF")[v]
     IN  IF Matches(d) THEN d.aux = 0 ELSE ~d.more
  /\ Found(None)

\* version == target_version, or on to the next symbol.
Version ==
  /\ at = "ver"
  /\ LET d == Data("VERDEF")[v]
     IN  /\ Matches(d) /\ d.aux # 0
         /\ \/ /\ Data("STRTAB")[d.aux] = Target[2]
               /\ Found((vdso_addr + Data("SYMTAB")[i].value) % Space)
            \/ /\ Data("STRTAB")[d.aux] # Target[2]
               /\ at' = "sym" /\ i' = i + 1
               /\ UNCHANGED <<saved, auxv, elf, symbol_count, v, phdr, table, found>>

LookupStep == AuxvNew \/ NextEntry \/ NextEhdr \/ EndAuxv \/ NextShdr \/ EndShdr \/ NextPhdr
              \/ EndPhdr \/ NextDyn \/ EndDyn \/ NextSymbol \/ NoSymbol \/ NextVerdef
              \/ NoVersion \/ Version

---------------------------------------------------------------------------
(* Properties, in terms of what the kernel provides *)

Last(S) == CHOOSE n \in S : \A m \in S : m <= n

\* The entries that the box holds before its first AT_NULL.
Entries(key) ==
  {n \in 1..MaxEntries : Entry(n).key = key /\ \A m \in 1..n : Entry(m).key # "NULL"}

Code(im)     == {p \in DOMAIN im.phdrs : im.phdrs[p].type = "LOAD" /\ im.phdrs[p].exec}
Dynamics(im) == {p \in DOMAIN im.phdrs : im.phdrs[p].type = "DYNAMIC"}
Base(im) ==
  LET ph == im.phdrs[Last(Code(im))] IN (im.ehdr + ph.offset - ph.vaddr) % Space

DynamicSection(im) == im.dyns[im.phdrs[Last(Dynamics(im))].dyn]

\* The entries of a tag in the dynamic section, before its DT_NULL.
Tagged(im, tag) ==
  {p \in DOMAIN DynamicSection(im) : /\ DynamicSection(im)[p].tag = tag
                              /\ \A q \in 1..p : DynamicSection(im)[q].tag # "NULL"}
Address(im, p) == (Base(im) + DynamicSection(im)[p].val) % Space
Table(im, tag) == im.mem[Address(im, Last(Tagged(im, tag)))]

\* The image has what the lookup needs, and no table at a null address.
WellFormed(im) ==
  /\ Code(im) # {} /\ Dynamics(im) # {}
  /\ \A tag \in Tags : Tagged(im, tag) # {} /\ \A p \in Tagged(im, tag) : Address(im, p) # 0

Symbols(im) ==
  LET dynsym == {p \in DOMAIN im.shdrs : im.shdrs[p].type = "DYNSYM"}
      first  == im.shdrs[CHOOSE p \in dynsym : \A q \in dynsym : p <= q]
  IN  1..(IF dynsym = {} THEN 0 ELSE first.size \div first.entsize)

\* What the lookup trusts the kernel with: the sizes of entries are not zero, the
\* dynamic sections and the version definitions come to an end, and an image that
\* has all the tables has what they are said to hold.  Nothing says which of the
\* sections, headers and entries there are, how often, or in which order.
IsImage(im) ==
  /\ im.ehdr \in Nat
  /\ im.shdrs \in Seq([type : STRING, size : Nat, entsize : Nat])
  /\ \A n \in DOMAIN im.shdrs : im.shdrs[n].type = "DYNSYM" => im.shdrs[n].entsize # 0
  /\ im.phdrs \in Seq([type : STRING, exec : BOOLEAN, offset : Nat, vaddr : Nat, dyn : Nat])
  /\ \A n \in Dynamics(im) :
       /\ im.dyns[im.phdrs[n].dyn] \in Seq([tag : STRING, val : Nat])
       /\ \E q \in DOMAIN im.dyns[im.phdrs[n].dyn] : im.dyns[im.phdrs[n].dyn][q].tag = "NULL"
  /\ WellFormed(im) =>
       /\ \A s \in Symbols(im) : Table(im, "SYMTAB")[s].value \in Nat
       /\ Table(im, "VERDEF") \in Seq([base : BOOLEAN, ndx : Nat, aux : Nat, more : BOOLEAN])
       /\ \E d \in DOMAIN Table(im, "VERDEF") : ~Table(im, "VERDEF")[d].more

\* A vector leads to images only, and None is neither a size nor an address.
ASSUME ElfAssumption == \A k \in DOMAIN Elf : k # 0 /\ IsImage(Elf[k])
ASSUME VectorsAssumption ==
  \A vec \in Vectors :
    /\ vec \in Seq([key : STRING, value : Nat])
    /\ \A n \in DOMAIN vec : vec[n].key = "SYSINFO_EHDR" => vec[n].value \in {0} \cup DOMAIN Elf
ASSUME NoneAssumption == None \notin Nat

\* The symbols of the wanted name, and the version names of a symbol; a
\* definition that repeats an index is not found.
Named(im) ==
  {s \in Symbols(im) : Table(im, "STRTAB")[Table(im, "SYMTAB")[s].name] = Target[1]}
Versions(im, s) ==
  LET defs  == Table(im, "VERDEF")
      IsFor(d) == ~defs[d].base /\ Ndx(defs[d].ndx) = Ndx(Table(im, "VERSYM")[s])
  IN  {Table(im, "STRTAB")[defs[d].aux] :
         d \in {e \in DOMAIN defs : /\ IsFor(e) /\ defs[e].aux # 0
                                    /\ \A c \in 1..e : IsFor(c) => c = e
                                    /\ \A c \in 1..(e - 1) : defs[c].more}}

\* The symbols that are provided: name and version are the wanted ones, and every
\* symbol of the name up to there has some version.
Provided(im) ==
  {s \in Named(im) : /\ Versions(im, s) = {Target[2]}
                     /\ \A r \in Named(im) : r < s => Versions(im, r) # {}}

\* What the kernel provides: the first such symbol of the image that the last
\* AT_SYSINFO_EHDR gives, and the last AT_PAGESZ.
Lookup ==
  LET ehdrs == Entries("SYSINFO_EHDR")
      last  == Elf[Entry(Last(ehdrs)).value]
  IN  IF \/ Target = None \/ ehdrs = {} \/ Entries("PAGESZ") = {}
         \/ \E n \in ehdrs : Entry(n).value = 0
         \/ \E n \in ehdrs : ~WellFormed(Elf[Entry(n).value])
         \/ Provided(last) = {}
      THEN None
      ELSE LET s == CHOOSE s \in Provided(last) : \A r \in Provided(last) : s <= r
           IN  <<(Base(last) + Table(last, "SYMTAB")[s].value) % Space,
                 Entry(Last(Entries("PAGESZ"))).value>>

\* Every variable has its type: the iterators stay in the box, also when no AT_NULL
\* ends it, in the headers, in the symbol table and in the version definitions.
LookupTypeOK ==
  /\ at \in {"auxv_new", "auxv", "shdr", "phdr", "dyn", "sym", "ver", "done", "open",
             "refused"}
  /\ index \in 1..(MaxEntries + 1)
  /\ at # "auxv_new" /\ elf # None => elf \in DOMAIN Elf
  /\ at = "shdr" => i \in 1..(Len(Image.shdrs) + 1)
  /\ at = "phdr" => i \in 1..(Len(Image.phdrs) + 1)
  /\ at = "dyn"  => i \in DOMAIN Image.dyns[vdso_dyn]
  /\ at = "sym"  => i \in 1..(symbol_count + 1)
  /\ at = "ver"  => i \in 1..symbol_count /\ v \in DOMAIN Data("VERDEF")
  /\ \A a \in {func, vdso_addr} \cup {table[tag] : tag \in Tags} :
       a = None \/ a \in 0..(Space - 1)

\* get_function_and_page_size finds what the kernel provides and nothing else,
\* whatever the vector and the images leave out, repeat or put in another order;
\* it comes back empty-handed otherwise, or when prctl fails.
LookupCorrect == at = "done" => found \in {None, Lookup} /\ (index > 1 => found = Lookup)

\* Pool::new comes to an end: no loop over the vector and the tables runs for ever.
PoolNewReturns == <>(at \in {"open", "refused"})

=============================================================================
