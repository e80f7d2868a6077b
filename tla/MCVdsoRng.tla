----------------------------- MODULE MCVdsoRng -----------------------------
(* Small images and auxiliary vectors for TLC: an address space of 64.     *)
EXTENDS VdsoRng

MCTarget == <<"__vdso_getrandom", "LINUX_2.6">>

Strings == [o \in 1..5 |-> <<"getcpu", "__vdso_getrandom", "LINUX_2.6", "LINUX_3", "vdso.so">>[o]]

Symbol(name, value)    == [name |-> name, value |-> value]
Def(base, ndx, aux, m) == [base |-> base, ndx |-> ndx, aux |-> aux, more |-> m]
Dyn(tag, val)          == [tag |-> tag, val |-> val]
Load(exec, off, vaddr) == [type |-> "LOAD", exec |-> exec, offset |-> off, vaddr |-> vaddr,
                           dyn |-> 0]
Dynamic(d)             == [type |-> "DYNAMIC", exec |-> FALSE, offset |-> d, vaddr |-> 0,
                           dyn |-> d]
Section(type, n)       == [type |-> type, size |-> 3 * n, entsize |-> 3]

\* Where the image lies, and its tables.  The third symbol lies behind the end.
Ehdr == 16
Definitions == << Def(TRUE, 1, 5, TRUE), Def(FALSE, 2, 3, TRUE), Def(FALSE, 3, 4, TRUE),
                  Def(FALSE, 4, 0, FALSE) >>
Dynamics2 == << << Dyn("STRTAB", 1), Dyn("SYMTAB", 2), Dyn("SONAME", 5), Dyn("VERSYM", 3),
                   Dyn("VERDEF", 4), Dyn("NULL", 0), Dyn("VERDEF", 1) >>,
                << Dyn("VERDEF", 9), Dyn("STRTAB", 49), Dyn("SYMTAB", 50), Dyn("VERSYM", 51),
                   Dyn("VERDEF", 52), Dyn("NULL", 0) >>,
                << Dyn("STRTAB", 1), Dyn("SYMTAB", 2), Dyn("VERDEF", 4), Dyn("NULL", 0) >>,
                << Dyn("VERDEF", 48), Dyn("STRTAB", 1), Dyn("SYMTAB", 2), Dyn("VERSYM", 3),
                   Dyn("VERDEF", 4), Dyn("NULL", 0) >> >>

\* Headers: linked at 0, or at 48 and so with absolute addresses that wrap; data
\* segments around the code; no code; no dynamic section; a section without VERSYM;
\* a table at the null address.
Headers == << << Load(FALSE, 9, 0), Dynamic(1), Load(TRUE, 0, 0), Load(FALSE, 9, 0) >>,
              << Dynamic(1), Load(TRUE, 9, 0), Load(TRUE, 0, 48), Dynamic(2) >>,
              << Load(FALSE, 0, 0), Dynamic(1) >>,
              << Load(TRUE, 0, 0) >>,
              << Load(TRUE, 0, 0), Dynamic(3) >>,
              << Load(TRUE, 0, 0), Dynamic(4) >> >>

Sections == << << Section("STRTAB", 1), Section("DYNSYM", 2), Section("DYNSYM", 3) >>,
               << Section("DYNSYM", 1) >>,
               << Section("STRTAB", 3) >> >>

\* The version indices of the symbols: none, the wanted one, the same and hidden,
\* another one, and one whose definition has no name.
Ndxs == <<1, 2, 2 + 2^15, 3, 4>>

MCImage(h, s, n1, n2, x1, x2) ==
  [ehdr |-> Ehdr, shdrs |-> Sections[s], phdrs |-> Headers[h], dyns |-> Dynamics2,
   mem  |-> [a \in 17..20 |->
               CASE a = 17 -> Strings
                 [] a = 18 -> << Symbol(n1, 21), Symbol(n2, 22), Symbol(2, 23) >>
                 [] a = 19 -> << Ndxs[x1], Ndxs[x2], 2 >>
                 [] a = 20 -> Definitions]]

\* All symbol tables in a sound image, then one image for each other flaw.
MCElf ==
  [k \in 1..108 |->
     IF k <= 100
     THEN MCImage(1, 1, 1 + (k - 1) \div 50, 1 + (((k - 1) \div 25) % 2),
                  1 + (((k - 1) \div 5) % 5), 1 + ((k - 1) % 5))
     ELSE IF k <= 106 THEN MCImage(k - 100, 1, 1, 2, 1, 2)
     ELSE MCImage(1, k - 105, 1, 2, 1, 2)]

Val(key, value) == [key |-> key, value |-> value]
Ehdrs(ks)       == {Val("SYSINFO_EHDR", k) : k \in ks}

\* One image and the page size in either order; then anything of a few entries, up
\* to one more than the box has room for.  Image 51 + 1 has the wanted symbol.
Sample    == {Val("PAGESZ", 5), Val("PAGESZ", 7), Val("RANDOM", 9), Val("NULL", 0)}
               \cup Ehdrs({0, 52, 82, 103})
MCVectors ==
  {<<Val("RANDOM", 9), Val("PAGESZ", 5), e>> : e \in Ehdrs(1..108)}
    \cup {<<e, Val("PAGESZ", 5)>> : e \in Ehdrs(1..108)}
    \cup UNION {[1..n -> Sample] : n \in 0..4}

============================================================================
