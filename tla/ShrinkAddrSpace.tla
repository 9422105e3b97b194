--------------------------- MODULE ShrinkAddrSpace ---------------------------
(***************************************************************************)
(* How a program is moved into the reduced address space before its main   *)
(* runs: prelink_binary.py gives the libraries low addresses, the loader   *)
(* maps them, the preinit functions run, and the replacement of            *)
(* __libc_start_main fills every hole above the reduced space, builds a    *)
(* new stack, protects the old one and moves the thread-local storage.     *)
(*                                                                         *)
(* Addresses are pages; `mem' says what each page holds.  The stack is     *)
(* kept word by word, because its pointers are what has to be relocated:   *)
(* page p holds the words WordsPerPage * p onwards, and a string takes     *)
(* one word.                                                               *)
(***************************************************************************)
EXTENDS Integers, Sequences, FiniteSets, FiniteSetsExt

CONSTANTS
  Reduced,        \* REDUCED_ADDRSPACE_SIZE
  Kern,           \* KERN_ADDRSPACE
  MmapBase,       \* the kernel searches downwards from here
  TablePage,      \* the fixed place of the meta-pagetable
  WordsPerPage,
  StackPages,     \* RLIMIT_STACK
  MapsSizes,      \* lengths of the array maps[] (256 in the code)
  BinaryMaps,     \* the PT_LOAD ranges of the program, records start, size
  Libs,           \* the libraries, loader included, by name
  LibSize, LibAlign,
  PrelinkBase,    \* baseaddr
  HighLayouts,    \* pages of stack and vdso that the kernel may choose
  Args, Envs,     \* how many argv and envp strings there may be
  MaxProgramMaps  \* bound: mappings the program makes

ASSUME LayoutAssumption ==
  /\ 0 < PrelinkBase /\ PrelinkBase < Reduced /\ Reduced < TablePage
  /\ TablePage < MmapBase /\ MmapBase <= Kern
  /\ \A h \in HighLayouts : {h.stack, h.vdso} \subseteq (TablePage + 1) .. (Kern - 1)

VARIABLES
  mem,            \* page -> what is mapped there
  stage,          \* where start-up is
  setup,          \* what was chosen before: variant, whitelisted, maps_size, argc, envc
  baseaddr, unplaced, base,   \* prelink_libs: next address, libraries left, placements
  preinit,        \* preinit functions still to run
  tableAlloced,   \* isPageTableAlloced
  sentinel,       \* metalloc_sentinel has been mapped
  words,          \* stack words, old and new
  ubp, environ,   \* the pointers __libc_start_main and the C library hold
  truncated,      \* some scan of /proc/self/maps met the end of maps[]
  filledFrom,     \* history: mem when the holes had been filled, or <<>>
  running_in_small_addr_space

shrinkVars == <<mem, stage, setup, baseaddr, unplaced, base, preinit, tableAlloced,
                sentinel, words, ubp, environ, truncated, filledFrom,
                running_in_small_addr_space>>

Pages == 0 .. Kern - 1
Static == setup.variant = "static"

-----------------------------------------------------------------------------
(* The stack the kernel hands over.                                        *)

Word(kind, v) == [kind |-> kind, v |-> v]
Null == Word("null", 0)

\* From argc at the lowest address to the marker at the highest, `top'.
OldStack(top, argc, envc) ==
  LET n       == argc + envc
      strings == [i \in 1 .. n |-> Word("string", i)]
      at(i)   == top - 2 - n + i           \* address of string i
      argv    == [i \in 1 .. argc |-> Word("pointer", at(i))]
      envp    == [i \in 1 .. envc |-> Word("pointer", at(argc + i))]
      auxv    == <<Word("auxv", top - 1)>> \* AT_EXECFN
      all     == <<Word("argc", argc)>> \o argv \o <<Null>> \o envp \o <<Null>>
                 \o auxv \o <<Null>> \o strings \o <<Word("string", 0)>> \o <<Null>>
  IN [a \in (top - Len(all) + 1) .. top |-> all[a - top + Len(all)]]

\* The pointers from address a up to the next null word.
PointersFrom(w, a) ==
  LET stop == Min({b \in DOMAIN w : b >= a /\ w[b] = Null}) IN a .. stop - 1

-----------------------------------------------------------------------------
(* The kernel.                                                             *)

\* mmap(NULL, n): the highest free range below MmapBase; when there is none
\* the kernel searches upwards from a third of the address space.
MmapNull(m, n) ==
  LET fits(a) == \A b \in a .. a + n - 1 : m[b] = "free"
      below   == {a \in 1 .. MmapBase - n : fits(a)}
      above   == {a \in TablePage .. Kern - n : fits(a)}
  IN IF below # {} THEN {Max(below)} ELSE IF above # {} THEN {Min(above)} ELSE {}

Map(m, a, n, kind) == [b \in Pages |-> IF b \in a .. a + n - 1 THEN kind ELSE m[b]]

-----------------------------------------------------------------------------
(* get_proc_maps and its users.                                            *)

\* /proc/self/maps: the maximal ranges of one kind.
ProcMaps(m) ==
  LET starts == {a \in Pages : m[a] # "free" /\ (a = 0 \/ m[a - 1] # m[a])}
      end(a) == Min({b \in a + 1 .. Kern : b = Kern \/ m[b] # m[a]})
  IN {[start |-> a, end |-> end(a)] : a \in starts}

\* The file is read from the lowest address up, until the array is full.
get_proc_maps(m) ==
  LET all == ProcMaps(m)
  IN {x \in all : Cardinality({y \in all : y.start <= x.start}) <= setup.maps_size}

ScanTruncated(m) == Cardinality(ProcMaps(m)) > setup.maps_size

\* Mutant: only the holes between two high mappings.
HighHolesBetween(m) ==
  LET high == {x \in get_proc_maps(m) : x.start > Reduced /\ x.start < Kern}
  IN {a \in Reduced .. Kern - 1 : /\ \E x, y \in high : x.start < a /\ a < y.start
                                  /\ \A x \in high : a \notin x.start .. x.end - 1}

\* Mutant: takes the end of a mapping for its last page.
HighHolesShort(m) ==
  LET high == {x \in get_proc_maps(m) : x.start > Reduced /\ x.start < Kern}
  IN {a \in Reduced .. Kern - 1 : /\ \E x \in high : a < x.start
                                  /\ \A x \in high : a \notin x.start .. x.end - 2}

\* What fill_high_holes maps over with MAP_FIXED: from the end of each high
\* mapping, at first from Reduced, to the start of the next.
HighHoles(m) ==
  LET high == {x \in get_proc_maps(m) : x.start > Reduced /\ x.start < Kern}
  IN {a \in Reduced .. Kern - 1 : /\ \E x \in high : a < x.start
                                  /\ \A x \in high : a \notin x.start .. x.end - 1}

fill_high_holes(m) ==
  LET holes == HighHoles(m)
  IN [a \in Pages |-> IF a \in holes THEN "reserved" ELSE m[a]]

\* Every mapping with the old stack pointer in it loses all access.
unmap_old_stack(m, oldstackptr) ==
  LET hit == {x \in get_proc_maps(m) : x.start <= oldstackptr /\ oldstackptr < x.end}
  IN [a \in Pages |-> IF \E x \in hit : a \in x.start .. x.end - 1 THEN "oldstack" ELSE m[a]]

TlsScanned(m) == {x \in get_proc_maps(m) : m[x.start] = "tls"}

-----------------------------------------------------------------------------
(* Prelinking.                                                             *)

ShrinkInit ==
  /\ \E h \in HighLayouts :
       mem = [a \in Pages |-> CASE a = h.stack -> "stack"
                                [] a = h.vdso -> "vdso"
                                [] OTHER -> "free"]
  /\ setup \in [variant : {"preload", "static"}, whitelisted : BOOLEAN,
                maps_size : MapsSizes, argc : Args, envc : Envs]
  /\ stage = "prelink"
  /\ baseaddr = PrelinkBase /\ unplaced = Libs /\ base = [l \in Libs |-> -1]
  /\ preinit \in IF Static THEN {<<"globals", "shrink">>, <<"shrink", "globals">>}
                           ELSE {<<"globals">>}
  /\ tableAlloced = FALSE /\ sentinel = FALSE
  /\ \E s \in Pages : /\ mem[s] = "stack"
                      /\ words = OldStack(s * WordsPerPage + WordsPerPage - 1,
                                          setup.argc, setup.envc)
  /\ ubp = Min(DOMAIN words) + 1
  /\ environ = ubp + setup.argc + 1
  /\ truncated = FALSE /\ filledFrom = <<>> /\ running_in_small_addr_space = FALSE

Overlaps(start, size, m) ==
  LET end == start + size
      m_end == m.start + m.size
  IN \/ start >= m.start /\ start < m_end
     \/ end > m.start /\ end <= m_end
     \/ start <= m.start /\ end >= m_end

\* get_overlap: the last of the ordered ranges that overlaps, as a set.
get_overlap(start, size) ==
  LET hits == {m \in BinaryMaps : Overlaps(start, size, m)}
  IN {m \in hits : \A k \in hits : k.start <= m.start}

AlignDown(a, n) == a - (a % n)

\* The search of prelink_libs: align, and step below whatever is in the way.
FindSlot(size, align) ==
  LET f[a \in Int] ==
        LET b == AlignDown(a, align)
        IN IF get_overlap(b, size) = {} THEN b
           ELSE f[(CHOOSE m \in get_overlap(b, size) : TRUE).start - size]
  IN f[baseaddr - size]

\* One turn of the loop over the set of libraries, whose order is open.
PrelinkLib(lib) ==
  /\ stage = "prelink" /\ lib \in unplaced
  /\ baseaddr' = FindSlot(LibSize[lib], LibAlign[lib])
  /\ base' = [base EXCEPT ![lib] = baseaddr']
  /\ unplaced' = unplaced \ {lib}
  /\ UNCHANGED <<mem, stage, setup, preinit, tableAlloced, sentinel, words, ubp,
                 environ, truncated, filledFrom, running_in_small_addr_space>>

\* fix_preinit.py: the function goes to the front, the others keep their order.
fix_preinit(funcs) == SelectSeq(funcs, LAMBDA f : f = "shrink")
                      \o SelectSeq(funcs, LAMBDA f : f # "shrink")

FixPreinit ==
  /\ stage = "prelink" /\ Static /\ preinit # fix_preinit(preinit)
  /\ preinit' = fix_preinit(preinit)
  /\ UNCHANGED <<mem, stage, setup, baseaddr, unplaced, base, tableAlloced, sentinel,
                 words, ubp, environ, truncated, filledFrom, running_in_small_addr_space>>

-----------------------------------------------------------------------------
(* Start-up.                                                               *)

\* The kernel maps the binary and the loader, the loader maps the libraries
\* where they were prelinked and gets memory for the thread-local storage.
Load ==
  /\ stage = "prelink" /\ unplaced = {}
  /\ LET bin(a) == \E m \in BinaryMaps : a \in m.start .. m.start + m.size - 1
         lib(a) == {l \in Libs : a \in base[l] .. base[l] + LibSize[l] - 1}
         image  == [a \in Pages |-> IF lib(a) # {} THEN CHOOSE l \in lib(a) : TRUE
                                    ELSE IF bin(a) THEN "binary" ELSE mem[a]]
     IN \E t \in MmapNull(image, 1) : mem' = Map(image, t, 1, "tls")
  /\ stage' = "preinit"
  /\ UNCHANGED <<setup, baseaddr, unplaced, base, preinit, tableAlloced, sentinel, words,
                 ubp, environ, truncated, filledFrom, running_in_small_addr_space>>

\* page_table_init maps the table at its fixed place, over anything there.
page_table_init(m) == IF tableAlloced THEN m ELSE Map(m, TablePage, 1, "table")

\* initialize_global_metadata: metadata of the globals, whose entries bring
\* the table in, then metadata of the stack.
GlobalInit ==
  /\ stage = "preinit" /\ preinit # <<>> /\ Head(preinit) = "globals"
  /\ \E a \in MmapNull(mem, 1) :
       LET m1 == page_table_init(Map(mem, a, 1, "metadata"))
       IN \E b \in MmapNull(m1, 1) : mem' = Map(m1, b, 1, "metadata")
  /\ tableAlloced' = TRUE
  /\ preinit' = Tail(preinit)
  /\ UNCHANGED <<stage, setup, baseaddr, unplaced, base, sentinel, words, ubp, environ,
                 truncated, filledFrom, running_in_small_addr_space>>

FillHoles ==
  /\ mem' = fill_high_holes(mem)
  /\ truncated' = (truncated \/ ScanTruncated(mem))
  /\ filledFrom' = mem'

\* __shrinkaddrspace_preinit of the static library.
ShrinkPreinit ==
  /\ stage = "preinit" /\ preinit # <<>> /\ Head(preinit) = "shrink"
  /\ preinit' = Tail(preinit)
  /\ IF setup.whitelisted THEN UNCHANGED <<mem, truncated, filledFrom>> ELSE FillHoles
  /\ UNCHANGED <<stage, setup, baseaddr, unplaced, base, tableAlloced, sentinel, words,
                 ubp, environ, running_in_small_addr_space>>

\* __libc_start_main: a whitelisted program runs as it is; the preloaded
\* library fills the holes here, the static one did it in its preinit.
LibcStartMain ==
  /\ stage = "preinit" /\ preinit = <<>>
  /\ IF setup.whitelisted
     THEN stage' = "plain" /\ UNCHANGED <<mem, truncated, filledFrom>>
     ELSE /\ stage' = "new_stack"
          /\ IF Static THEN UNCHANGED <<mem, truncated, filledFrom>> ELSE FillHoles
  /\ UNCHANGED <<setup, baseaddr, unplaced, base, preinit, tableAlloced, sentinel, words,
                 ubp, environ, running_in_small_addr_space>>

\* mmap as the allocator replaces it: the mapping, then the sentinel and the
\* table on the first call.  The set of results; empty when it is refused.
HookedMmap(m, n, kind) ==
  {page_table_init(IF sentinel THEN Map(m, a, n, kind)
                   ELSE LET m1 == Map(m, a, n, kind)
                        IN IF MmapNull(m1, 1) = {} THEN m1
                           ELSE Map(m1, Max(MmapNull(m1, 1)), 1, "sentinel"))
     : a \in MmapNull(m, n)}

StackTop(m) == (1 + Max({a \in Pages : m[a] = "newstack"})) * WordsPerPage

\* setup_new_stack: find the top of the old stack behind the last string,
\* relocate argv and envp, and copy everything below the marker.
CreateNewStack ==
  LET argv   == PointersFrom(words, ubp)
      envp   == PointersFrom(words, ubp + Cardinality(argv) + 1)
      last   == Max({words[a].v : a \in argv \cup envp})
      top    == last + 2
  IN
  /\ stage = "new_stack"
  /\ IF MmapNull(mem, StackPages) = {}
     THEN /\ stage' = "exit"
          /\ UNCHANGED <<mem, words, ubp, environ, tableAlloced, sentinel>>
     ELSE /\ mem' \in HookedMmap(mem, StackPages, "newstack")
          /\ tableAlloced' = TRUE /\ sentinel' = TRUE
          /\ IF words[top] # Null
             THEN stage' = "exit" /\ UNCHANGED <<words, ubp, environ>>
             ELSE LET offset == top + 1 - StackTop(mem')
                      fixed  == [a \in DOMAIN words |->
                                   IF a \in argv \cup envp
                                   THEN [words[a] EXCEPT !.v = @ - offset] ELSE words[a]]
                      copied == [a \in {b - offset : b \in (ubp - 1) .. (top - 1)} |->
                                   fixed[a + offset]]
                  IN /\ words' = [a \in DOMAIN fixed \cup DOMAIN copied |->
                                    IF a \in DOMAIN copied THEN copied[a] ELSE fixed[a]]
                     /\ ubp' = ubp - offset
                     /\ environ' = (ubp + Cardinality(argv) + 1) - offset
                     /\ stage' = "new_main"
  /\ UNCHANGED <<setup, baseaddr, unplaced, base, preinit, truncated, filledFrom,
                 running_in_small_addr_space>>

\* new_main, on the new stack: protect the old stack, move the storage of
\* the thread, and call main.  Without its mapping in maps[] there is no
\* record of the thread-local storage to read.
NewMain ==
  /\ stage = "new_main"
  /\ LET m1 == unmap_old_stack(mem, CHOOSE a \in Pages : mem[a] = "stack")
     IN /\ truncated' = (truncated \/ ScanTruncated(mem) \/ ScanTruncated(m1))
        /\ IF TlsScanned(m1) = {}
           THEN stage' = "fault" /\ mem' = m1 /\ UNCHANGED running_in_small_addr_space
           ELSE IF MmapNull(m1, 1) = {}
           THEN stage' = "exit" /\ mem' = m1 /\ UNCHANGED running_in_small_addr_space
           ELSE /\ mem' \in HookedMmap(m1, 1, "newtls")
                /\ running_in_small_addr_space' = TRUE
                /\ stage' = "main"
  /\ UNCHANGED <<setup, baseaddr, unplaced, base, preinit, tableAlloced, sentinel, words,
                 ubp, environ, filledFrom>>

\* The program maps a page of its own.
ProgramMmap ==
  /\ stage = "main"
  /\ Cardinality({a \in Pages : mem[a] = "program"}) < MaxProgramMaps
  /\ mem' \in HookedMmap(mem, 1, "program")
  /\ UNCHANGED <<stage, setup, baseaddr, unplaced, base, preinit, tableAlloced, sentinel,
                 words, ubp, environ, truncated, filledFrom, running_in_small_addr_space>>

ShrinkNext ==
  \/ \E l \in Libs : PrelinkLib(l)
  \/ FixPreinit
  \/ Load
  \/ GlobalInit
  \/ ShrinkPreinit
  \/ LibcStartMain
  \/ CreateNewStack
  \/ NewMain
  \/ ProgramMmap

ShrinkSpec == ShrinkInit /\ [][ShrinkNext]_shrinkVars

-----------------------------------------------------------------------------
(* strcmp masks its pointers once the program is in the small space.       *)

StrcmpReads(a) == IF running_in_small_addr_space THEN a % (Reduced * WordsPerPage) ELSE a

\* The programs strings are where main looks for them: after the move, every
\* argv and envp pointer leads to the string it led to before, in the new
\* stack, and strcmp, which keeps the low bits only, reads the same place.
StackMoved ==
  stage = "main" =>
    /\ environ = ubp + setup.argc + 1
    /\ Cardinality(PointersFrom(words, ubp)) = setup.argc
    /\ Cardinality(PointersFrom(words, environ)) = setup.envc
    /\ \A i \in 1 .. setup.argc + setup.envc :
         LET a == IF i <= setup.argc THEN ubp + i - 1 ELSE environ + i - setup.argc - 1
             s == words[a].v
         IN /\ mem[a \div WordsPerPage] = "newstack" /\ mem[s \div WordsPerPage] = "newstack"
            /\ words[s] = Word("string", i)
            /\ (~truncated => StrcmpReads(s) = s)

\* No room for n pages below the reduced size.
LowFull(n) == \A b \in 1 .. Reduced - n : \E c \in b .. b + n - 1 : mem[c] # "free"

\* Once fill_high_holes has run over a complete list of mappings, the only
\* page mapped above the reduced address space is the table at its own place
\* (and, when the reduced space is full, pages above the last mapping, which
\* the loop leaves open); in main the old stack is out of reach.
NewMappingsLow ==
  filledFrom # <<>> /\ ~truncated =>
    /\ \A a \in Pages :
         a >= Reduced /\ mem[a] # filledFrom[a] =>
           \/ mem[a] \in {"table", "oldstack"}
           \/ /\ \A b \in a .. Kern - 1 : filledFrom[b] = "free"
              /\ LowFull(IF mem[a] = "newstack" THEN StackPages ELSE 1)
    /\ stage = "main" => \A a \in Pages : mem[a] # "stack"

\* A page in use keeps its use, except when the old stack is protected.
KeepsUse ==
  \A a \in Pages :
    mem[a] # mem'[a] =>
      \/ mem[a] \in {"free", "reserved"}
      \/ mem[a] = "stack" /\ mem'[a] = "oldstack"

\* MAP_FIXED and prelinked addresses never take a page that is in use: a page
\* leaves its use only when the old stack is protected, and only reserved
\* pages are handed to the table.
NothingClobbered == [][KeepsUse]_shrinkVars

=============================================================================
