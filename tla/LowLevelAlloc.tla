---------------------------- MODULE LowLevelAlloc ----------------------------
(***************************************************************************)
(* LowLevelAlloc: the first-fit allocator that the heap profiler, the heap *)
(* checker and the memory region map use for their own data.  Each arena   *)
(* keeps its free blocks in a skiplist in address order, which is modelled *)
(* pointer by pointer: node 0 is the head of the list and also stands for  *)
(* the null pointer, the other nodes are block addresses.                  *)
(*                                                                         *)
(* Sizes and addresses are in units of arena->roundup; a block header      *)
(* takes one unit.  The arena lock covers everything but the call of mmap. *)
(***************************************************************************)
EXTENDS Integers, Sequences, FiniteSets, FiniteSetsExt

CONSTANTS
  LLThreads,
  StaticArenas,     \* default_arena and unhooked_arena
  NewArenas,        \* arenas that NewArena may create
  MemoryUnits,      \* the address space
  PageUnits, ChunkUnits,   \* arena->pagesize and 16 of them
  MinUnits,         \* arena->min_size
  MaxLevel,         \* kMaxLevel
  Requests,         \* sizes asked for, without the header
  MaxBlocks         \* bound: blocks in use or being allocated

VARIABLES
  freelist,         \* arena -> [levels, next]: the skiplist
  header,           \* address of a block -> [size, magic, arena]
  llMapped,         \* units obtained from mmap
  allocation_count, \* arena -> count
  arenaAt,          \* arena -> block that holds it, 0 when it does not exist
  llPc              \* thread -> what it is doing

llVars == <<freelist, header, llMapped, allocation_count, arenaAt, llPc>>

Arenas == StaticArenas \cup NewArenas
LLIdle == [at |-> "idle"]
EmptyList == [levels |-> 0, next |-> [n \in {0} |-> [i \in 1 .. MaxLevel |-> 0]]]

LLInit ==
  /\ freelist = [a \in Arenas |-> EmptyList]
  /\ header = <<>>
  /\ llMapped = {}
  /\ allocation_count = [a \in Arenas |-> 0]
  /\ arenaAt = [a \in NewArenas |-> 0]
  /\ llPc = [t \in LLThreads |-> LLIdle]

-----------------------------------------------------------------------------
(* The skiplist.  Levels count from 1 here, from 0 in the code.            *)

IntLog2(size) ==
  LET log[s \in Nat] == IF s > MinUnits THEN 1 + log[s \div 2] ELSE 0 IN log[size]

\* Four links fit in a unit; header and level field take one unit and a quarter.
MaxFit(size) == 4 * size - 5
SkiplistLevels(size, n) == Min({IntLog2(size) + n, MaxFit(size), MaxLevel - 1})
RandomLevels(size) == {SkiplistLevels(size, n) : n \in 1 .. MaxLevel}

\* LLA_SkiplistSearch: prev[level], from the top level down.
SkiplistSearch(fl, e) ==
  LET walk[l \in 1 .. MaxLevel, p \in DOMAIN fl.next] ==
        LET n == fl.next[p][l] IN IF n # 0 /\ n < e THEN walk[l, n] ELSE p
      prev[l \in 1 .. fl.levels] ==
        walk[l, IF l = fl.levels THEN 0 ELSE prev[l + 1]]
  IN prev

SkiplistInsert(fl, e, levels) ==
  LET found   == SkiplistSearch(fl, e)
      prev(l) == IF l <= fl.levels THEN found[l] ELSE 0
      node    == [l \in 1 .. MaxLevel |-> IF l <= levels THEN fl.next[prev(l)][l] ELSE 0]
  IN [levels |-> Max({fl.levels, levels}),
      next   |-> [p \in DOMAIN fl.next \cup {e} |->
                    IF p = e THEN node
                    ELSE [l \in 1 .. MaxLevel |->
                            IF l <= levels /\ prev(l) = p THEN e ELSE fl.next[p][l]]]]

SkiplistDeleteBottom(fl, e) ==
  LET prev == SkiplistSearch(fl, e)
      next == [p \in DOMAIN fl.next \ {e} |->
                 [l \in 1 .. MaxLevel |->
                    IF l <= fl.levels /\ prev[l] = p /\ fl.next[p][l] = e
                    THEN fl.next[e][l] ELSE fl.next[p][l]]]
  IN [levels |-> fl.levels, next |-> next]

SkiplistDelete(fl, e) ==
  LET prev == SkiplistSearch(fl, e)
      next == [p \in DOMAIN fl.next \ {e} |->
                 [l \in 1 .. MaxLevel |->
                    IF l <= fl.levels /\ prev[l] = p /\ fl.next[p][l] = e
                    THEN fl.next[e][l] ELSE fl.next[p][l]]]
  IN [levels |-> Max({0} \cup {l \in 1 .. fl.levels : next[0][l] # 0}), next |-> next]

\* The state an operation of one arena works on.
State(a) == [fl |-> freelist[a], hdr |-> header]

\* Coalesce: the set of outcomes, one for each level the merged block may get.
Coalesce(s, a) ==
  LET n == s.fl.next[a][1]
      size == s.hdr[a].size + s.hdr[n].size
      rest == SkiplistDelete(SkiplistDelete(s.fl, n), a)
      hdr == [b \in DOMAIN s.hdr \ {n} |-> IF b = a THEN [s.hdr[a] EXCEPT !.size = size]
                                           ELSE s.hdr[b]]
  IN IF a = 0 \/ n = 0 THEN {s}
     ELSE IF a + s.hdr[a].size # n THEN {s}
     ELSE {[fl |-> SkiplistInsert(rest, a, l), hdr |-> hdr] : l \in RandomLevels(size)}

\* AddToFreelist: insert, then join with the block after and the one before.
AddToFreelist(s, f) ==
  UNION {LET ins  == [fl  |-> SkiplistInsert(s.fl, f, l),
                      hdr |-> [s.hdr EXCEPT ![f].magic = "free"]]
             prev == SkiplistSearch(ins.fl, f)[1]
         IN UNION {Coalesce(c, prev) : c \in Coalesce(ins, f)}
         : l \in RandomLevels(s.hdr[f].size)}

-----------------------------------------------------------------------------
(* Allocation.                                                             *)

Exists(a) == a \in NewArenas => arenaAt[a] # 0
FreeBlocks(hdr, a) == {b \in DOMAIN hdr : hdr[b].arena = a /\ hdr[b].magic = "free"}

\* The walk of DoAllocWithArena, along the lowest level that every block of
\* this size has: the block found, or 0.
FindBlock(s, req) ==
  LET i == SkiplistLevels(req, 1)
      walk[p \in DOMAIN s.fl.next] ==
        LET n == s.fl.next[p][i]
        IN IF n = 0 THEN 0 ELSE IF s.hdr[n].size < req THEN walk[n] ELSE n
  IN IF i <= s.fl.levels THEN walk[0] ELSE 0

\* Take block b off the list, and give back what is left of it.
Carve(s, b, req, a) ==
  LET taken == SkiplistDelete(s.fl, b)
      n     == b + req
      left  == s.hdr[b].size - req
      cut   == [c \in DOMAIN s.hdr \cup {n} |->
                  IF c = b THEN [size |-> req, magic |-> "allocated", arena |-> a]
                  ELSE IF c = n THEN [size |-> left, magic |-> "allocated", arena |-> a]
                  ELSE s.hdr[c]]
  IN IF req + MinUnits <= s.hdr[b].size
     THEN AddToFreelist([fl |-> taken, hdr |-> cut], n)
     ELSE {[fl |-> taken, hdr |-> [s.hdr EXCEPT ![b].magic = "allocated"]]}

Finish(t, s, a, req, purpose) ==
  LET b == FindBlock(s, req) IN
  /\ b # 0
  /\ \E r \in Carve(s, b, req, a) :
       freelist' = [freelist EXCEPT ![a] = r.fl] /\ header' = r.hdr
  /\ allocation_count' = [allocation_count EXCEPT ![a] = @ + 1]
  /\ IF purpose \in NewArenas
     THEN arenaAt' = [arenaAt EXCEPT ![purpose] = b]    \* NewArena constructs in it
     ELSE UNCHANGED arenaAt
  /\ llPc' = [llPc EXCEPT ![t] = LLIdle]

\* DoAllocWithArena up to the first unlock.
AllocWithArena(t, a, request, purpose) ==
  LET req == request + 1 IN
  /\ llPc[t].at = "idle" /\ Exists(a)
  /\ IF FindBlock(State(a), req) # 0
     THEN Finish(t, State(a), a, req, purpose) /\ UNCHANGED llMapped
     ELSE /\ llPc' = [llPc EXCEPT ![t] = [at |-> "mmap", a |-> a, req |-> req,
                                          purpose |-> purpose]]
          /\ UNCHANGED <<freelist, header, llMapped, allocation_count, arenaAt>>

InUse == {b \in DOMAIN header : header[b].magic = "allocated"}

\* unhooked_arena is "used only to allocate metadata for arenas".
Alloc(t, a, request) ==
  /\ a # "unhooked"
  /\ Cardinality(InUse) + Cardinality({u \in LLThreads : llPc[u].at = "mmap"}) < MaxBlocks
  /\ AllocWithArena(t, a, request, "client")

\* mmap without the lock, then the region goes to the list and the search is
\* repeated under the lock.
AllocMmap(t) ==
  LET pc   == llPc[t]
      size == ((pc.req + ChunkUnits - 1) \div ChunkUnits) * ChunkUnits
  IN
  /\ pc.at = "mmap"
  /\ \E p \in {q \in 1 .. MemoryUnits - size + 1 : (q - 1) % PageUnits = 0} :
       LET units == p .. p + size - 1
           hdr   == [b \in DOMAIN header \cup {p} |->
                       IF b = p THEN [size |-> size, magic |-> "allocated", arena |-> pc.a]
                       ELSE header[b]]
       IN /\ units \cap llMapped = {}
          /\ llMapped' = llMapped \cup units
          /\ \E s \in AddToFreelist([fl |-> freelist[pc.a], hdr |-> hdr], p) :
               Finish(t, s, pc.a, pc.req, pc.purpose)

NewArena(t, a, hooked) ==
  /\ a \in NewArenas /\ arenaAt[a] = 0 /\ \A u \in LLThreads : llPc[u].at = "idle"
  /\ \E meta \in StaticArenas :
       /\ hooked <=> meta = "default"       \* unhooked arenas keep out of the hooks
       /\ AllocWithArena(t, meta, 1, a)

-----------------------------------------------------------------------------
(* Free and DeleteArena.                                                   *)

IsArena(b) == \E a \in NewArenas : arenaAt[a] = b

Free(t, b) ==
  LET a == header[b].arena IN
  /\ llPc[t].at = "idle"
  /\ header[b].magic = "allocated" /\ ~IsArena(b)
  /\ \E s \in AddToFreelist(State(a), b) :
       freelist' = [freelist EXCEPT ![a] = s.fl] /\ header' = s.hdr
  /\ allocation_count' = [allocation_count EXCEPT ![a] = @ - 1]
  /\ UNCHANGED <<llMapped, arenaAt, llPc>>

\* Nobody else uses an arena that is being deleted; an arena that is not
\* empty stays.
DeleteArena(t, a) ==
  /\ llPc[t].at = "idle"
  /\ a \in NewArenas /\ arenaAt[a] # 0
  /\ \A u \in LLThreads : llPc[u].at = "mmap" => llPc[u].a # a
  /\ allocation_count[a] = 0
  /\ LET blocks == FreeBlocks(header, a)
         meta   == header[arenaAt[a]].arena
         hdr    == [b \in DOMAIN header \ blocks |-> header[b]]
     IN /\ llMapped' = llMapped \ UNION {b .. b + header[b].size - 1 : b \in blocks}
        /\ \E s \in AddToFreelist([fl |-> freelist[meta], hdr |-> hdr], arenaAt[a]) :
             /\ freelist' = [freelist EXCEPT ![meta] = s.fl, ![a] = EmptyList]
             /\ header' = s.hdr
        /\ allocation_count' = [allocation_count EXCEPT ![meta] = @ - 1]
  /\ arenaAt' = [arenaAt EXCEPT ![a] = 0]
  /\ UNCHANGED llPc

LLNext ==
  \E t \in LLThreads :
    \/ \E a \in Arenas, r \in Requests : Alloc(t, a, r)
    \/ AllocMmap(t)
    \/ \E b \in DOMAIN header : Free(t, b)
    \/ \E a \in NewArenas : DeleteArena(t, a) \/ \E h \in BOOLEAN : NewArena(t, a, h)

LLSpec == LLInit /\ [][LLNext]_llVars

-----------------------------------------------------------------------------
\* The nodes of one level, in the order the links give them.
LevelList(fl, l) ==
  LET walk[p \in DOMAIN fl.next] ==
        IF fl.next[p][l] = 0 THEN <<>> ELSE <<fl.next[p][l]>> \o walk[fl.next[p][l]]
  IN walk[0]

NodeLevels(fl, l) == {LevelList(fl, l)[i] : i \in DOMAIN LevelList(fl, l)}

\* Every check of the code holds in every state: the blocks of an arena tile
\* the memory it mapped, no two free blocks touch, the free blocks are exactly
\* the nodes of the bottom list, each level is in the order of addresses and a
\* part of the one below, a node has all the levels a search for its size may
\* start on, and the count is the number of allocated blocks; so an arena
\* that is deleted holds whole pages only.
ArenaWellFormed ==
  /\ UNION {b .. b + header[b].size - 1 : b \in DOMAIN header} = llMapped
  /\ \A b, c \in DOMAIN header : b < c => b + header[b].size <= c
  /\ \A a \in Arenas :
       LET fl == freelist[a]
           free == FreeBlocks(header, a)
       IN /\ fl.levels < MaxLevel
          /\ NodeLevels(fl, 1) = free /\ DOMAIN fl.next = free \cup {0}
          /\ \A l \in 1 .. MaxLevel :
               /\ \A i \in 1 .. Len(LevelList(fl, l)) - 1 : LevelList(fl, l)[i] < LevelList(fl, l)[i + 1]
               /\ l > 1 => NodeLevels(fl, l) \subseteq NodeLevels(fl, l - 1)
               /\ fl.next[0][l] # 0 <=> l <= fl.levels
          /\ \A b \in free :
               /\ b + header[b].size \notin free
               /\ b \in NodeLevels(fl, SkiplistLevels(header[b].size, 1))
          /\ allocation_count[a] =
               Cardinality({b \in DOMAIN header : header[b].arena = a} \ free)
          /\ allocation_count[a] = 0 =>
               \A b \in free : (b - 1) % PageUnits = 0 /\ header[b].size % PageUnits = 0

\* "A first-fit allocator": whatever levels the blocks got, the search, which
\* skips blocks with few levels, finds the first block in the order of
\* addresses that is large enough.
FirstFit ==
  \A a \in Arenas, req \in MinUnits .. MemoryUnits :
    LET fits == {b \in FreeBlocks(header, a) : header[b].size >= req}
    IN FindBlock(State(a), req) = IF fits = {} THEN 0 ELSE Min(fits)
=============================================================================
