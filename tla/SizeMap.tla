------------------------------- MODULE SizeMap -------------------------------
(***************************************************************************)
(* The size classes (common.cc): SizeMap::Init as it runs, one round of    *)
(* each of its loops per step, and the tables it leaves.                   *)
(***************************************************************************)
EXTENDS Integers, Sequences, FiniteSets, FiniteSetsExt

CONSTANTS
  kAlignment, kMinAlign, kPageSize, kMaxSize, kMaxSmallSize, kNumClasses,
  TransferNumObjects,     \* FLAGS_tcmalloc_transfer_num_objects
  kMinPages,              \* the pages a span of small objects has at least
  SmMaxPages               \* bound of the search for a span length

ASSUME SizeMapAssumption ==
  /\ {kAlignment, kMinAlign, kPageSize, kMaxSize, kMaxSmallSize, kNumClasses,
      TransferNumObjects, kMinPages, SmMaxPages} \subseteq Nat \ {0}
  /\ kAlignment <= kMinAlign

VARIABLES
  phase,           \* "classes", "arrays" or "done"
  sm_size,            \* the size under consideration, in "classes"
  sc,              \* the next class to assign, or to spread
  class_to_size,
  class_to_pages,
  class_array,     \* index -> class, for the entries written so far
  next_size

sizeMapVars == <<phase, sm_size, sc, class_to_size, class_to_pages, class_array, next_size>>

\* The greatest k with 2^k <= n.
LgFloor(n) == Max({k \in 0 .. 30 : 2 ^ k <= n})

AlignmentForSize(s) ==
  LET wanted == IF s > kMaxSize THEN kPageSize
                ELSE IF s >= 128 THEN 2 ^ LgFloor(s) \div 8
                ELSE IF s >= kMinAlign THEN kMinAlign
                ELSE kAlignment
  IN  IF wanted > kPageSize THEN kPageSize ELSE wanted

NumMoveSize(s) ==
  LET num == 65536 \div s
      least == IF num < 2 THEN 2 ELSE num
  IN  IF least > TransferNumObjects THEN TransferNumObjects ELSE least

ClassIndex(s) ==
  IF s <= kMaxSmallSize THEN (s + 7) \div 8 ELSE (s + 127 + 120 * 128) \div 128

kClassArraySize == (kMaxSize + 127 + 120 * 128) \div 128 + 1

\* The pages of a span for objects of s bytes: the first length that wastes at
\* most an eighth and holds enough objects.
PagesFor(s) ==
  Min({n \in 1 .. SmMaxPages :
         LET psize == n * kPageSize
         IN  psize % s <= psize \div 8 /\ psize \div s >= NumMoveSize(s) \div 4})

\* The size s can share the class before it: as many objects fit.
SameFragmentation(pages, s) ==
  (pages * kPageSize) \div s = (pages * kPageSize) \div class_to_size[sc - 1]

SizeMapInit ==
  /\ phase = "classes"
  /\ sm_size = kAlignment
  /\ sc = 1
  /\ class_to_size = <<>> /\ class_to_pages = <<>>
  /\ class_array = [i \in {} |-> 0]
  /\ next_size = 0

\* Mutant: a size that shares the class before it does not become its size.
AssignClassKeepsSize ==
  LET pages == PagesFor(sm_size)
      merge == sc > 1 /\ pages = class_to_pages[sc - 1] /\ SameFragmentation(pages, sm_size)
  IN  /\ phase = "classes" /\ sm_size <= kMaxSize
      /\ IF merge
         THEN UNCHANGED <<class_to_size, sc, class_to_pages>>
         ELSE /\ class_to_size' = Append(class_to_size, sm_size)
              /\ class_to_pages' = Append(class_to_pages, pages)
              /\ sc' = sc + 1
      /\ sm_size' = sm_size + AlignmentForSize(sm_size)
      /\ UNCHANGED <<phase, class_array, next_size>>

\* One round of the loop that computes the classes.
AssignClass ==
  LET pages == PagesFor(sm_size)
      merge == sc > 1 /\ pages = class_to_pages[sc - 1] /\ SameFragmentation(pages, sm_size)
  IN  /\ phase = "classes" /\ sm_size <= kMaxSize
      /\ IF merge
         THEN /\ class_to_size' = [class_to_size EXCEPT ![sc - 1] = sm_size]
              /\ UNCHANGED <<sc, class_to_pages>>
         ELSE /\ class_to_size' = Append(class_to_size, sm_size)
              /\ class_to_pages' = Append(class_to_pages, pages)
              /\ sc' = sc + 1
      /\ sm_size' = sm_size + AlignmentForSize(sm_size)
      /\ UNCHANGED <<phase, class_array, next_size>>

\* The number of classes is checked, and the mapping starts.
StartArrays ==
  /\ phase = "classes" /\ sm_size > kMaxSize
  /\ phase' = "arrays"
  /\ sc' = 1
  /\ UNCHANGED <<sm_size, class_to_size, class_to_pages, class_array, next_size>>

\* The entries of class_array_ for the sizes of one class, and its pages. The
\* sizes are kAlignment apart, the grain of the finer scale of ClassIndex, so
\* their indices leave no gap.
SpreadClass ==
  LET top == class_to_size[sc]
      hit == ClassIndex(next_size) .. ClassIndex(top)
  IN  /\ phase = "arrays" /\ sc <= Len(class_to_size)
      /\ class_array' = [i \in DOMAIN class_array \cup hit |->
                           IF i \in hit THEN sc ELSE class_array[i]]
      /\ class_to_pages' = [class_to_pages EXCEPT ![sc] =
                              IF @ < kMinPages THEN kMinPages ELSE @]
      /\ next_size' = top + kAlignment
      /\ sc' = sc + 1
      /\ UNCHANGED <<phase, sm_size, class_to_size>>

Finish ==
  /\ phase = "arrays" /\ sc > Len(class_to_size)
  /\ phase' = "done"
  /\ UNCHANGED <<sm_size, sc, class_to_size, class_to_pages, class_array, next_size>>

SizeMapNext == AssignClass \/ StartArrays \/ SpreadClass \/ Finish

SizeMapSpec == SizeMapInit /\ [][SizeMapNext]_sizeMapVars

SizeClass(s) == class_array[ClassIndex(s)]

-----------------------------------------------------------------------------
(* Properties.                                                             *)

\* "wrong number of size classes", and the index of the largest size is inside
\* class_array_, whose elements are bytes.
TablesFit ==
  /\ phase \in {"arrays", "done"} => Len(class_to_size) + 1 = kNumClasses
  /\ kNumClasses <= 256
  /\ DOMAIN class_array \subseteq 0 .. kClassArraySize - 1

\* Not only for the sizes Init double-checks but for every size up to kMaxSize:
\* the class found through the two-scale index holds the size, and no smaller
\* class does.  On the way no size is lost between two classes: the last class
\* so far reaches up to the size under consideration.
EverySizeServed ==
  /\ phase = "classes" /\ sc > 1 =>
       sm_size = class_to_size[sc - 1] + AlignmentForSize(class_to_size[sc - 1])
  /\ phase = "done" =>
    \A s \in 0 .. kMaxSize :
      /\ ClassIndex(s) \in DOMAIN class_array
      /\ s <= class_to_size[SizeClass(s)]
      /\ SizeClass(s) > 1 => s > class_to_size[SizeClass(s) - 1]

\* "This bounds wasted space to at most 12.5%" of a span.
WasteBounded ==
  phase = "done" =>
    \A c \in DOMAIN class_to_size :
      LET bytes == class_to_pages[c] * kPageSize
      IN  bytes % class_to_size[c] <= bytes \div 8

=============================================================================
