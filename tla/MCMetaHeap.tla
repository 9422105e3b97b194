----------------------------- MODULE MCMetaHeap -----------------------------
(***************************************************************************)
(* MetaHeap for TLC.  Pages of 8 bytes with two METALLOC pages each, words *)
(* of one byte: the smallest geometry in which an object straddles METALLOC*)
(* pages and a granule is smaller, or larger, than a METALLOC page.        *)
(***************************************************************************)
EXTENDS MetaHeap, TLC

CONSTANTS t1, t2

MCThreads == {t1, t2}
MCSymmetry == Permutations(MCThreads)

\* Class 1: two objects of 6 bytes (granule 2) in two pages.
MCClassSize == [c \in Classes |-> 6]
MCClassPages == [c \in Classes |-> 2]

=============================================================================
