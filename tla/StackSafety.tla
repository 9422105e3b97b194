----------------------------- MODULE StackSafety -----------------------------
(***************************************************************************)
(* The write-tracking pass (DummyPass) checks the metadata of every store, *)
(* except the stores SafetyManager shows to stay inside their object.       *)
(* ByvalHandler copies a byval argument to a stack object unless the same  *)
(* analysis calls it safe.  A function is a short sequence of instructions *)
(* that use earlier results; a pointer is an object and an offset modulo   *)
(* 2^WIDTH.  PointsTo says where a value may really point, ScevRange what   *)
(* the analysis can know.                                                  *)
(***************************************************************************)
EXTENDS Integers, Sequences, FiniteSets

CONSTANTS
    WIDTH,         \* bits of an offset
    ObjectSize,    \* size of the objects whose size is a constant
    GepRanges,     \* sets of offsets one gep may add
    AccessSizes,   \* sizes of loads and stores
    MaxCode        \* instructions of a function

VARIABLES code, ssPhase, ignoredStores, copied

ssVars == <<code, ssPhase, ignoredStores, copied>>

Offsets == 0 .. (2^WIDTH - 1)

ASSUME StackSafetyAssumption ==
    /\ WIDTH \in Nat \ {0} /\ ObjectSize \in Offsets
    /\ \A R \in GepRanges : R # {} /\ R \subseteq Offsets
    /\ AccessSizes \subseteq Offsets /\ MaxCode \in Nat

-----------------------------------------------------------------------------
(* Instructions: args are earlier instructions.                            *)

Code(op, args, size, range, flag) ==
    [op |-> op, args |-> args, size |-> size, range |-> range, flag |-> flag]

Root(op) == Code(op, <<>>, IF op \in {"alloca", "malloc", "byval"} THEN ObjectSize ELSE 0,
                 {}, FALSE)

Roots == {"alloca", "allocavar", "malloc", "byval", "errno", "pointer"}

(* Instructions the searches follow: the default case of their switches.   *)
Followed == {"gep", "phi", "cast"}

Values(c) == {i \in 1 .. Len(c) : c[i].op \in Roots \cup Followed}

NextCode ==
    LET V == Values(code)
    IN  {Root(op) : op \in Roots}
        \cup {Code("gep", <<v>>, 0, R, FALSE) : v \in V, R \in GepRanges}
        \cup {Code("phi", <<v, w>>, 0, {}, FALSE) : v \in V, w \in V}
        \cup {Code("cast", <<v>>, 0, {}, FALSE) : v \in V}
        \cup {Code("load", <<v>>, n, {}, FALSE) : v \in V, n \in AccessSizes}
        \cup {Code("store", <<0, v>>, n, {}, FALSE) : v \in V, n \in AccessSizes}
        \cup {Code("store", <<v, w>>, 1, {}, FALSE) : v \in V, w \in V}
        \cup {Code("memset", <<v>>, n, {}, constant) :
                  v \in V, n \in AccessSizes, constant \in BOOLEAN}
        \cup {Code("call", <<v>>, 0, {}, harmless) : v \in V, harmless \in BOOLEAN}
        \cup {Code("ret", <<v>>, 0, {}, FALSE) : v \in V}

(* Where the value of i may point: pairs of an object and an offset.       *)
PointsTo ==
    LET pts[i \in 1 .. Len(code)] ==
            LET c == code[i] IN
            CASE c.op \in Roots -> {<<i, 0>>}
              [] c.op = "gep" -> {<<t[1], (t[2] + d) % 2^WIDTH>> :
                                      t \in pts[c.args[1]], d \in c.range}
              [] c.op = "phi" -> pts[c.args[1]] \cup pts[c.args[2]]
              [] c.op = "cast" -> pts[c.args[1]]
              [] OTHER -> {}
    IN  pts

InBounds(t, n) ==
    /\ code[t[1]].size > 0
    /\ \A d \in 0 .. n - 1 : (t[2] + d) % 2^WIDTH < code[t[1]].size

-----------------------------------------------------------------------------
(* SafetyManager                                                           *)

GetStaticAllocaAllocationSize(i) == code[i].size

(* The range of v's address once the object stands for zero: known along   *)
(* geps, every offset once a phi or a cast comes between.                  *)
ScevRange(v, root) ==
    LET range[i \in 1 .. Len(code)] ==
            IF i = root THEN {0}
            ELSE IF code[i].op = "gep"
            THEN LET R == range[code[i].args[1]]
                 IN  {(o + d) % 2^WIDTH : o \in R, d \in code[i].range}
            ELSE Offsets
    IN  range[v]

IsAccessSafe(v, n, root, size) ==
    {(o + d) % 2^WIDTH : o \in ScevRange(v, root), d \in 0 .. n - 1} \subseteq 0 .. size - 1

IsMemIntrinsicSafe(i, v, root, size) ==
    /\ code[i].flag
    /\ IsAccessSafe(v, code[i].size, root, size)

(* The work list: the object and all that is computed from it.             *)
Reached(root) ==
    LET in[i \in 1 .. Len(code)] ==
            \/ i = root
            \/ /\ code[i].op \in Followed
               /\ \E k \in DOMAIN code[i].args : in[code[i].args[k]]
    IN  {i \in 1 .. Len(code) : in[i]}

SideEffectOps == {"load", "store", "ret", "call", "memset"}

AccumulateSideEffects(root) ==
    LET V == Reached(root)
    IN  {i \in 1 .. Len(code) : code[i].op \in SideEffectOps
            /\ \E k \in DOMAIN code[i].args : code[i].args[k] \in V}

(* The use of v by i that the analysis cannot show harmless.               *)
UnsafeUse(i, v, root, size) ==
    LET c == code[i] IN
    CASE c.op = "load" -> ~IsAccessSafe(v, c.size, root, size)
      [] c.op = "store" -> v = c.args[1] \/ ~IsAccessSafe(v, c.size, root, size)
      [] c.op = "ret" -> TRUE
      [] c.op = "memset" -> ~IsMemIntrinsicSafe(i, v, root, size)
      [] c.op = "call" -> ~c.flag

AccumulateUnsafeSideEffects(root, size) ==
    {<<i, v>> \in AccumulateSideEffects(root) \X Reached(root) :
        (\E k \in DOMAIN code[i].args : code[i].args[k] = v) /\ UnsafeUse(i, v, root, size)}

IsSafeStackAlloca(root, size) == AccumulateUnsafeSideEffects(root, size) = {}

(* AccumulateSafeSideEffects: the objects of known size, and errno.        *)
AccumulateSafeSideEffects ==
    LET Sized == {i \in 1 .. Len(code) : code[i].op \in {"alloca", "allocavar", "malloc"}}
        Errno == {i \in 1 .. Len(code) : code[i].op = "errno"}
        All == UNION {AccumulateSideEffects(r) : r \in Sized \cup Errno}
        Unsafe == UNION {AccumulateUnsafeSideEffects(r, GetStaticAllocaAllocationSize(r)) :
                            r \in Sized}
        Relevant == {p[1] : p \in {q \in Unsafe : code[q[1]].op = "store"
                                                  /\ code[q[1]].args[2] = q[2]}}
    IN  All \ Relevant

-----------------------------------------------------------------------------
(* The passes                                                              *)

EmitCode ==
    /\ ssPhase = "build" /\ Len(code) < MaxCode
    /\ \E c \in NextCode : code' = Append(code, c)
    /\ UNCHANGED <<ssPhase, ignoredStores, copied>>

(* ByvalHandler: an argument that is not safe becomes a stack object that  *)
(* the argument is copied to.                                              *)
ByvalHandler ==
    /\ ssPhase = "build" /\ Len(code) > 1
    /\ LET bad == {i \in 1 .. Len(code) : code[i].op = "byval"
                       /\ ~IsSafeStackAlloca(i, code[i].size)}
       IN  /\ code' = [i \in 1 .. Len(code) |->
                          IF i \in bad THEN [code[i] EXCEPT !.op = "alloca"] ELSE code[i]]
           /\ copied' = bad
    /\ ssPhase' = "track"
    /\ UNCHANGED ignoredStores

(* AccumulateErrnoStores stops the compiler on a use it does not expect;   *)
(* the set it is given is a copy, so the stores it adds are lost.          *)
AccumulateErrnoStores ==
    LET cast[i \in 1 .. Len(code)] ==
            \/ code[i].op = "errno"
            \/ /\ code[i].op \in {"phi", "cast"}
               /\ \E k \in DOMAIN code[i].args : cast[code[i].args[k]]
    IN  \A i \in 1 .. Len(code) :
            (\E k \in DOMAIN code[i].args : code[i].args[k] # 0 /\ cast[code[i].args[k]])
                => code[i].op \in {"load", "store", "phi", "cast"}

DummyPass ==
    /\ ssPhase = "track"
    /\ IF AccumulateErrnoStores
       THEN /\ ignoredStores' = {i \in AccumulateSafeSideEffects : code[i].op = "store"}
            /\ ssPhase' = "done"
       ELSE /\ ssPhase' = "error"
            /\ UNCHANGED ignoredStores
    /\ UNCHANGED <<code, copied>>

SafetyInit ==
    /\ code \in {<<Root(op)>> : op \in Roots}
    /\ ssPhase = "build" /\ ignoredStores = {} /\ copied = {}

SafetyNext == EmitCode \/ ByvalHandler \/ DummyPass

SafetySpec == SafetyInit /\ [][SafetyNext]_ssVars

-----------------------------------------------------------------------------
(* The stores left out although nothing is known of their target: a store  *)
(* of an address, which is a side effect of the object stored and not of    *)
(* the one written, and a store through a merge with errno.                *)
LeftUnchecked(i) ==
    \/ \E r \in 1 .. Len(code) :
          /\ code[r].op \in {"alloca", "allocavar", "malloc", "errno"}
          /\ code[i].args[1] \in Reached(r)
    \/ \E t \in PointsTo[code[i].args[2]] : code[t[1]].op = "errno"

(* A store the write tracker leaves unchecked writes inside its object for  *)
(* every offset the address can have, negative and wrapped ones included,  *)
(* unless it stores an address or goes through errno.                      *)
UncheckedStoresInBounds ==
    ssPhase = "done" => \A i \in ignoredStores :
        \/ LeftUnchecked(i)
        \/ \A t \in PointsTo[code[i].args[2]] : InBounds(t, code[i].size)

(* A byval argument left where the caller put it is never written out of    *)
(* bounds, and its address is not stored or returned.                      *)
ByvalKeptOnlyIfSafe ==
    ssPhase = "done" => \A a \in 1 .. Len(code) : code[a].op = "byval" =>
        \A i \in 1 .. Len(code) :
            /\ code[i].op \in {"store", "memset"} =>
                 \A t \in PointsTo[code[i].args[Len(code[i].args)]] :
                    t[1] = a => InBounds(t, code[i].size)
            /\ code[i].op \in {"store", "ret"} /\ code[i].args[1] # 0 =>
                 \A t \in PointsTo[code[i].args[1]] : t[1] # a
=============================================================================
