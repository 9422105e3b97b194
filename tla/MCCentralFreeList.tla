-------------------------- MODULE MCCentralFreeList --------------------------
(***************************************************************************)
(* Model checking of the central free lists: two threads and two classes   *)
(* that compete for transfer cache entries.  Class a starts without an     *)
(* entry and may have one, class b starts with all of its two, so threads  *)
(* that insert into a must shrink b, and can meet each other at the        *)
(* maximum of a.                                                           *)
(*                                                                         *)
(* The same run checks the lists of hooks (MallocHook), the other          *)
(* component with a liveness property: a behaviour runs one of the two,    *)
(* the other stays in its initial state.                                   *)
(***************************************************************************)
EXTENDS CentralFreeList, MallocHook, TLC

CONSTANTS a, b

VARIABLE part   \* the component this behaviour runs

MCCacheSize == (a :> 0) @@ (b :> 2)
MCMaxCacheSize == (a :> 1) @@ (b :> 2)

vars == <<part, centralVars, hookVars>>

Init == part \in {"central", "hooks"} /\ CentralInit /\ HookInit

RunCentral == part = "central" /\ CentralNext /\ UNCHANGED <<part, hookVars>>
RunHooks == part = "hooks" /\ HookNext /\ UNCHANGED <<part, centralVars>>

\* The calls of the hooks are bounded; those of the central lists are not.
Stop == part = "hooks" /\ UNCHANGED vars

Next == RunCentral \/ RunHooks \/ Stop

Spec == Init /\ [][Next]_vars /\ CentralFair /\ HookFair

=============================================================================
