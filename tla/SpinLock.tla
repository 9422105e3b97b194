------------------------------- MODULE SpinLock -------------------------------
(***************************************************************************)
(* SpinLock, the lock of the allocator: a word that is free, held, or held *)
(* with sleepers, and a futex to sleep on.  The waits have a timeout, but  *)
(* a thread that relies on it is late; the properties do without it.       *)
(***************************************************************************)
EXTENDS Integers, FiniteSets, TLAPS

CONSTANTS SpinThreads

VARIABLES
  lockword_,    \* "free", "held", "sleeper"
  spinPc,       \* thread -> where it is; "cs" is the critical section
  lock_value    \* thread -> the value SlowLock saw last

spinVars == <<lockword_, spinPc, lock_value>>

LockWords == {"free", "held", "sleeper"}
SpinPcs == {"idle", "spin", "check", "retry", "delay", "sleep", "cs", "wake"}

SpinInit ==
  /\ lockword_ = "free"
  /\ spinPc = [t \in SpinThreads |-> "idle"]
  /\ lock_value = [t \in SpinThreads |-> "free"]

SpinGoto(t, pc) == spinPc' = [spinPc EXCEPT ![t] = pc]

\* Lock: one compare-and-swap, or the slow path.
Lock(t) ==
  /\ spinPc[t] = "idle"
  /\ IF lockword_ = "free" THEN lockword_' = "held" /\ SpinGoto(t, "cs")
                           ELSE SpinGoto(t, "spin") /\ UNCHANGED lockword_
  /\ UNCHANGED lock_value

TryLock(t) ==
  /\ spinPc[t] = "idle" /\ lockword_ = "free"
  /\ lockword_' = "held"
  /\ SpinGoto(t, "cs")
  /\ UNCHANGED lock_value

AcquireAsHeld(t) ==
  IF lockword_ = "free"
  THEN lockword_' = "held" /\ SpinGoto(t, "cs") /\ UNCHANGED lock_value
  ELSE /\ SpinGoto(t, "check")
       /\ lock_value' = [lock_value EXCEPT ![t] = lockword_]
       /\ UNCHANGED lockword_

\* The compare-and-swap from free to sleeper, of SpinLoop and of the retry;
\* SlowLock goes on with the value that was there.
AcquireAsSleeper(t) ==
  IF lockword_ = "free"
  THEN lockword_' = "sleeper" /\ SpinGoto(t, "cs") /\ UNCHANGED lock_value
  ELSE /\ SpinGoto(t, "check")
       /\ lock_value' = [lock_value EXCEPT ![t] = lockword_]
       /\ UNCHANGED lockword_

SpinLoop(t) == spinPc[t] = "spin" /\ AcquireAsSleeper(t)
Retry(t) == spinPc[t] = "retry" /\ AcquireAsSleeper(t)

CheckStores(t) ==
  /\ spinPc[t] = "check"
  /\ SpinGoto(t, "delay")
  /\ lock_value' = [lock_value EXCEPT ![t] = "sleeper"]
  /\ lockword_' = "sleeper"

\* SlowLock: mark a held lock as having a sleeper before the wait.
Check(t) ==
  /\ spinPc[t] = "check"
  /\ \/ /\ lock_value[t] = "held" /\ lockword_ = "free"
        /\ SpinGoto(t, "retry")
        /\ lock_value' = [lock_value EXCEPT ![t] = "free"]
        /\ UNCHANGED lockword_
     \/ /\ lock_value[t] = "held" /\ lockword_ # "free"
        /\ SpinGoto(t, "delay")
        /\ lock_value' = [lock_value EXCEPT ![t] = "sleeper"]
        /\ lockword_' = "sleeper"
     \/ /\ lock_value[t] # "held"
        /\ SpinGoto(t, "delay")
        /\ UNCHANGED <<lockword_, lock_value>>

\* SpinLockDelay: the kernel lets the thread sleep only while the word still
\* has the value it saw.
SpinLockDelay(t) ==
  /\ spinPc[t] = "delay"
  /\ SpinGoto(t, IF lockword_ = lock_value[t] THEN "sleep" ELSE "spin")
  /\ UNCHANGED <<lockword_, lock_value>>

Timeout(t) ==
  /\ spinPc[t] = "sleep"
  /\ SpinGoto(t, "spin")
  /\ UNCHANGED <<lockword_, lock_value>>

\* Unlock: an exchange; SlowUnlock when the word said more than held.
Unlock(t) ==
  /\ spinPc[t] = "cs"
  /\ lockword_' = "free"
  /\ SpinGoto(t, IF lockword_ = "held" THEN "idle" ELSE "wake")
  /\ UNCHANGED lock_value

\* SpinLockWake wakes one sleeper, if there is one.
SlowUnlock(t) ==
  /\ spinPc[t] = "wake"
  /\ \/ /\ \A u \in SpinThreads : spinPc[u] # "sleep"
        /\ SpinGoto(t, "idle")
     \/ \E u \in SpinThreads :
          /\ spinPc[u] = "sleep"
          /\ spinPc' = [spinPc EXCEPT ![t] = "idle", ![u] = "spin"]
  /\ UNCHANGED <<lockword_, lock_value>>

SpinStep(t) ==
  \/ Lock(t) \/ TryLock(t) \/ SpinLoop(t) \/ Retry(t) \/ Check(t)
  \/ SpinLockDelay(t) \/ Timeout(t) \/ Unlock(t) \/ SlowUnlock(t)

SpinNext == \E t \in SpinThreads : SpinStep(t)

SpinSpec == SpinInit /\ [][SpinNext]_spinVars

-----------------------------------------------------------------------------
\* The state of the lock: its word, a program counter and a last seen value
\* for each thread, and nobody waits for a value other than sleeper.
SpinTypeOK ==
  /\ lockword_ \in LockWords
  /\ spinPc \in [SpinThreads -> SpinPcs]
  /\ lock_value \in [SpinThreads -> LockWords]
  /\ \A t \in SpinThreads :
       /\ spinPc[t] = "check" => lock_value[t] # "free"
       /\ spinPc[t] = "delay" => lock_value[t] = "sleeper"

\* Lock: at most one thread is between Lock and Unlock, and IsHeld says so.
MutualExclusion ==
  /\ \A t, u \in SpinThreads : spinPc[t] = "cs" /\ spinPc[u] = "cs" => t = u
  /\ lockword_ # "free" <=> \E t \in SpinThreads : spinPc[t] = "cs"

Awake == {"spin", "check", "retry", "delay", "wake"}

\* SlowUnlock wakes one thread only and a plain Lock forgets the sleepers, yet
\* no sleeper is forgotten: while one sleeps, the word tells the holder to
\* wake somebody, or some thread is awake that is on its way to the lock or
\* about to wake one.
NoLostWakeup ==
  (\E t \in SpinThreads : spinPc[t] = "sleep") =>
    lockword_ = "sleeper" \/ \E u \in SpinThreads : spinPc[u] \in Awake

-----------------------------------------------------------------------------
(* Mutual exclusion and the absence of lost wakeups, for every set of      *)
(* threads.                                                                *)

\* Initially the lock is free and nobody sleeps.
LEMMA SpinInitTypeOK == SpinInit => SpinTypeOK
BY DEF SpinInit, SpinTypeOK, LockWords, SpinPcs

\* Every step of Lock, SlowLock and Unlock keeps the types.
LEMMA SpinStepTypeOK == SpinTypeOK /\ [SpinNext]_spinVars => SpinTypeOK'
<1> SUFFICES ASSUME SpinTypeOK, [SpinNext]_spinVars PROVE SpinTypeOK'
    OBVIOUS
<1> USE DEF SpinTypeOK, LockWords, SpinPcs, SpinGoto
<1>1. CASE UNCHANGED spinVars
      BY <1>1 DEF spinVars
<1>2. ASSUME NEW t \in SpinThreads, SpinStep(t) PROVE SpinTypeOK'
  <2>1. CASE Lock(t)           BY <2>1 DEF Lock
  <2>2. CASE TryLock(t)        BY <2>2 DEF TryLock
  <2>3. CASE SpinLoop(t)       BY <2>3 DEF SpinLoop, AcquireAsSleeper
  <2>4. CASE Retry(t)          BY <2>4 DEF Retry, AcquireAsSleeper
  <2>5. CASE Check(t)          BY <2>5 DEF Check
  <2>6. CASE SpinLockDelay(t)  BY <2>6 DEF SpinLockDelay
  <2>7. CASE Timeout(t)        BY <2>7 DEF Timeout
  <2>8. CASE Unlock(t)         BY <2>8 DEF Unlock
  <2>9. CASE SlowUnlock(t)     BY <2>9 DEF SlowUnlock
  <2> QED BY <1>2, <2>1, <2>2, <2>3, <2>4, <2>5, <2>6, <2>7, <2>8, <2>9 DEF SpinStep
<1> QED BY <1>1, <1>2 DEF SpinNext

\* Whoever enters found the word free, whoever leaves frees it.
LEMMA SpinStepExclusive ==
  SpinTypeOK /\ MutualExclusion /\ [SpinNext]_spinVars => MutualExclusion'
<1> SUFFICES ASSUME SpinTypeOK, MutualExclusion, [SpinNext]_spinVars
             PROVE  MutualExclusion'
    OBVIOUS
<1> USE DEF SpinTypeOK, MutualExclusion, LockWords, SpinPcs, SpinGoto
<1>1. CASE UNCHANGED spinVars
      BY <1>1 DEF spinVars
<1>2. ASSUME NEW t \in SpinThreads, SpinStep(t) PROVE MutualExclusion'
  <2>1. CASE Lock(t)           BY <2>1 DEF Lock
  <2>2. CASE TryLock(t)        BY <2>2 DEF TryLock
  <2>3. CASE SpinLoop(t)       BY <2>3 DEF SpinLoop, AcquireAsSleeper
  <2>4. CASE Retry(t)          BY <2>4 DEF Retry, AcquireAsSleeper
  <2>5. CASE Check(t)          BY <2>5 DEF Check
  <2>6. CASE SpinLockDelay(t)  BY <2>6 DEF SpinLockDelay
  <2>7. CASE Timeout(t)        BY <2>7 DEF Timeout
  <2>8. CASE Unlock(t)         BY <2>8 DEF Unlock
  <2>9. CASE SlowUnlock(t)     BY <2>9 DEF SlowUnlock
  <2> QED BY <1>2, <2>1, <2>2, <2>3, <2>4, <2>5, <2>6, <2>7, <2>8, <2>9 DEF SpinStep
<1> QED BY <1>1, <1>2 DEF SpinNext

\* A thread goes to sleep on the word sleeper only; the word loses that value
\* in Unlock alone, which leaves a thread about to wake another.
LEMMA SpinStepWakeup ==
  SpinTypeOK /\ MutualExclusion /\ NoLostWakeup /\ [SpinNext]_spinVars => NoLostWakeup'
<1> SUFFICES ASSUME SpinTypeOK, MutualExclusion, NoLostWakeup, [SpinNext]_spinVars
             PROVE  NoLostWakeup'
    OBVIOUS
<1> USE DEF SpinTypeOK, NoLostWakeup, Awake, LockWords, SpinPcs, SpinGoto
<1>1. CASE UNCHANGED spinVars
      BY <1>1 DEF spinVars
<1>2. ASSUME NEW t \in SpinThreads, SpinStep(t) PROVE NoLostWakeup'
  <2>1. CASE Lock(t)           BY <2>1 DEF Lock
  <2>2. CASE TryLock(t)        BY <2>2 DEF TryLock
  <2>3. CASE SpinLoop(t)       BY <2>3 DEF SpinLoop, AcquireAsSleeper
  <2>4. CASE Retry(t)          BY <2>4 DEF Retry, AcquireAsSleeper
  <2>5. CASE Check(t)          BY <2>5 DEF Check
  <2>6. CASE SpinLockDelay(t)  BY <2>6 DEF SpinLockDelay
  <2>7. CASE Timeout(t)        BY <2>7 DEF Timeout
  <2>8. CASE Unlock(t)         BY <2>8 DEF Unlock
  <2>9. CASE SlowUnlock(t)     BY <2>9 DEF SlowUnlock
  <2> QED BY <1>2, <2>1, <2>2, <2>3, <2>4, <2>5, <2>6, <2>7, <2>8, <2>9 DEF SpinStep
<1> QED BY <1>1, <1>2 DEF SpinNext

\* SpinLock is a lock: the critical sections exclude each other.
THEOREM SpinLockExclusive == SpinSpec => []MutualExclusion
<1>1. SpinInit => MutualExclusion
      BY DEF SpinInit, MutualExclusion
<1> QED BY <1>1, SpinInitTypeOK, SpinStepTypeOK, SpinStepExclusive, PTL DEF SpinSpec

\* SpinLock forgets no sleeper, whatever the timeouts do.
THEOREM SpinLockWakes == SpinSpec => []NoLostWakeup
<1>1. SpinInit => MutualExclusion /\ NoLostWakeup
      BY DEF SpinInit, MutualExclusion, NoLostWakeup
<1> QED BY <1>1, SpinInitTypeOK, SpinStepTypeOK, SpinStepExclusive, SpinStepWakeup, PTL
        DEF SpinSpec
=============================================================================
