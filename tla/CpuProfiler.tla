----------------------------- MODULE CpuProfiler -----------------------------
(***************************************************************************)
(* The CPU profiler: the profile handler that owns the timer and its       *)
(* signal (profile-handler.cc), the profiler that starts, flushes and stops *)
(* a profile (profiler.cc) and the sample table it fills (profiledata.cc).  *)
(*                                                                         *)
(* A thread runs a stack of frames; a signal pushes a frame.  A frame is    *)
(* the list of steps still to do, so a call is a list of step names and a   *)
(* step of the model is the head of the list on top.  The steps between     *)
(* two lock operations are single steps, because signals arrive anywhere.   *)
(***************************************************************************)
EXTENDS Integers, Sequences, FiniteSets, SequencesExt

CONSTANTS
    CpThreads, Traces,
    MainThread,         \* registered by the module initializer
    DepthOf,            \* trace -> number of frames in it
    kAssociativity,     \* entries of the one hash bucket
    kBufferLength,      \* slots of the eviction buffer
    MaxCalls, MaxTicks, \* control calls and timer signals in a behaviour,
    MaxEvents           \* and both together

VARIABLES
    frames,            \* thread -> stack of frames, the top one last
    lock_, control_lock_, signal_lock_,   \* holder, or NoThread
    handlerOn,         \* the signal runs SignalHandler (and is not ignored)
    callbacks_, callback_count_, timer_sharing_, allowed_,
    kernelMode,        \* how the system's timers work
    timers,            \* threads whose timer runs; all of them when shared
    prof_handler_token_, nextToken,
    out_, hash_, evict_, count_,
    file,              \* what was written since the last Start
    started,           \* the toggle of CpuProfilerSwitch
    fatal, cpCalls, ticks,
    added              \* history: samples per trace since the last Start

cpVars == <<frames, lock_, control_lock_, signal_lock_, handlerOn, callbacks_,
            callback_count_, timer_sharing_, allowed_, kernelMode, timers,
            prof_handler_token_, nextToken, out_, hash_, evict_, count_, file,
            started, fatal, cpCalls, ticks, added>>

lockVars == <<lock_, control_lock_, signal_lock_>>
handlerVars == <<callbacks_, callback_count_, timer_sharing_, timers>>
dataVars == <<out_, hash_, evict_, count_, file, added>>
tokenVars == <<prof_handler_token_, nextToken>>
boundVars == <<cpCalls, ticks>>
fixedVars == <<allowed_, kernelMode>>

NoThread == "nobody"
None == 0          \* no token: tokens are numbered from 1

ASSUME CpuProfilerAssumption ==
    /\ NoThread \notin CpThreads /\ MainThread \in CpThreads
    /\ DepthOf \in [Traces -> Nat \ {0}]
    /\ \A s \in Traces : DepthOf[s] + 2 <= kBufferLength
    /\ kAssociativity \in Nat \ {0} /\ kBufferLength >= 5

-----------------------------------------------------------------------------
(* The calls, as lists of steps.                                           *)

GetStateSteps == <<"lockC", "disable", "lockS", "unlockS", "reenable", "unlockC">>
\* Mutant: the signal, ignored while the list changes, stays ignored.
RegisterStepsIgnoring == <<"lockC", "disable", "lockS", "push", "first", "unlockC">>
RegisterSteps == <<"lockC", "disable", "lockS", "push", "first", "enable", "unlockC">>
UnregisterSteps == <<"lockC", "find", "lockS", "erase", "last", "unlockC">>
ResetSteps == <<"lockC", "disable", "lockS", "eraseAll", "untouched", "unlockC">>
StartSteps == <<"lockP", "startable">> \o GetStateSteps \o <<"open">>
                \o RegisterSteps \o <<"unlockP">>
StopSteps == <<"lockP", "enabled">> \o UnregisterSteps \o <<"collectorStop", "unlockP">>
FlushSteps == <<"lockP", "enabled">> \o UnregisterSteps \o <<"flushTable">>
                \o RegisterSteps \o <<"unlockP">>
RegisterThreadSteps == <<"lockC", "registerThread", "unlockC">>
HandlerSteps == <<"lockS", "begin", "call">>

Calls == {StartSteps, StopSteps, FlushSteps, RegisterThreadSteps, ResetSteps}

Frame(kind, todo) == [kind |-> kind, todo |-> todo, it |-> None, half |-> FALSE,
                      trace |-> CHOOSE s \in Traces : TRUE]

Top(t) == frames[t][Len(frames[t])]

Runs(t, step) == ~fatal /\ frames[t] # <<>> /\ Top(t).todo # <<>> /\ Head(Top(t).todo) = step

(* The top frame goes on with todo; it returns when nothing is left.       *)
GoOn(t, todo) ==
    frames' = [frames EXCEPT ![t] =
        IF todo = <<>> THEN Front(@) ELSE [@ EXCEPT ![Len(@)].todo = todo]]

Advance(t) == GoOn(t, Tail(Top(t).todo))

-----------------------------------------------------------------------------
(* Locks                                                                   *)

AcquireP(t) ==
    /\ Runs(t, "lockP") /\ lock_ = NoThread /\ lock_' = t /\ Advance(t)
    /\ UNCHANGED <<control_lock_, signal_lock_, handlerOn, handlerVars, tokenVars, dataVars,
                   started, fatal, boundVars, fixedVars>>

AcquireC(t) ==
    /\ Runs(t, "lockC") /\ control_lock_ = NoThread /\ control_lock_' = t /\ Advance(t)
    /\ UNCHANGED <<lock_, signal_lock_, handlerOn, handlerVars, tokenVars, dataVars,
                   started, fatal, boundVars, fixedVars>>

AcquireS(t) ==
    /\ Runs(t, "lockS") /\ signal_lock_ = NoThread /\ signal_lock_' = t /\ Advance(t)
    /\ UNCHANGED <<lock_, control_lock_, handlerOn, handlerVars, tokenVars, dataVars,
                   started, fatal, boundVars, fixedVars>>

Release(t) ==
    /\ \/ Runs(t, "unlockP") /\ lock_' = NoThread /\ UNCHANGED <<control_lock_, signal_lock_>>
       \/ Runs(t, "unlockC") /\ control_lock_' = NoThread /\ UNCHANGED <<lock_, signal_lock_>>
       \/ Runs(t, "unlockS") /\ signal_lock_' = NoThread /\ UNCHANGED <<lock_, control_lock_>>
    /\ Advance(t)
    /\ UNCHANGED <<handlerOn, handlerVars, tokenVars, dataVars, started, fatal,
                   boundVars, fixedVars>>

-----------------------------------------------------------------------------
(* profile-handler.cc                                                      *)

TimerSees(t) == IF kernelMode = "shared" THEN timers # {} ELSE t \in timers

StartTimer(t) ==
    timers' = IF ~allowed_ THEN timers
              ELSE IF kernelMode = "shared" THEN CpThreads ELSE timers \cup {t}

StopTimer(t) ==
    timers' = IF ~allowed_ THEN timers
              ELSE IF kernelMode = "shared" THEN {} ELSE timers \ {t}

(* getitimer; a timer made by timer_create is never seen running.          *)
IsTimerRunning(t) == allowed_ /\ kernelMode # "sigev" /\ TimerSees(t)

EnableHandler == handlerOn' = (handlerOn \/ allowed_)
DisableHandler == handlerOn' = (handlerOn /\ ~allowed_)

RegisterThread(t) ==
    /\ Runs(t, "registerThread")
    /\ CASE ~allowed_ \/ timer_sharing_ = "shared" -> UNCHANGED <<timer_sharing_, timers>>
         [] allowed_ /\ timer_sharing_ = "untouched" ->
               StartTimer(t) /\ timer_sharing_' = "one set"
         [] allowed_ /\ timer_sharing_ = "one set" /\ IsTimerRunning(t) ->
               /\ timer_sharing_' = "shared"
               /\ IF callback_count_ = 0 THEN StopTimer(t) ELSE UNCHANGED timers
         [] allowed_ /\ timer_sharing_ = "one set" /\ ~IsTimerRunning(t) ->
               StartTimer(t) /\ timer_sharing_' = "separate"
         [] allowed_ /\ timer_sharing_ = "separate" ->
               StartTimer(t) /\ UNCHANGED timer_sharing_
    /\ Advance(t)
    /\ UNCHANGED <<lockVars, handlerOn, callbacks_, callback_count_, tokenVars, dataVars,
                   started, fatal, boundVars, fixedVars>>

Disable(t) ==
    /\ Runs(t, "disable") /\ DisableHandler /\ Advance(t)
    /\ UNCHANGED <<lockVars, handlerVars, tokenVars, dataVars, started, fatal,
                   boundVars, fixedVars>>

(* GetState enables the handler again only when somebody is registered.    *)
Reenable(t) ==
    /\ Runs(t, "reenable")
    /\ IF callback_count_ > 0 THEN EnableHandler ELSE UNCHANGED handlerOn
    /\ Advance(t)
    /\ UNCHANGED <<lockVars, handlerVars, tokenVars, dataVars, started, fatal,
                   boundVars, fixedVars>>

RegisterCallback(t) ==
    /\ \/ /\ Runs(t, "push")
          /\ callbacks_' = Append(callbacks_, nextToken)
          /\ prof_handler_token_' = nextToken /\ nextToken' = nextToken + 1
          /\ signal_lock_' = NoThread
          /\ UNCHANGED <<callback_count_, timers, handlerOn>>
       \/ /\ Runs(t, "first")
          /\ IF callback_count_ = 0 /\ timer_sharing_ = "shared" THEN StartTimer(t)
             ELSE UNCHANGED timers
          /\ callback_count_' = callback_count_ + 1
          /\ UNCHANGED <<callbacks_, tokenVars, signal_lock_, handlerOn>>
       \/ /\ Runs(t, "enable") /\ EnableHandler
          /\ UNCHANGED <<callbacks_, callback_count_, timers, tokenVars, signal_lock_>>
    /\ Advance(t)
    /\ UNCHANGED <<lock_, control_lock_, timer_sharing_, dataVars, started, fatal,
                   boundVars, fixedVars>>

UnregisterCallback(t) ==
    /\ \/ /\ Runs(t, "find")
          /\ fatal' = (\A i \in DOMAIN callbacks_ : callbacks_[i] # prof_handler_token_)
          /\ IF fatal' THEN UNCHANGED handlerOn ELSE DisableHandler
          /\ UNCHANGED <<callbacks_, callback_count_, timers, tokenVars, signal_lock_>>
       \/ /\ Runs(t, "erase")
          /\ callbacks_' = SelectSeq(callbacks_, LAMBDA c : c # prof_handler_token_)
          /\ signal_lock_' = NoThread
          /\ UNCHANGED <<callback_count_, timers, tokenVars, handlerOn, fatal>>
       \/ /\ Runs(t, "last")
          /\ callback_count_' = callback_count_ - 1
          /\ IF callback_count_' > 0 THEN EnableHandler /\ UNCHANGED timers
             ELSE /\ UNCHANGED handlerOn
                  /\ IF timer_sharing_ = "shared" THEN StopTimer(t) ELSE UNCHANGED timers
          /\ prof_handler_token_' = None
          /\ UNCHANGED <<callbacks_, nextToken, signal_lock_, fatal>>
    /\ Advance(t)
    /\ UNCHANGED <<lock_, control_lock_, timer_sharing_, dataVars, started, boundVars, fixedVars>>

Reset(t) ==
    /\ \/ /\ Runs(t, "eraseAll")
          /\ callbacks_' = <<>> /\ signal_lock_' = NoThread
          /\ UNCHANGED <<callback_count_, timer_sharing_, timers>>
       \/ /\ Runs(t, "untouched")
          /\ callback_count_' = 0
          /\ IF timer_sharing_ = "shared" THEN StopTimer(t) ELSE UNCHANGED timers
          /\ timer_sharing_' = "untouched"
          /\ UNCHANGED <<callbacks_, signal_lock_>>
    /\ Advance(t)
    /\ UNCHANGED <<lock_, control_lock_, handlerOn, tokenVars, dataVars, started, fatal,
                   boundVars, fixedVars>>

(* The timer fires in t.  The handler's own signal is blocked while it runs. *)
Tick(t) ==
    /\ ~fatal /\ ticks < MaxTicks /\ cpCalls + ticks < MaxEvents /\ ticks' = ticks + 1
    /\ TimerSees(t) /\ handlerOn
    /\ \A i \in DOMAIN frames[t] : frames[t][i].kind # "handler"
    /\ \E s \in Traces :
          frames' = [frames EXCEPT ![t] =
              Append(@, [Frame("handler", HandlerSteps) EXCEPT !.trace = s])]
    /\ UNCHANGED <<lockVars, handlerOn, handlerVars, tokenVars, dataVars, started, fatal,
                   cpCalls, fixedVars>>

(* The token that follows c in the list, or the end of it.                 *)
After(c) ==
    LET later == {i \in DOMAIN callbacks_ : i > 1 /\ callbacks_[i - 1] = c}
    IN  IF later = {} THEN None ELSE callbacks_[CHOOSE i \in later : TRUE]

SetTop(t, f) == frames' = [frames EXCEPT ![t][Len(frames[t])] = f]

SignalHandler(t) ==
    /\ Runs(t, "begin")
    /\ SetTop(t, [Top(t) EXCEPT !.todo = Tail(@),
                     !.it = IF callbacks_ = <<>> THEN None ELSE callbacks_[1]])
    /\ UNCHANGED <<lockVars, handlerOn, handlerVars, tokenVars, dataVars, started, fatal,
                   boundVars, fixedVars>>

HandlerReturns(t) ==
    /\ Runs(t, "call") /\ Top(t).it = None
    /\ signal_lock_' = NoThread /\ GoOn(t, <<>>)
    /\ UNCHANGED <<lock_, control_lock_, handlerOn, handlerVars, tokenVars, dataVars,
                   started, fatal, boundVars, fixedVars>>

-----------------------------------------------------------------------------
(* profiledata.cc.  An entry of the eviction buffer is a record; a sample  *)
(* takes its depth and two more slots.                                     *)

Header == [kind |-> "header", trace |-> CHOOSE s \in Traces : TRUE, count |-> 0]
Trailer == [Header EXCEPT !.kind = "trailer"]
Sample(e) == [kind |-> "sample", trace |-> e.trace, count |-> e.count]

SlotsOf(e) == CASE e.kind = "header" -> 5
              [] e.kind = "trailer" -> 3
              [] e.kind = "sample" -> DepthOf[e.trace] + 2

num_evicted_(buf) == FoldLeft(LAMBDA n, e : n + SlotsOf(e), 0, buf)

NoEntry == [trace |-> CHOOSE s \in Traces : TRUE, count |-> 0]

(* A pair of the buffer and the file: Evict flushes when the entry does not fit. *)
Put(bf, e) ==
    IF num_evicted_(bf.buf) + SlotsOf(e) > kBufferLength
    THEN [buf |-> <<e>>, file |-> bf.file \o bf.buf]
    ELSE [bf EXCEPT !.buf = Append(@, e)]

Evict(bf, e) == Put(bf, Sample(e))

FlushEvicted(bf) == [buf |-> <<>>, file |-> bf.file \o bf.buf]

EvictAll(bf) ==
    FoldLeft(LAMBDA b, e : IF e.count > 0 THEN Evict(b, e) ELSE b, bf, hash_)

Buffers == [buf |-> evict_, file |-> file]

CollectorStart ==
    /\ out_' = TRUE
    /\ count_' = 0
    /\ hash_' = [a \in 1 .. kAssociativity |-> NoEntry]
    /\ evict_' = <<Header>>
    /\ file' = <<>> /\ added' = [s \in Traces |-> 0]

CollectorStop(t) ==
    /\ Runs(t, "collectorStop")
    /\ LET bf == FlushEvicted(Put(EvictAll(Buffers), Trailer)) IN file' = bf.file
    /\ out_' = FALSE /\ evict_' = <<>>
    /\ hash_' = [a \in 1 .. kAssociativity |-> NoEntry]
    /\ UNCHANGED <<count_, added>>
    /\ Advance(t)
    /\ UNCHANGED <<lockVars, handlerOn, handlerVars, tokenVars, started, fatal,
                   boundVars, fixedVars>>

FlushTable(t) ==
    /\ Runs(t, "flushTable")
    /\ LET bf == FlushEvicted(EvictAll(Buffers)) IN file' = bf.file /\ evict_' = bf.buf
    /\ hash_' = [a \in 1 .. kAssociativity |-> NoEntry]
    /\ UNCHANGED <<out_, count_, added>>
    /\ Advance(t)
    /\ UNCHANGED <<lockVars, handlerOn, handlerVars, tokenVars, started, fatal,
                   boundVars, fixedVars>>

Matching(s) == {a \in 1 .. kAssociativity : hash_[a].count > 0 /\ hash_[a].trace = s}

Smallest ==
    CHOOSE a \in 1 .. kAssociativity :
        \A b \in 1 .. kAssociativity :
            hash_[a].count < hash_[b].count \/ (hash_[a].count = hash_[b].count /\ a <= b)

(* prof_handler: Add counts the sample, then puts it into its bucket.      *)
Add(t) ==
    /\ Runs(t, "call") /\ Top(t).it # None
    /\ IF ~out_
       THEN /\ SetTop(t, [Top(t) EXCEPT !.it = After(@)]) /\ UNCHANGED dataVars
       ELSE IF ~Top(t).half
       THEN /\ count_' = count_ + 1
            /\ SetTop(t, [Top(t) EXCEPT !.half = TRUE])
            /\ UNCHANGED <<out_, hash_, evict_, file, added>>
       ELSE LET s == Top(t).trace
                a == IF Matching(s) # {} THEN CHOOSE m \in Matching(s) : TRUE ELSE Smallest
                bf == IF Matching(s) = {} /\ hash_[a].count > 0
                      THEN Evict(Buffers, hash_[a]) ELSE Buffers
            IN  /\ hash_' = [hash_ EXCEPT ![a] =
                      IF Matching(s) # {} THEN [@ EXCEPT !.count = @ + 1]
                      ELSE [trace |-> s, count |-> 1]]
                /\ evict_' = bf.buf /\ file' = bf.file
                /\ added' = [added EXCEPT ![s] = @ + 1]
                /\ SetTop(t, [Top(t) EXCEPT !.half = FALSE, !.it = After(@)])
                /\ UNCHANGED <<out_, count_>>
    /\ UNCHANGED <<lockVars, handlerOn, handlerVars, tokenVars, started, fatal,
                   boundVars, fixedVars>>

-----------------------------------------------------------------------------
(* profiler.cc                                                             *)

(* A call that returns early only has its lock to release; a failed start   *)
(* ends the program when the switch asked for it.                          *)
GiveUp(t) == GoOn(t, <<"unlockP">>)

ProfilerStart(t) ==
    /\ \/ /\ Runs(t, "startable")
          /\ IF out_ THEN GiveUp(t) /\ fatal' = (Top(t).kind = "switch")
             ELSE Advance(t) /\ UNCHANGED fatal
          /\ UNCHANGED dataVars
       \/ /\ Runs(t, "open")
          /\ \/ CollectorStart /\ Advance(t) /\ UNCHANGED fatal
             \/ UNCHANGED dataVars /\ GiveUp(t) /\ fatal' = (Top(t).kind = "switch")
    /\ UNCHANGED <<lockVars, handlerOn, handlerVars, tokenVars, started, boundVars, fixedVars>>

(* Stop and FlushTable do nothing unless a profile is being collected.     *)
CheckEnabled(t) ==
    /\ Runs(t, "enabled")
    /\ IF out_ THEN Advance(t) ELSE GiveUp(t)
    /\ UNCHANGED <<lockVars, handlerOn, handlerVars, tokenVars, dataVars, started, fatal,
                   boundVars, fixedVars>>

Call(t) ==
    /\ ~fatal /\ frames[t] = <<>> /\ cpCalls < MaxCalls /\ cpCalls + ticks < MaxEvents /\ cpCalls' = cpCalls + 1
    /\ \E steps \in Calls : frames' = [frames EXCEPT ![t] = <<Frame("call", steps)>>]
    /\ UNCHANGED <<lockVars, handlerOn, handlerVars, tokenVars, dataVars, started, fatal,
                   ticks, fixedVars>>

(* CpuProfilerSwitch: another signal, which starts and stops in turn.      *)
CpuProfilerSwitch(t) ==
    /\ ~fatal /\ cpCalls < MaxCalls /\ cpCalls + ticks < MaxEvents /\ cpCalls' = cpCalls + 1
    /\ \A i \in DOMAIN frames[t] : frames[t][i].kind # "switch"
    /\ frames' = [frames EXCEPT ![t] =
          Append(@, Frame("switch", IF started THEN StopSteps ELSE StartSteps))]
    /\ started' = ~started
    /\ UNCHANGED <<lockVars, handlerOn, handlerVars, tokenVars, dataVars, fatal,
                   ticks, fixedVars>>

CpStep(t) ==
    \/ AcquireP(t) \/ AcquireC(t) \/ AcquireS(t) \/ Release(t)
    \/ RegisterThread(t) \/ Disable(t) \/ Reenable(t)
    \/ RegisterCallback(t) \/ UnregisterCallback(t) \/ Reset(t)
    \/ SignalHandler(t) \/ HandlerReturns(t)
    \/ CollectorStop(t) \/ FlushTable(t) \/ Add(t)
    \/ ProfilerStart(t) \/ CheckEnabled(t)

(* The constructor has run, and the main thread has registered itself.     *)
CpInit ==
    /\ frames = [t \in CpThreads |-> <<>>]
    /\ lock_ = NoThread /\ control_lock_ = NoThread /\ signal_lock_ = NoThread
    /\ allowed_ \in BOOLEAN /\ kernelMode \in {"shared", "separate", "sigev"}
    /\ handlerOn = ~allowed_       \* somebody else's handler
    /\ callbacks_ = <<>> /\ callback_count_ = 0
    /\ timer_sharing_ = CASE kernelMode = "sigev" -> "separate"
                          [] kernelMode # "sigev" /\ ~allowed_ -> "untouched"
                          [] kernelMode # "sigev" /\ allowed_ -> "one set"
    /\ timers = (IF ~allowed_ THEN {} ELSE IF kernelMode = "shared" THEN CpThreads
                 ELSE {MainThread})
    /\ prof_handler_token_ = None /\ nextToken = 1
    /\ out_ = FALSE /\ hash_ = [a \in 1 .. kAssociativity |-> NoEntry]
    /\ evict_ = <<>> /\ count_ = 0 /\ file = <<>> /\ started = FALSE /\ fatal = FALSE
    /\ cpCalls = 0 /\ ticks = 0 /\ added = [s \in Traces |-> 0]

CpNext == \E t \in CpThreads : CpStep(t) \/ Tick(t) \/ Call(t) \/ CpuProfilerSwitch(t)

CpSpec == CpInit /\ [][CpNext]_cpVars

-----------------------------------------------------------------------------
Total(s, seq) == FoldLeft(LAMBDA n, e : IF e.trace = s THEN n + e.count ELSE n, 0, seq)

(* Every sample added since Start is exactly once in the table, the         *)
(* eviction buffer or the file, whatever was evicted, flushed or collided, *)
(* and a stopped profile is one header, the samples and one end marker.    *)
ProfileExact ==
    /\ \A s \in Traces : Total(s, hash_) + Total(s, evict_) + Total(s, file) = added[s]
    /\ out_ => num_evicted_(evict_) <= kBufferLength
    /\ ~out_ /\ file # <<>> =>
         \A i \in DOMAIN file : /\ (file[i].kind = "header" <=> i = 1)
                                /\ (file[i].kind = "trailer" <=> i = Len(file))

(* While the handler calls a callback its token is registered, so           *)
(* UnregisterCallback waits for the running callback and no later one is   *)
(* made; and no control routine touches the table while a sample is half   *)
(* added.                                                                  *)
CallbackAlive ==
    \A t \in CpThreads : frames[t] # <<>> /\ Top(t).kind = "handler" /\ ~fatal =>
        /\ Top(t).it # None => \E i \in DOMAIN callbacks_ : callbacks_[i] = Top(t).it
        /\ Top(t).half => out_ /\ signal_lock_ = t

(* With nobody in control, the signal runs the handler exactly when there  *)
(* are callbacks, their number is right, and a timer known to be shared    *)
(* runs exactly when there are callbacks.                                  *)
HandlerMatchesCallbacks ==
    control_lock_ = NoThread /\ allowed_ =>
        /\ callback_count_ = Len(callbacks_)
        /\ handlerOn <=> callbacks_ # <<>>
        /\ timer_sharing_ = "shared" /\ kernelMode = "shared" =>
             (timers # {} <=> callbacks_ # <<>>)

LockNeeded(t) ==
    CASE Head(Top(t).todo) = "lockP" -> lock_
      [] Head(Top(t).todo) = "lockC" -> control_lock_
      [] Head(Top(t).todo) = "lockS" -> signal_lock_
      [] OTHER -> NoThread

(* A thread waits for a lock it holds itself only inside CpuProfilerSwitch, *)
(* which calls the profiler from a signal: the handler never interrupts    *)
(* its own thread in the middle of a list operation, because the signal is *)
(* ignored before signal_lock_ is taken.                                   *)
SelfDeadlockOnlyInSwitch ==
    \A t \in CpThreads : frames[t] # <<>> /\ LockNeeded(t) = t =>
        \E i \in DOMAIN frames[t] : frames[t][i].kind = "switch"
=============================================================================
