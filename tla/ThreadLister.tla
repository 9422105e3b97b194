---------------------------- MODULE ThreadLister ----------------------------
(***************************************************************************)
(* base/linuxthreads.cc: TCMalloc_ListAllProcessThreads clones a lister      *)
(* that shares the address space, finds every thread of the process in      *)
(* /proc, stops each one with PTRACE_ATTACH, calls the callback while all    *)
(* are stopped, and resumes them.  Threads go on starting and exiting until *)
(* they are stopped.  The kernel is modelled from how the code uses it: a   *)
(* directory lists its entries by id, a new id may be below the ones already *)
(* read, and a tracer that exits leaves its tracees stopped.                *)
(***************************************************************************)
EXTENDS Integers, Sequences, SequencesExt, FiniteSets, FiniteSetsExt

CONSTANTS
    MaxTid,          \* thread and process ids are 1 .. MaxTid
    MaxStarts,       \* bound on the threads and processes started
    TlThreads,       \* the threads at the start; the smallest is the main thread
    Caller,          \* the thread that lists
    BatchSize,       \* entries that one GETDENTS returns
    DirLinks, Slack, \* st_nlink beyond the entries; the 100 added to it
    Unattachable     \* threads that a debugger holds

VARIABLES
    hasTaskDir,      \* the kernel has /proc/$$/task
    alive, forks,    \* live threads; live forked children of the process
    stopped,         \* attached and stopped
    tlStarted, starter,  \* threads and forks started so far; who started a thread
    ls,              \* the lister
    sig_pids, sig_num_threads,   \* for the signal handler: set, and how many
    caller,          \* the caller's call
    loose            \* history: see AllStoppedInCallback

tlVars == <<hasTaskDir, alive, forks, stopped, tlStarted, starter, ls, sig_pids, sig_num_threads, caller, loose>>
procVars == <<hasTaskDir, alive, forks, tlStarted, starter>>

ASSUME ThreadListerAssumption ==
    /\ MaxTid \in Nat /\ TlThreads \subseteq 1 .. MaxTid /\ Caller \in TlThreads
    /\ BatchSize \in Nat \ {0} /\ DirLinks \in Nat /\ Slack \in Nat

ppid == Min(TlThreads)      \* the process id: its main thread

IdleLister == [pc |-> "off", path |-> "task", pos |-> 0, batch |-> << >>, pids |-> << >>,
               max_threads |-> 0, added |-> FALSE, found_parent |-> FALSE, exit |-> 0,
               result |-> -1, err |-> "ok"]

TlInit ==
    /\ hasTaskDir \in BOOLEAN
    /\ alive = TlThreads /\ forks = {} /\ stopped = {} /\ tlStarted = 0
    /\ starter = [n \in 1 .. MaxTid |-> n]
    /\ ls = IdleLister /\ sig_pids = FALSE /\ sig_num_threads = 0
    /\ caller = [pc |-> "idle", result |-> -1, err |-> "ok"]
    /\ loose = {}

-----------------------------------------------------------------------------
(* The process                                                             *)

TlRuns(t) == t \in alive \ stopped /\ (t = Caller => caller.pc = "idle")

FreeTids == (1 .. MaxTid) \ (alive \cup forks)

Spawn(t) ==
    /\ TlRuns(t) /\ tlStarted < MaxStarts /\ tlStarted' = tlStarted + 1
    /\ \E n \in FreeTids :
         /\ alive' = alive \cup {n} /\ starter' = [starter EXCEPT ![n] = t]
         /\ loose' = IF t \in loose \cup Unattachable THEN loose \cup {n} ELSE loose \ {n}
    /\ UNCHANGED <<hasTaskDir, forks, stopped, ls, sig_pids, sig_num_threads, caller>>

Fork(t) ==
    /\ TlRuns(t) /\ tlStarted < MaxStarts /\ tlStarted' = tlStarted + 1
    /\ \E n \in FreeTids : forks' = forks \cup {n}
    /\ UNCHANGED <<hasTaskDir, alive, stopped, starter, ls, sig_pids, sig_num_threads, caller,
                   loose>>

(* The main thread stays: the process ends with it, or it is a zombie that *)
(* the directory still lists.                                              *)
Exit(t) ==
    /\ TlRuns(t) /\ t \notin {Caller, ppid}
    /\ alive' = alive \ {t}
    /\ loose' = IF caller.pc = "idle" THEN loose
                ELSE loose \cup {n \in alive : starter[n] = t}
    /\ UNCHANGED <<hasTaskDir, forks, stopped, tlStarted, starter, ls, sig_pids, sig_num_threads,
                   caller>>

ExitFork(t) ==
    /\ t \in forks \ stopped /\ forks' = forks \ {t}
    /\ UNCHANGED <<hasTaskDir, alive, stopped, tlStarted, starter, ls, sig_pids, sig_num_threads, caller, loose>>

-----------------------------------------------------------------------------
(* The caller                                                              *)

CallLister ==
    /\ caller.pc = "idle" /\ ls.pc = "off"
    /\ \/ /\ caller' = [caller EXCEPT !.pc = "waitpid"]
          /\ ls' = [IdleLister EXCEPT !.pc = "open"]
       \/ /\ caller' = [pc |-> "returned", result |-> -1, err |-> "clone"]
          /\ UNCHANGED ls
    /\ UNCHANGED <<procVars, stopped, sig_pids, sig_num_threads, loose>>

(* The exit code of the lister decides what is returned.                   *)
CallerReturns ==
    /\ caller.pc = "waitpid" /\ ls.pc = "exited" /\ Caller \notin stopped
    /\ caller' = [pc |-> "returned",
                  result |-> IF ls.exit = 0 THEN ls.result ELSE -1,
                  err |-> CASE ls.exit = 0 -> ls.err [] ls.exit = 2 -> "EFAULT"
                            [] ls.exit = 3 -> "EPERM" [] OTHER -> "ECHILD"]
    /\ UNCHANGED <<procVars, stopped, ls, sig_pids, sig_num_threads, loose>>

-----------------------------------------------------------------------------
(* The lister                                                              *)

Step(r) == ls' = r
Same == UNCHANGED <<procVars, caller, loose>>

(* What a directory lists: /proc/$$/task has the threads, /proc the         *)
(* processes, and the threads too on kernels without task directories.     *)
Listed(path) ==
    IF path = "task" THEN alive
    ELSE forks \cup (IF hasTaskDir THEN alive \cap {ppid} ELSE alive)

NumThreads == Len(ls.pids)

(* The failure label; threads that are attached stay so.                   *)
Failure(r) == Step([r EXCEPT !.pc = "exited", !.exit = 1])

OpenDir ==
    /\ ls.pc = "open"
    /\ \/ /\ ls.path = "task" => hasTaskDir
          /\ Step([ls EXCEPT !.pc = "read", !.pos = 0, !.added = FALSE,
                     !.max_threads = Max({@, Cardinality(Listed(ls.path)) + DirLinks + Slack})])
          /\ sig_pids' = TRUE /\ sig_num_threads' = NumThreads
       \/ /\ ls.path = "task" /\ ~hasTaskDir /\ Step([ls EXCEPT !.path = "proc"])
          /\ UNCHANGED <<sig_pids, sig_num_threads>>
       \/ Failure(ls) /\ UNCHANGED <<sig_pids, sig_num_threads>>
    /\ UNCHANGED stopped /\ Same

(* GETDENTS; at the end another pass if this one found a thread.           *)
Rescans == ls.added

ReadDir ==
    LET rest == {e \in Listed(ls.path) : e > ls.pos}
        batch == SubSeq(SetToSortSeq(rest, <), 1, Min({BatchSize, Cardinality(rest)}))
    IN  /\ ls.pc = "read"
        /\ \/ Failure(ls)
           \/ rest # {} /\ Step([ls EXCEPT !.pc = "entry", !.batch = batch, !.pos = Last(batch)])
           \/ /\ rest = {}
              /\ Step(IF Rescans THEN [ls EXCEPT !.pos = 0, !.added = FALSE]
                      ELSE [ls EXCEPT !.pc = "closed"])
        /\ UNCHANGED <<stopped, sig_pids, sig_num_threads>> /\ Same

NextEntry(r) ==
    [r EXCEPT !.batch = Tail(@), !.pc = IF Len(r.batch) = 1 THEN "read" ELSE "entry"]

(* A directory entry: the marker, duplicates, the size of pids, and the    *)
(* attach, which fails for a thread that just died or that is traced.      *)
CheckEntry ==
    LET pid == Head(ls.batch)
    IN  /\ ls.pc = "entry"
        /\ IF pid \notin alive \cup forks \/ \E i \in DOMAIN ls.pids : ls.pids[i] = pid
           THEN Step(NextEntry(ls)) /\ UNCHANGED sig_num_threads
           ELSE IF NumThreads >= ls.max_threads
           THEN Step([ls EXCEPT !.pc = "detach"]) /\ UNCHANGED sig_num_threads
           ELSE /\ Step([ls EXCEPT !.pc = "attach", !.pids = Append(@, pid)])
                /\ sig_num_threads' = NumThreads + 1
        /\ UNCHANGED <<stopped, sig_pids>> /\ Same

Drop(r) == NextEntry([r EXCEPT !.pids = Front(@)])

Attach ==
    LET pid == Head(ls.batch)
        ok == pid \in (alive \cup forks) \ Unattachable
    IN  /\ ls.pc = "attach"
        /\ IF ok
           THEN /\ stopped' = stopped \cup {pid} /\ Step([ls EXCEPT !.pc = "peek"])
                /\ UNCHANGED <<sig_num_threads, loose>>
           ELSE /\ Step(Drop(ls)) /\ sig_num_threads' = NumThreads - 1 /\ UNCHANGED stopped
                /\ loose' = loose \cup {pid}
        /\ UNCHANGED <<procVars, sig_pids, caller>>

(* waitpid, then the comparison of address spaces.                         *)
Peek ==
    LET pid == Head(ls.batch)
    IN  /\ ls.pc = "peek"
        /\ IF pid \in forks
           THEN /\ stopped' = stopped \ {pid} /\ Step(Drop(ls))
                /\ sig_num_threads' = NumThreads - 1
           ELSE /\ Step(NextEntry([ls EXCEPT !.added = TRUE,
                                     !.found_parent = @ \/ pid = ppid]))
                /\ UNCHANGED <<stopped, sig_num_threads>>
        /\ UNCHANGED sig_pids /\ Same

TlPids(r) == ToSet(r.pids)

(* TCMalloc_ResumeAllProcessThreads.                                       *)
Resume(set) == stopped' = stopped \ set

(* detach_threads: all are resumed before the next attempt.                *)
DetachThreadsForgetful ==
    /\ ls.pc = "detach"
    /\ UNCHANGED stopped /\ sig_pids' = FALSE /\ sig_num_threads' = 0
    /\ Step([ls EXCEPT !.pc = "open", !.pids = << >>, !.batch = << >>,
                       !.max_threads = @ + Slack])
    /\ Same

DetachThreads ==
    /\ ls.pc = "detach"
    /\ Resume(TlPids(ls)) /\ sig_pids' = FALSE /\ sig_num_threads' = 0
    /\ Step([ls EXCEPT !.pc = "open", !.pids = << >>, !.batch = << >>,
                       !.max_threads = @ + Slack])
    /\ Same

CloseDir ==
    /\ ls.pc = "closed"
    /\ IF NumThreads > 1 \/ ls.path = "proc"
       THEN IF ls.found_parent
            THEN Step([ls EXCEPT !.pc = "callback"]) /\ UNCHANGED stopped
            ELSE Resume(TlPids(ls)) /\ Step([ls EXCEPT !.pc = "exited", !.exit = 3])
       ELSE Step([ls EXCEPT !.pc = "detach", !.path = "proc"]) /\ UNCHANGED stopped
    /\ UNCHANGED <<sig_pids, sig_num_threads>> /\ Same

(* The callback returns, having resumed the threads or not.                *)
Callback ==
    /\ ls.pc = "callback"
    /\ \/ Resume(TlPids(ls)) \/ UNCHANGED stopped
    /\ Step([ls EXCEPT !.pc = "after", !.result = 1])
    /\ UNCHANGED <<sig_pids, sig_num_threads>> /\ Same

ResumeAfter ==
    /\ ls.pc = "after"
    /\ Resume(TlPids(ls))
    /\ Step(IF stopped \cap TlPids(ls) # {}
            THEN [ls EXCEPT !.pc = "exited", !.result = -1, !.err = "EINVAL"]
            ELSE [ls EXCEPT !.pc = "exited"])
    /\ UNCHANGED <<sig_pids, sig_num_threads>> /\ Same

(* A synchronous signal in the lister: SignalHandler resumes, or kills for *)
(* SIGABRT, the first sig_num_threads of pids, and exits.                  *)
TlSignalHandler ==
    LET known == IF sig_pids THEN {ls.pids[i] : i \in 1 .. Min({sig_num_threads, NumThreads})}
                 ELSE {}
    IN  /\ ls.pc \notin {"off", "exited", "open"}
        /\ stopped' = stopped \ known
        /\ \/ /\ Step([ls EXCEPT !.pc = "exited", !.exit = 2]) /\ UNCHANGED <<alive, sig_num_threads>>
           \/ /\ Step([ls EXCEPT !.pc = "exited", !.exit = 1])
              /\ alive' = IF known \cap stopped # {} THEN {} ELSE alive
              /\ sig_num_threads' = 0
        /\ sig_pids' = FALSE
        /\ UNCHANGED <<hasTaskDir, forks, tlStarted, starter, caller, loose>>

TlNext ==
    \/ \E t \in alive : Spawn(t) \/ Fork(t) \/ Exit(t)
    \/ \E t \in forks : ExitFork(t)
    \/ CallLister \/ CallerReturns \/ OpenDir \/ ReadDir \/ CheckEntry \/ Attach \/ Peek
    \/ DetachThreads \/ CloseDir \/ Callback \/ ResumeAfter \/ TlSignalHandler

TlSpec == TlInit /\ [][TlNext]_tlVars

-----------------------------------------------------------------------------
(* When the callback starts, every thread of the process is stopped,       *)
(* however many threads started and exited while the directory was read    *)
(* (comment of TCMalloc_ListAllProcessThreads: all the threads are         *)
(* paused).  Excepted are the threads that a debugger holds or that could  *)
(* not be attached, and the threads that these, or a thread that exited    *)
(* during the call, started: those can hide behind the reader's position.  *)
AllStoppedInCallback ==
    ls.pc = "callback" => alive \ (loose \cup Unattachable) \subseteq stopped

(* Once the lister is gone nothing is left stopped, whether the callback   *)
(* resumed the threads or not, and also when the lister died of a signal   *)
(* or had to start again: only the failure label in the middle of a        *)
(* directory does not resume them.  The lister stops none but those in     *)
(* pids, and a result other than -1 means that the callback resumed all.   *)
NobodyLeftStopped ==
    /\ stopped \subseteq TlPids(ls)
    /\ ls.pc = "exited" /\ ls.exit # 1 => stopped = {}
    /\ ls.pc \in {"off", "open"} => stopped = {}
    /\ caller.pc = "returned" /\ caller.result # -1 => ls.exit = 0 /\ stopped = {}

=============================================================================
