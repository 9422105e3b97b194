-------------------------- MODULE ThreadListerProofs --------------------------
(***************************************************************************)
(* The thread lister for any number of threads: nobody is left stopped.    *)
(***************************************************************************)
EXTENDS ThreadLister, TLAPS

-----------------------------------------------------------------------------
(* The inductive invariant.                                                *)

ListerFields == {"pc", "path", "pos", "batch", "pids", "max_threads", "added",
                 "found_parent", "exit", "result", "err"}

\* S is among the first n of pids.
Among(S, pids, n) == \A x \in S : \E i \in 1 .. n : pids[i] = x

ListerTyped ==
  /\ alive \subseteq 1 .. MaxTid /\ forks \subseteq 1 .. MaxTid
  /\ DOMAIN ls = ListerFields /\ ls.pids \in Seq(1 .. MaxTid)

\* The lister is about to attach, or has attached, the last thread of pids.
AtLast == Len(ls.pids) > 0 /\ ls.pids[Len(ls.pids)] = Head(ls.batch)

\* Who is stopped is in pids, and the signal handler knows of all of them.
Consistent ==
  /\ Among(stopped, ls.pids, Len(ls.pids))
  /\ ls.pc = "attach" => AtLast /\ Among(stopped, ls.pids, Len(ls.pids) - 1)
  /\ ls.pc = "peek" =>
       AtLast /\ Among(stopped \ {Head(ls.batch)}, ls.pids, Len(ls.pids) - 1)
  /\ ls.pc \in {"off", "open"} => stopped = {}
  /\ ls.pc \notin {"off", "exited", "open"} => sig_pids = TRUE /\ sig_num_threads = Len(ls.pids)
  /\ ls.pc = "exited" /\ ls.exit # 1 => stopped = {}

ListerInv ==
  /\ ListerTyped /\ Consistent
  /\ caller.pc = "returned" =>
       /\ ls.pc \in {"off", "exited"}
       /\ caller.result # -1 => ls.exit = 0 /\ stopped = {}

-----------------------------------------------------------------------------
(* Sequences and the lister's record.                                      *)

LEMMA FrontOf ==
  ASSUME NEW S, NEW s \in Seq(S), Len(s) > 0
  PROVE  /\ Front(s) \in Seq(S) /\ Len(Front(s)) = Len(s) - 1
         /\ \A i \in 1 .. Len(s) - 1 : Front(s)[i] = s[i]
<1> DEFINE n == Len(s) - 1
<1>1. n \in Nat /\ Len(s) = n + 1
  OBVIOUS
<1>2. \A i \in 1 .. n : s[i] \in S
  OBVIOUS
<1>3. Front(s) = SubSeq(s, 1, n)
  BY Zenon DEF Front
<1> HIDE DEF n
<1>4. Len(SubSeq(s, 1, n)) = n
  BY <1>1
<1>5. \A i \in 1 .. n : SubSeq(s, 1, n)[i] = s[i]
  BY <1>1
<1>6. SubSeq(s, 1, n) \in Seq(S)
  BY <1>1, <1>2
<1> QED
  BY <1>3, <1>4, <1>5, <1>6, Zenon DEF n

LEMMA AppendOf ==
  ASSUME NEW S, NEW s \in Seq(S), NEW e \in S
  PROVE  /\ Append(s, e) \in Seq(S) /\ Len(Append(s, e)) = Len(s) + 1
         /\ Append(s, e)[Len(s) + 1] = e
         /\ \A i \in 1 .. Len(s) : Append(s, e)[i] = s[i]
  OBVIOUS

\* The threads in pids.
LEMMA PidsOf ==
  ASSUME ListerTyped
  PROVE  /\ Len(ls.pids) \in Nat
         /\ \A x : x \in TlPids(ls) <=> \E i \in 1 .. Len(ls.pids) : ls.pids[i] = x
  BY DEF ListerTyped, TlPids, ToSet

LEMMA NextEntryFacts ==
  ASSUME NEW r, DOMAIN r = ListerFields
  PROVE  /\ DOMAIN NextEntry(r) = ListerFields /\ NextEntry(r).pids = r.pids
         /\ NextEntry(r).pc \in {"read", "entry"}
  BY DEF NextEntry, ListerFields

LEMMA DropFacts ==
  ASSUME NEW r, DOMAIN r = ListerFields
  PROVE  /\ DOMAIN Drop(r) = ListerFields /\ Drop(r).pids = Front(r.pids)
         /\ Drop(r).pc \in {"read", "entry"}
  BY DEF Drop, NextEntry, ListerFields

-----------------------------------------------------------------------------
(* The process and the caller.                                             *)

LEMMA ProcessKept ==
  ASSUME ListerInv, stopped' = stopped, ls' = ls, sig_pids' = sig_pids,
         sig_num_threads' = sig_num_threads, caller' = caller,
         alive' \subseteq 1 .. MaxTid, forks' \subseteq 1 .. MaxTid
  PROVE  ListerInv'
  BY Zenon DEF ListerInv, Consistent, ListerTyped, AtLast

LEMMA SpawnKept ==
  ASSUME ListerInv, NEW t, Spawn(t) \/ Fork(t) \/ Exit(t) \/ ExitFork(t)
  PROVE  ListerInv'
<1>1. alive \subseteq 1 .. MaxTid /\ forks \subseteq 1 .. MaxTid
  BY Zenon DEF ListerInv, ListerTyped
<1>2. /\ stopped' = stopped /\ ls' = ls /\ sig_pids' = sig_pids
      /\ sig_num_threads' = sig_num_threads /\ caller' = caller
  BY Zenon DEF Spawn, Fork, Exit, ExitFork
<1>3. alive' \subseteq 1 .. MaxTid /\ forks' \subseteq 1 .. MaxTid
  BY <1>1, Zenon DEF Spawn, Fork, Exit, ExitFork, FreeTids
<1> QED
  BY <1>2, <1>3, ProcessKept, Zenon

LEMMA CallListerKept ==
  ASSUME ListerInv, CallLister
  PROVE  ListerInv'
<1>1. /\ caller.pc = "idle" /\ ls.pc = "off" /\ stopped = {} /\ stopped' = {}
      /\ alive' = alive /\ forks' = forks /\ ListerTyped
  BY DEF CallLister, ListerInv, Consistent, procVars
<1>2. CASE /\ caller' = [caller EXCEPT !.pc = "waitpid"]
           /\ ls' = [IdleLister EXCEPT !.pc = "open"]
  <2>1. /\ DOMAIN ls' = ListerFields /\ ls'.pids = <<>> /\ ls'.pc = "open"
    BY <1>2 DEF IdleLister, ListerFields
  <2>2. ListerTyped'
    BY <1>1, <2>1 DEF ListerTyped
  <2>3. caller'.pc # "returned"
    BY <1>1, <1>2
  <2>4. \A s, n : Among(stopped', s, n)
    BY <1>1, Zenon DEF Among
  <2> QED
    BY <1>1, <2>1, <2>2, <2>3, <2>4 DEF ListerInv, Consistent
<1>3. CASE /\ caller' = [pc |-> "returned", result |-> -1, err |-> "clone"]
           /\ UNCHANGED ls
  <2>1. ls'.pc = "off" /\ caller'.result = -1 /\ ls' = ls
    BY <1>1, <1>3
  <2>2. ListerTyped'
    BY <1>1, <2>1 DEF ListerTyped
  <2>3. \A s, n : Among(stopped', s, n)
    BY <1>1, Zenon DEF Among
  <2> QED
    BY <1>1, <2>1, <2>2, <2>3 DEF ListerInv, Consistent
<1> QED
  BY <1>2, <1>3, Zenon DEF CallLister

LEMMA CallerReturnsKept ==
  ASSUME ListerInv, CallerReturns
  PROVE  ListerInv'
<1>1. /\ ls.pc = "exited" /\ ls' = ls /\ stopped' = stopped /\ alive' = alive /\ forks' = forks
      /\ caller'.result = IF ls.exit = 0 THEN ls.result ELSE -1
      /\ sig_pids' = sig_pids /\ sig_num_threads' = sig_num_threads
  BY DEF CallerReturns, procVars
<1>2. ls.exit # 1 => stopped = {}
  BY <1>1 DEF ListerInv, Consistent
<1>3. caller'.result # -1 => ls'.exit = 0 /\ stopped' = {}
  BY <1>1, <1>2
<1>4. ListerTyped /\ ListerTyped'
  BY <1>1, Zenon DEF ListerInv, ListerTyped
<1> QED
  BY <1>1, <1>2, <1>3, <1>4, Zenon DEF ListerInv, Consistent, AtLast

-----------------------------------------------------------------------------
(* The lister.                                                             *)

\* While the lister works its caller waits, so a step that keeps the lister
\* consistent keeps the invariant.  A signal may kill the threads.
Waits == alive' \subseteq alive /\ forks' = forks /\ caller' = caller

LEMMA SameWaits == Same => Waits
  BY DEF Same, procVars, Waits

LEMMA ListerMoves ==
  ASSUME ListerInv, Waits, ls.pc \notin {"off", "exited"},
         DOMAIN ls' = ListerFields, ls'.pids \in Seq(1 .. MaxTid), Consistent'
  PROVE  ListerInv'
  BY Zenon DEF ListerInv, ListerTyped, Waits

\* A step that leaves pids and the stopped threads alone, and goes to a place
\* where nothing more is asked of them.
LEMMA ListerGoesOn ==
  ASSUME ListerInv, Waits, ls.pc \notin {"off", "exited"},
         DOMAIN ls' = ListerFields, ls'.pids = ls.pids, stopped' \subseteq stopped,
         ls'.pc \notin {"off", "open", "attach", "peek"},
         ls'.pc # "exited" => sig_pids' = TRUE /\ sig_num_threads' = Len(ls.pids),
         ls'.pc = "exited" /\ ls'.exit # 1 => stopped' = {}
  PROVE  ListerInv'
<1>1. ls.pids \in Seq(1 .. MaxTid)
  BY Zenon DEF ListerInv, ListerTyped
<1>2. Among(stopped', ls'.pids, Len(ls'.pids))
  <2>1. Among(stopped, ls.pids, Len(ls.pids))
    BY Zenon DEF ListerInv, Consistent
  <2>2. Among(stopped', ls.pids, Len(ls.pids))
    BY <2>1, Zenon DEF Among
  <2> QED
    BY <2>2, Zenon
<1>3. Consistent'
  BY <1>2, Zenon DEF Consistent
<1> QED
  BY <1>1, <1>3, ListerMoves, Zenon

LEMMA Fields ==
  ASSUME ListerInv
  PROVE  DOMAIN ls = ListerFields
  BY Zenon DEF ListerInv, ListerTyped

LEMMA FailureKept ==
  ASSUME ListerInv, Waits, ls.pc \notin {"off", "exited"}, Failure(ls), stopped' = stopped
  PROVE  ListerInv'
<1>1. DOMAIN ls' = ListerFields /\ ls'.pids = ls.pids /\ ls'.pc = "exited" /\ ls'.exit = 1
  BY Fields DEF Failure, Step, ListerFields
<1> QED
  BY <1>1, ListerGoesOn

LEMMA OpenDirKept ==
  ASSUME ListerInv, OpenDir
  PROVE  ListerInv'
<1>1. Waits /\ ls.pc = "open" /\ stopped' = stopped /\ stopped = {}
  BY SameWaits, Zenon DEF OpenDir, ListerInv, Consistent
<1>2. ASSUME NEW k, ls' = [ls EXCEPT !.pc = "read", !.pos = 0, !.added = FALSE, !.max_threads = k],
             sig_pids' = TRUE, sig_num_threads' = NumThreads
      PROVE  ListerInv'
  <2>1. DOMAIN ls' = ListerFields /\ ls'.pids = ls.pids /\ ls'.pc = "read"
    BY <1>2, Fields DEF ListerFields
  <2> QED
    BY <1>1, <1>2, <2>1, ListerGoesOn DEF NumThreads
<1>3. CASE ls' = [ls EXCEPT !.path = "proc"] /\ UNCHANGED <<sig_pids, sig_num_threads>>
  <2>1. DOMAIN ls' = ListerFields /\ ls'.pids = ls.pids /\ ls'.pc = "open"
    BY <1>1, <1>3, Fields DEF ListerFields
  <2>2. \A s, n : Among(stopped', s, n)
    BY <1>1, Zenon DEF Among
  <2>3. Consistent'
    BY <1>1, <2>1, <2>2 DEF Consistent
  <2>4. ls.pids \in Seq(1 .. MaxTid)
    BY Zenon DEF ListerInv, ListerTyped
  <2> QED
    BY <1>1, <2>1, <2>3, <2>4, ListerMoves
<1>4. CASE Failure(ls)
  BY <1>1, <1>4, FailureKept
<1> QED
  BY <1>2, <1>3, <1>4, Zenon DEF OpenDir, Step

LEMMA ReadDirKept ==
  ASSUME ListerInv, ReadDir
  PROVE  ListerInv'
<1>1. /\ Waits /\ ls.pc = "read" /\ stopped' = stopped
      /\ sig_pids' = sig_pids /\ sig_num_threads' = sig_num_threads
  BY SameWaits, Zenon DEF ReadDir
<1>2. sig_pids = TRUE /\ sig_num_threads = Len(ls.pids)
  BY <1>1 DEF ListerInv, Consistent
<1>3. \/ Failure(ls)
      \/ \E b, q : ls' = [ls EXCEPT !.pc = "entry", !.batch = b, !.pos = q]
      \/ ls' = [ls EXCEPT !.pos = 0, !.added = FALSE]
      \/ ls' = [ls EXCEPT !.pc = "closed"]
  BY Zenon DEF ReadDir, Step
<1>4. ASSUME ~ Failure(ls)
      PROVE  DOMAIN ls' = ListerFields /\ ls'.pids = ls.pids /\ ls'.pc \in {"entry", "read", "closed"}
  <2>1. ASSUME NEW b, NEW q, ls' = [ls EXCEPT !.pc = "entry", !.batch = b, !.pos = q]
        PROVE  DOMAIN ls' = ListerFields /\ ls'.pids = ls.pids /\ ls'.pc = "entry"
    BY <2>1, Fields DEF ListerFields
  <2>2. CASE ls' = [ls EXCEPT !.pos = 0, !.added = FALSE]
    BY <1>1, <2>2, Fields DEF ListerFields
  <2>3. CASE ls' = [ls EXCEPT !.pc = "closed"]
    BY <2>3, Fields DEF ListerFields
  <2> QED
    BY <1>3, <1>4, <2>1, <2>2, <2>3, Zenon
<1>5. CASE Failure(ls)
  BY <1>1, <1>5, FailureKept
<1>6. CASE ~ Failure(ls)
  BY <1>1, <1>2, <1>4, <1>6, Zenon, ListerGoesOn
<1> QED
  BY <1>5, <1>6

\* An entry joins pids before it is attached.
LEMMA CheckEntryKept ==
  ASSUME ListerInv, CheckEntry
  PROVE  ListerInv'
<1> DEFINE pid == Head(ls.batch)
           n   == Len(ls.pids)
<1>1. Waits /\ ls.pc = "entry" /\ stopped' = stopped /\ sig_pids' = sig_pids
  BY SameWaits, Zenon DEF CheckEntry
<1>2. sig_pids = TRUE /\ sig_num_threads = n /\ Among(stopped, ls.pids, n)
  BY <1>1 DEF ListerInv, Consistent
<1>3. ls.pids \in Seq(1 .. MaxTid) /\ n \in Nat /\ alive \cup forks \subseteq 1 .. MaxTid
  BY DEF ListerInv, ListerTyped
<1>4. CASE ls' = NextEntry(ls) /\ UNCHANGED sig_num_threads
  <2>1. DOMAIN ls' = ListerFields /\ ls'.pids = ls.pids /\ ls'.pc \in {"read", "entry"}
    BY <1>4, Fields, NextEntryFacts, Zenon
  <2> QED
    BY <1>1, <1>2, <1>4, <2>1, ListerGoesOn
<1>5. CASE ls' = [ls EXCEPT !.pc = "detach"] /\ UNCHANGED sig_num_threads
  <2>1. DOMAIN ls' = ListerFields /\ ls'.pids = ls.pids /\ ls'.pc = "detach"
    BY <1>5, Fields DEF ListerFields
  <2> QED
    BY <1>1, <1>2, <1>5, <2>1, ListerGoesOn
<1>6. CASE /\ ls' = [ls EXCEPT !.pc = "attach", !.pids = Append(@, pid)]
           /\ sig_num_threads' = NumThreads + 1 /\ pid \in alive \cup forks
  <2>1. /\ DOMAIN ls' = ListerFields /\ ls'.pids = Append(ls.pids, pid) /\ ls'.pc = "attach"
        /\ ls'.batch = ls.batch
    BY <1>6, Fields DEF ListerFields
  <2>2. /\ ls'.pids \in Seq(1 .. MaxTid) /\ Len(ls'.pids) = n + 1
        /\ ls'.pids[n + 1] = pid
        /\ \A i \in 1 .. n : ls'.pids[i] = ls.pids[i]
    <3>1. pid \in 1 .. MaxTid
      BY <1>3, <1>6, Zenon
    <3> HIDE DEF pid
    <3> QED
      BY <1>3, <2>1, <3>1, AppendOf
  <2>3. Among(stopped', ls'.pids, n)
    <3>1. Among(stopped, ls'.pids, n)
      BY <1>2, <2>2, Zenon DEF Among
    <3> QED
      BY <1>1, <3>1, Zenon
  <2>4. Among(stopped', ls'.pids, n + 1) /\ n + 1 > 0 /\ n + 1 - 1 = n
    <3>1. 1 .. n \subseteq 1 .. n + 1 /\ n + 1 > 0 /\ n + 1 - 1 = n
      BY <1>3
    <3> QED
      BY <2>3, <3>1, Zenon DEF Among
  <2>5. sig_num_threads' = Len(ls'.pids) /\ sig_pids' = TRUE
    BY <1>1, <1>2, <1>6, <2>2 DEF NumThreads
  <2>6. AtLast'
    BY <2>1, <2>2, <2>4 DEF AtLast
  <2>7. Among(stopped', ls'.pids, Len(ls'.pids))
    BY <2>2, <2>4, Zenon
  <2>8. Among(stopped', ls'.pids, Len(ls'.pids) - 1)
    <3>1. Len(ls'.pids) - 1 = n
      BY <1>3, <2>2
    <3> QED
      BY <2>3, <3>1, Zenon
  <2>9. Consistent'
    BY <2>1, <2>5, <2>6, <2>7, <2>8 DEF Consistent
  <2> QED
    BY <1>1, <2>1, <2>2, <2>9, ListerMoves
<1> QED
  BY <1>4, <1>5, <1>6, Zenon DEF CheckEntry, Step

\* The last of pids is dropped, and was not stopped or no longer is.
LEMMA DropKept ==
  ASSUME ListerInv, Waits, ls.pc \in {"attach", "peek"}, ls' = Drop(ls),
         sig_num_threads' = NumThreads - 1, sig_pids' = TRUE,
         AtLast, Among(stopped', ls.pids, Len(ls.pids) - 1)
  PROVE  ListerInv'
<1> DEFINE n == Len(ls.pids) - 1
<1>1. ls.pids \in Seq(1 .. MaxTid) /\ Len(ls.pids) > 0
  BY DEF ListerInv, ListerTyped, AtLast
<1>2. DOMAIN ls' = ListerFields /\ ls'.pids = Front(ls.pids) /\ ls'.pc \in {"read", "entry"}
  BY Fields, DropFacts, Zenon
<1>3. /\ ls'.pids \in Seq(1 .. MaxTid) /\ Len(ls'.pids) = n
      /\ \A i \in 1 .. n : ls'.pids[i] = ls.pids[i]
  BY <1>1, <1>2, FrontOf
<1> HIDE DEF n
<1>4. Among(stopped', ls'.pids, n)
  <2>1. Among(stopped', ls.pids, n)
    BY Zenon DEF n
  <2> QED
    BY <1>3, <2>1, Zenon DEF Among
<1>5. sig_num_threads' = Len(ls'.pids)
  BY <1>3 DEF NumThreads, n
<1>6. Among(stopped', ls'.pids, Len(ls'.pids))
  BY <1>3, <1>4, Zenon
<1>7. Consistent'
  BY <1>2, <1>5, <1>6 DEF Consistent
<1> QED
  BY <1>2, <1>3, <1>7, ListerMoves

LEMMA PeekKept ==
  ASSUME ListerInv, Peek
  PROVE  ListerInv'
<1> DEFINE pid == Head(ls.batch)
<1>1. /\ Waits /\ ls.pc = "peek" /\ sig_pids' = sig_pids /\ sig_pids = TRUE
      /\ sig_num_threads = Len(ls.pids)
      /\ AtLast /\ Among(stopped \ {pid}, ls.pids, Len(ls.pids) - 1)
  BY SameWaits DEF Peek, ListerInv, Consistent
<1>2. CASE /\ stopped' = stopped \ {pid} /\ ls' = Drop(ls)
           /\ sig_num_threads' = NumThreads - 1
  <2>1. Among(stopped', ls.pids, Len(ls.pids) - 1)
    BY <1>1, <1>2, Zenon
  <2> QED
    BY <1>1, <1>2, <2>1, DropKept
<1>3. ASSUME NEW b, ls' = NextEntry([ls EXCEPT !.added = TRUE, !.found_parent = b]),
             UNCHANGED <<stopped, sig_num_threads>>
      PROVE  ListerInv'
  <2> DEFINE r == [ls EXCEPT !.added = TRUE, !.found_parent = b]
  <2>1. DOMAIN r = ListerFields /\ r.pids = ls.pids
    BY Fields DEF ListerFields
  <2> HIDE DEF r
  <2>2. DOMAIN ls' = ListerFields /\ ls'.pids = ls.pids /\ ls'.pc \in {"read", "entry"}
    <3>1. ls' = NextEntry(r)
      BY <1>3, Zenon DEF r
    <3> QED
      BY <2>1, <3>1, NextEntryFacts, Zenon
  <2> QED
    BY <1>1, <1>3, <2>2, ListerGoesOn
<1> QED
  BY <1>2, <1>3, Zenon DEF Peek, Step

LEMMA CallbackKept ==
  ASSUME ListerInv, Callback
  PROVE  ListerInv'
<1>1. /\ Waits /\ ls.pc = "callback" /\ stopped' \subseteq stopped
      /\ sig_pids' = sig_pids /\ sig_num_threads' = sig_num_threads
      /\ ls' = [ls EXCEPT !.pc = "after", !.result = 1]
  BY SameWaits, Zenon DEF Callback, Resume, Step
<1>2. sig_pids = TRUE /\ sig_num_threads = Len(ls.pids)
  BY <1>1 DEF ListerInv, Consistent
<1>3. DOMAIN ls' = ListerFields /\ ls'.pids = ls.pids /\ ls'.pc = "after"
  BY <1>1, Fields DEF ListerFields
<1> QED
  BY <1>1, <1>2, <1>3, ListerGoesOn

\* Resuming the threads in pids resumes all.
LEMMA ResumesAll ==
  ASSUME ListerInv, Resume(TlPids(ls))
  PROVE  stopped' = {}
<1>1. Among(stopped, ls.pids, Len(ls.pids)) /\ ListerTyped
  BY Zenon DEF ListerInv, Consistent
<1>2. \A x : x \in TlPids(ls) <=> \E i \in 1 .. Len(ls.pids) : ls.pids[i] = x
  BY <1>1, PidsOf
<1> QED
  BY <1>1, <1>2, Zenon DEF Among, Resume

LEMMA ResumeAfterKept ==
  ASSUME ListerInv, ResumeAfter
  PROVE  ListerInv'
<1>1. Waits /\ ls.pc = "after" /\ stopped' = {}
  BY SameWaits, ResumesAll, Zenon DEF ResumeAfter
<1>2. \/ ls' = [ls EXCEPT !.pc = "exited", !.result = -1, !.err = "EINVAL"]
      \/ ls' = [ls EXCEPT !.pc = "exited"]
  BY Zenon DEF ResumeAfter, Step
<1>3. DOMAIN ls' = ListerFields /\ ls'.pids = ls.pids /\ ls'.pc = "exited"
  <2>1. CASE ls' = [ls EXCEPT !.pc = "exited", !.result = -1, !.err = "EINVAL"]
    BY <2>1, Fields DEF ListerFields
  <2>2. CASE ls' = [ls EXCEPT !.pc = "exited"]
    BY <2>2, Fields DEF ListerFields
  <2> QED
    BY <1>2, <2>1, <2>2, Zenon
<1> QED
  BY <1>1, <1>3, Zenon, ListerGoesOn

LEMMA DetachThreadsKept ==
  ASSUME ListerInv, DetachThreads
  PROVE  ListerInv'
<1>1. Waits /\ ls.pc = "detach" /\ stopped' = {}
  BY SameWaits, ResumesAll, Zenon DEF DetachThreads
<1>2. DOMAIN ls' = ListerFields /\ ls'.pids = <<>> /\ ls'.pc = "open"
  BY Fields DEF ListerFields, DetachThreads, Step
<1>3. \A s, n : Among(stopped', s, n)
  BY <1>1, Zenon DEF Among
<1>4. Consistent'
  BY <1>1, <1>2, <1>3 DEF Consistent
<1>5. ls'.pids \in Seq(1 .. MaxTid)
  BY <1>2
<1> QED
  BY <1>1, <1>2, <1>4, <1>5, ListerMoves

LEMMA CloseDirKept ==
  ASSUME ListerInv, CloseDir
  PROVE  ListerInv'
<1>1. /\ Waits /\ ls.pc = "closed"
      /\ sig_pids' = sig_pids /\ sig_num_threads' = sig_num_threads
  BY SameWaits, Zenon DEF CloseDir
<1>2. sig_pids = TRUE /\ sig_num_threads = Len(ls.pids)
  BY <1>1 DEF ListerInv, Consistent
<1>3. CASE ls' = [ls EXCEPT !.pc = "callback"] /\ UNCHANGED stopped
  <2>1. DOMAIN ls' = ListerFields /\ ls'.pids = ls.pids /\ ls'.pc = "callback"
    BY <1>3, Fields DEF ListerFields
  <2> QED
    BY <1>1, <1>2, <1>3, <2>1, ListerGoesOn
<1>4. CASE Resume(TlPids(ls)) /\ ls' = [ls EXCEPT !.pc = "exited", !.exit = 3]
  <2>1. DOMAIN ls' = ListerFields /\ ls'.pids = ls.pids /\ ls'.pc = "exited"
    BY <1>4, Fields DEF ListerFields
  <2>2. stopped' = {}
    BY <1>4, ResumesAll, Zenon
  <2> QED
    BY <1>1, <1>2, <2>1, <2>2, ListerGoesOn
<1>5. CASE ls' = [ls EXCEPT !.pc = "detach", !.path = "proc"] /\ UNCHANGED stopped
  <2>1. DOMAIN ls' = ListerFields /\ ls'.pids = ls.pids /\ ls'.pc = "detach"
    BY <1>5, Fields DEF ListerFields
  <2> QED
    BY <1>1, <1>2, <1>5, <2>1, ListerGoesOn
<1> QED
  BY <1>3, <1>4, <1>5, Zenon DEF CloseDir, Step

LEMMA AttachKept ==
  ASSUME ListerInv, Attach
  PROVE  ListerInv'
<1> DEFINE pid == Head(ls.batch)
           n   == Len(ls.pids)
<1>1. Waits
  BY DEF Attach, Waits, procVars
<1>2. /\ ls.pc = "attach" /\ sig_pids' = sig_pids /\ sig_pids = TRUE
      /\ sig_num_threads = n /\ AtLast /\ Among(stopped, ls.pids, n - 1)
  BY DEF Attach, ListerInv, Consistent
<1>3. CASE /\ stopped' = stopped \cup {pid} /\ ls' = [ls EXCEPT !.pc = "peek"]
           /\ UNCHANGED sig_num_threads
  <2>1. /\ DOMAIN ls' = ListerFields /\ ls'.pids = ls.pids /\ ls'.pc = "peek"
        /\ ls'.batch = ls.batch
    BY <1>3, Fields DEF ListerFields
  <2>2. ls.pids \in Seq(1 .. MaxTid) /\ n \in Nat /\ n > 0 /\ ls.pids[n] = pid
    BY <1>2 DEF ListerInv, ListerTyped, AtLast
  <2>3. n \in 1 .. n /\ 1 .. n - 1 \subseteq 1 .. n
    BY <2>2
  <2> HIDE DEF n, pid
  <2>4. Among(stopped', ls.pids, n) /\ Among(stopped' \ {pid}, ls.pids, n - 1)
    BY <1>2, <1>3, <2>2, <2>3, Zenon DEF Among
  <2>5. Among(stopped', ls'.pids, Len(ls'.pids))
    BY <2>1, <2>4, Zenon DEF n
  <2>6. Among(stopped' \ {Head(ls'.batch)}, ls'.pids, Len(ls'.pids) - 1) /\ AtLast'
    BY <1>2, <2>1, <2>4, Zenon DEF n, pid, AtLast
  <2>7. sig_pids' = TRUE /\ sig_num_threads' = Len(ls'.pids)
    BY <1>2, <1>3, <2>1 DEF n
  <2>8. Consistent'
    BY <2>1, <2>5, <2>6, <2>7 DEF Consistent
  <2> QED
    BY <1>1, <1>2, <2>1, <2>2, <2>8, ListerMoves
<1>4. CASE /\ ls' = Drop(ls) /\ sig_num_threads' = NumThreads - 1 /\ UNCHANGED stopped
  <2>1. Among(stopped', ls.pids, n - 1)
    BY <1>2, <1>4, Zenon
  <2> QED
    BY <1>1, <1>2, <1>4, <2>1, DropKept
<1> QED
  BY <1>3, <1>4, Zenon DEF Attach, Step

\* The signal handler knows of every thread that is stopped.
LEMMA SignalHandlerKept ==
  ASSUME ListerInv, TlSignalHandler
  PROVE  ListerInv'
<1> DEFINE n == Len(ls.pids)
           known == IF sig_pids THEN {ls.pids[i] : i \in 1 .. Min({sig_num_threads, NumThreads})}
                    ELSE {}
<1>1. Waits
  BY DEF TlSignalHandler, Waits
<1>2. /\ ls.pc \notin {"off", "exited", "open"} /\ sig_pids = TRUE /\ sig_num_threads = n
      /\ Among(stopped, ls.pids, n) /\ n \in Nat
  BY DEF TlSignalHandler, ListerInv, Consistent, ListerTyped
<1>3. Min({sig_num_threads, NumThreads}) = n
  <2>1. {sig_num_threads, NumThreads} = {n} /\ n \in Int
    BY <1>2 DEF NumThreads
  <2> HIDE DEF n
  <2>2. \A x \in {n} : x = n /\ n <= n
    BY <2>1
  <2> QED
    BY <2>1, <2>2 DEF Min
<1>4. stopped' = {}
  <2>1. stopped' = stopped \ known
    BY Zenon DEF TlSignalHandler
  <2>2. known = {ls.pids[i] : i \in 1 .. n}
    BY <1>2, <1>3, Zenon
  <2> HIDE DEF known, n
  <2> QED
    BY <1>2, <2>1, <2>2, Zenon DEF Among
<1>5. ls' = [ls EXCEPT !.pc = "exited", !.exit = 2] \/ ls' = [ls EXCEPT !.pc = "exited", !.exit = 1]
  BY Zenon DEF TlSignalHandler, Step
<1>6. DOMAIN ls' = ListerFields /\ ls'.pids = ls.pids /\ ls'.pc = "exited"
  <2>1. CASE ls' = [ls EXCEPT !.pc = "exited", !.exit = 2]
    BY <2>1, Fields DEF ListerFields
  <2>2. CASE ls' = [ls EXCEPT !.pc = "exited", !.exit = 1]
    BY <2>2, Fields DEF ListerFields
  <2> QED
    BY <1>5, <2>1, <2>2, Zenon
<1> QED
  BY <1>1, <1>2, <1>4, <1>6, Zenon, ListerGoesOn

\* Whoever is listed, however the callback behaves and wherever a signal
\* takes the lister, for any number of threads: once the lister of
\* TCMalloc_ListAllProcessThreads is gone nobody is left stopped, except
\* after the failure label; and a result other than -1 means all resumed.
THEOREM ListerResumesAll == TlSpec => []NobodyLeftStopped
<1>1. TlInit => ListerInv
  <2> SUFFICES ASSUME TlInit PROVE ListerInv
    OBVIOUS
  <2>1. /\ DOMAIN ls = ListerFields /\ ls.pids = <<>> /\ ls.pc = "off" /\ stopped = {}
        /\ caller.pc = "idle" /\ alive = TlThreads /\ forks = {}
    BY DEF TlInit, IdleLister, ListerFields
  <2>2. ListerTyped
    BY <2>1, ThreadListerAssumption DEF ListerTyped
  <2>3. \A s, n : Among(stopped, s, n)
    BY <2>1, Zenon DEF Among
  <2> QED
    BY <2>1, <2>2, <2>3 DEF ListerInv, Consistent
<1>2. ListerInv /\ [TlNext]_tlVars => ListerInv'
  <2> SUFFICES ASSUME ListerInv, [TlNext]_tlVars PROVE ListerInv'
    OBVIOUS
  <2>1. ASSUME NEW t, Spawn(t) \/ Fork(t) \/ Exit(t) \/ ExitFork(t) PROVE ListerInv'
    BY <2>1, SpawnKept, Zenon
  <2>2. CASE CallLister \/ CallerReturns
    BY <2>2, CallListerKept, CallerReturnsKept, Zenon
  <2>3. CASE OpenDir \/ ReadDir \/ CheckEntry \/ Attach \/ Peek
    BY <2>3, OpenDirKept, ReadDirKept, CheckEntryKept, AttachKept, PeekKept, Zenon
  <2>4. CASE DetachThreads \/ CloseDir \/ Callback \/ ResumeAfter \/ TlSignalHandler
    BY <2>4, DetachThreadsKept, CloseDirKept, CallbackKept, ResumeAfterKept,
       SignalHandlerKept, Zenon
  <2>5. CASE UNCHANGED tlVars
    <3>1. /\ stopped' = stopped /\ ls' = ls /\ sig_pids' = sig_pids
          /\ sig_num_threads' = sig_num_threads /\ caller' = caller
          /\ alive' = alive /\ forks' = forks
      BY <2>5, Zenon DEF tlVars
    <3>2. alive' \subseteq 1 .. MaxTid /\ forks' \subseteq 1 .. MaxTid
      BY <3>1, Zenon DEF ListerInv, ListerTyped
    <3> QED
      BY <3>1, <3>2, ProcessKept, Zenon
  <2> QED
    BY <2>1, <2>2, <2>3, <2>4, <2>5, Zenon DEF TlNext
<1>3. ListerInv => NobodyLeftStopped
  <2> SUFFICES ASSUME ListerInv PROVE NobodyLeftStopped
    OBVIOUS
  <2>1. stopped \subseteq TlPids(ls)
    <3>1. Among(stopped, ls.pids, Len(ls.pids)) /\ ListerTyped
      BY Zenon DEF ListerInv, Consistent
    <3>2. \A x : x \in TlPids(ls) <=> \E i \in 1 .. Len(ls.pids) : ls.pids[i] = x
      BY <3>1, PidsOf
    <3> QED
      BY <3>1, <3>2, Zenon DEF Among
  <2> QED
    BY <2>1, Zenon DEF ListerInv, Consistent, NobodyLeftStopped
<1> QED
  BY <1>1, <1>2, <1>3, PTL DEF TlSpec
==============================================================================
